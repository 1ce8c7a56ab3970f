--------------------------- MODULE PeerConnProofs ---------------------------
(***************************************************************************)
(* Two peers that dial each other, for any number of connections, faults   *)
(* and restarts: the status a node reports is truthful, nothing of a node  *)
(* that closed is left, and a connection both have adopted is taken down   *)
(* by no dial.                                                             *)
(***************************************************************************)
EXTENDS PeerConn, FiniteSetTheorems, TLAPS

-----------------------------------------------------------------------------
(* The two nodes and the ends of a connection. *)

LEMMA Peers ==
    ASSUME NEW n \in Node
    PROVE  /\ Peer(n) \in Node /\ Peer(n) # n /\ Peer(Peer(n)) = n
           /\ \A m \in Node : m = n \/ m = Peer(n)
<1>1. ASSUME NEW k \in Node PROVE \E m \in Node : m # k /\ Node = {k, m}
    <2>1. IsFiniteSet(Node \ {k}) /\ Cardinality(Node \ {k}) = 1
        BY PeerConnAssumption, FS_RemoveElement
    <2>2. PICK m : Node \ {k} = {m}
        BY <2>1, FS_Singleton
    <2> QED
        BY <2>2
<1>2. ASSUME NEW k \in Node PROVE Peer(k) \in Node /\ Peer(k) # k /\ Node = {k, Peer(k)}
    BY <1>1 DEF Peer
<1>3. /\ Peer(n) \in Node /\ Peer(n) # n /\ Node = {n, Peer(n)}
    BY <1>2
<1>4. Peer(Peer(n)) \in Node /\ Peer(Peer(n)) # Peer(n)
    BY <1>2, <1>3
<1> QED
    BY <1>3, <1>4

\* A connection has a dialer's and an acceptor's end.
LEMMA Ends ==
    ASSUME NEW c \in Conn
    PROVE  /\ c[1] \in Node /\ Acceptor(c) \in Node /\ Acceptor(c) # c[1] /\ c # None
           /\ Peer(Acceptor(c)) = c[1] /\ Peer(c[1]) = Acceptor(c)
           /\ \A n \in Node : n = c[1] \/ n = Acceptor(c)
<1>1. c[1] \in Node /\ c # None
    BY PeerConnAssumption DEF Conn
<1> QED
    BY <1>1, Peers DEF Acceptor

-----------------------------------------------------------------------------
(* The inductive invariant. *)

Attempting == {"connecting", "dialing", "shake", "offer"}
Resting == {"top", "failed", "noteFailure", "noteLoss", "pause", "parked", "adopted", "stopped"}
Handling == {"arrived", "hello", "auth", "lookup", "offer"}

LifeType == {"starting", "open", "cancelled", "closing", "closed", "crashed"}
StatusType == [state : {"disconnected", "connecting", "connected", "backing_off"},
               err : {"", "dial", "dedup"}]
SupType == [pc : Attempting \cup Resting, conn : Conn \cup {None}]
EndType == {"none", "open", "closed", "gone"}
LinkType == [msg : {"none", "Hello", "HelloAuth", "Auth", "Finished", "Error"},
             cut : BOOLEAN, end : [Node -> EndType]]

\* The variables connections live in, and the ones that describe them.
PeerTypeOK ==
    /\ life \in [Node -> LifeType] /\ session \in [Node -> Conn \cup {None}]
    /\ sup \in [Node -> SupType] /\ run \in [Node -> {"none", "running", "ended"}]
    /\ link \in [Conn -> LinkType] /\ acc \in [Conn -> Handling \cup {"none", "redial"}]

NotesTypeOK ==
    /\ removed \in [Node -> BOOLEAN] /\ age \in [Node -> {"fresh", "old"}]
    /\ status \in [Node -> StatusType] /\ losses \in [Node -> Nat]

\* A connection still being offered is nobody's session at that end, and a
\* dial is on a connection of the node's own.
Placed ==
    /\ \A n \in Node : sup[n].pc \in {"shake", "offer"} =>
          sup[n].conn \in Conn /\ sup[n].conn[1] = n /\ session[n] # sup[n].conn
    /\ \A c \in Conn : acc[c] # "none" => session[Acceptor(c)] # c

\* A node that is down has no goroutine, and its ends are gone; one that is
\* starting has not begun to dial.
Down ==
    /\ \A n \in Node : life[n] \in {"closed", "crashed", "starting"} =>
          sup[n].pc = "stopped" /\ run[n] = "none"
    /\ \A n \in Node : life[n] \in {"closed", "crashed"} =>
          \A c \in Conn : ~Open(c, n) /\ (Acceptor(c) = n => acc[c] = "none")

\* Every end that is open belongs to somebody who will close it: the session
\* that adopted it, the dial or the handler.
EndsOwned ==
    \A c \in Conn :
        /\ Open(c, c[1]) => \/ session[c[1]] = c
                            \/ sup[c[1]].conn = c /\ sup[c[1]].pc \in {"shake", "offer"}
        /\ Open(c, Acceptor(c)) => session[Acceptor(c)] = c \/ acc[c] \in Handling

\* The goroutine of an adopted connection lets go of it only when this end of
\* it is closed.
LetGo ==
    \A n \in Node : /\ run[n] # "none" => session[n] # None
                    /\ run[n] = "ended" => \A c \in Conn : session[n] = c => ~Open(c, n)

PeerInv == PeerTypeOK /\ Placed /\ Down /\ EndsOwned /\ LetGo

-----------------------------------------------------------------------------
(* What steps do to the ends of connections. *)

LEMMA EndedEffect ==
    ASSUME NEW l \in LinkType, NEW n \in Node, NEW how \in {"closed", "gone"}
    PROVE  /\ Ended(l, n, how) \in LinkType
           /\ \A m \in Node : Ended(l, n, how).end[m] = "open" <=> l.end[m] = "open" /\ m # n
           /\ Ended(l, n, how).cut \in {l.cut, FALSE}
<1>1. NoLink \in LinkType /\ \A m \in Node : NoLink.end[m] # "open"
    BY DEF NoLink, LinkType, EndType
<1>2. NoLink.cut = FALSE
    BY DEF NoLink
<1>3. CASE l.end[Peer(n)] = "open"
    <2>1. Ended(l, n, how) = [l EXCEPT !.end[n] = how]
        BY <1>3 DEF Ended
    <2>2. [l EXCEPT !.end[n] = how] \in LinkType
        BY DEF LinkType, EndType
    <2>3. /\ [l EXCEPT !.end[n] = how].cut = l.cut
          /\ \A m \in Node : [l EXCEPT !.end[n] = how].end[m] = IF m = n THEN how ELSE l.end[m]
        BY DEF LinkType
    <2> QED
        BY <2>1, <2>2, <2>3
<1>4. CASE l.end[Peer(n)] # "open"
    <2>1. Ended(l, n, how) = NoLink
        BY <1>4 DEF Ended
    <2>2. \A m \in Node : l.end[m] = "open" => m = n
        BY <1>4, Peers
    <2> QED
        BY <1>1, <1>2, <2>1, <2>2
<1> QED
    BY <1>3, <1>4

LEMMA CloseEffect ==
    ASSUME PeerTypeOK, NEW c \in Conn, NEW n \in Node, CloseEnd(c, n)
    PROVE  /\ link' \in [Conn -> LinkType]
           /\ \A d \in Conn, m \in Node : Open(d, m)' <=> Open(d, m) /\ ~(d = c /\ m = n)
           /\ \A d \in Conn \ {c} : link'[d] = link[d]
<1>1. link \in [Conn -> LinkType]
    BY DEF PeerTypeOK
<1>2. link' = [link EXCEPT ![c] = Ended(link[c], n, "closed")]
    BY DEF CloseEnd
<1>3. /\ Ended(link[c], n, "closed") \in LinkType
      /\ \A m \in Node : Ended(link[c], n, "closed").end[m] = "open"
                            <=> link[c].end[m] = "open" /\ m # n
    BY <1>1, EndedEffect
<1>4. link' \in [Conn -> LinkType] /\ link'[c] = Ended(link[c], n, "closed")
      /\ \A d \in Conn \ {c} : link'[d] = link[d]
    BY <1>1, <1>2, <1>3
<1> QED
    BY <1>3, <1>4 DEF Open

\* A frame on a connection opens and closes nothing.
LEMMA FrameEffect ==
    ASSUME PeerTypeOK, NEW c \in Conn, NEW f \in {"none", "HelloAuth", "Auth", "Finished", "Error"},
           link' = [link EXCEPT ![c].msg = f]
    PROVE  /\ link' \in [Conn -> LinkType]
           /\ \A d \in Conn, m \in Node : Open(d, m)' <=> Open(d, m)
           /\ \A d \in Conn : link'[d].cut = link[d].cut
<1>1. link \in [Conn -> LinkType]
    BY DEF PeerTypeOK
<1>2. link' \in [Conn -> LinkType]
    BY <1>1 DEF LinkType
<1>3. \A d \in Conn : link'[d].end = link[d].end /\ link'[d].cut = link[d].cut
    BY <1>1 DEF LinkType
<1> QED
    BY <1>2, <1>3 DEF Open

-----------------------------------------------------------------------------
(* Steps keep the invariant. *)

LEMMA AtParts == ASSUME NEW pc, NEW c PROVE At(pc, c).pc = pc /\ At(pc, c).conn = c
BY DEF At

\* The supervisor moves on while it has no connection in hand.
LEMMA SupKeeps ==
    ASSUME PeerInv, NEW n \in Node, NEW pc \in Resting \cup {"connecting", "dialing"},
           NEW x \in Conn \cup {None}, sup' = [sup EXCEPT ![n] = At(pc, x)],
           sup[n].pc \notin {"shake", "offer", "stopped"},
           UNCHANGED <<life, session, run, link, acc>>
    PROVE  PeerInv'
<1> USE DEF PeerInv
<1>1. At(pc, x) \in SupType
    BY DEF At, SupType, Attempting
<1>2. /\ sup' \in [Node -> SupType] /\ sup'[n].pc = pc
      /\ \A m \in Node \ {n} : sup'[m] = sup[m]
    BY <1>1, AtParts DEF PeerTypeOK
<1>3. pc \notin {"shake", "offer"}
    BY DEF Resting
<1>4. PeerTypeOK'
    BY <1>2 DEF PeerTypeOK
<1>5. Placed'
    BY <1>2, <1>3 DEF Placed
<1>6. Down'
    BY <1>2 DEF Down, Open
<1>7. EndsOwned'
    BY <1>2, Ends DEF EndsOwned, Open
<1>8. LetGo'
    BY DEF LetGo, Open
<1> QED
    BY <1>4, <1>5, <1>6, <1>7, <1>8

LEMMA SupervisorKeeps ==
    ASSUME PeerInv, NEW n \in Node,
           \/ dialAttempt(n) \/ setState(n) \/ DialFails(n) \/ Superseded(n) \/ noteDialFailure(n)
           \/ noteDedupLoss(n) \/ Supervise(n) \/ ConnectionEnded(n)
    PROVE  PeerInv'
<1>1. session[n] \in Conn \cup {None}
    BY DEF PeerInv, PeerTypeOK
<1>2. UNCHANGED <<life, session, run, link, acc>>
    BY DEF dialAttempt, setState, DialFails, Superseded, noteDialFailure, noteDedupLoss, Supervise,
           ConnectionEnded
<1>3. sup[n].pc \notin {"shake", "offer", "stopped"}
    BY DEF dialAttempt, setState, DialFails, Superseded, noteDialFailure, noteDedupLoss, Supervise,
           ConnectionEnded
<1>4. \E pc \in Resting \cup {"connecting", "dialing"}, x \in Conn \cup {None} :
         sup' = [sup EXCEPT ![n] = At(pc, x)]
    <2> USE DEF Resting
    <2>1. CASE dialAttempt(n)
        <3>1. \/ sup' = [sup EXCEPT ![n] = At("stopped", None)]
              \/ sup' = [sup EXCEPT ![n] = At("parked", session[n])]
              \/ sup' = [sup EXCEPT ![n] = At("connecting", None)]
            BY <2>1 DEF dialAttempt
        <3> QED
            BY <1>1, <3>1
    <2>2. CASE setState(n) \/ DialFails(n) \/ noteDialFailure(n) \/ noteDedupLoss(n) \/ Supervise(n)
        <3>1. \E pc \in {"dialing", "failed", "pause", "top"} : sup' = [sup EXCEPT ![n] = At(pc, None)]
            BY <2>2 DEF setState, DialFails, noteDialFailure, noteDedupLoss, Supervise
        <3> QED
            BY <3>1
    <2>3. CASE Superseded(n) \/ ConnectionEnded(n)
        <3>1. \E pc \in {"noteFailure", "top", "pause"} : sup' = [sup EXCEPT ![n] = At(pc, None)]
            BY <2>3 DEF Superseded, ConnectionEnded
        <3> QED
            BY <3>1
    <2> QED
        BY <2>1, <2>2, <2>3
<1> QED
    BY <1>2, <1>3, <1>4, SupKeeps

\* A dial takes a connection nobody refers to.
LEMMA DialKeeps == ASSUME PeerInv, NEW n \in Node, Dial(n) PROVE PeerInv'
<1> USE DEF PeerInv
<1> DEFINE c == CHOOSE c \in Free(n) : TRUE
           l == [msg |-> "Hello", cut |-> FALSE, end |-> [m \in Node |-> "open"]]
<1>1. c \in Free(n)
    BY DEF Dial
<1>2. /\ c \in Conn /\ c[1] = n /\ acc[c] = "none"
      /\ \A m \in Node : session[m] # c /\ sup[m].conn # c
    BY <1>1 DEF Free, Conn
<1>3. /\ link' = [link EXCEPT ![c] = l] /\ acc' = [acc EXCEPT ![c] = "arrived"]
      /\ sup' = [sup EXCEPT ![n] = At("shake", c)] /\ sup[n].pc = "dialing"
      /\ Listening(Peer(n)) /\ UNCHANGED <<life, session, run>>
    BY DEF Dial
<1> HIDE DEF c
<1>4. l \in LinkType /\ \A m \in Node : l.end[m] = "open"
    BY DEF LinkType, EndType
<1> HIDE DEF l
<1>5. At("shake", c) \in SupType /\ At("shake", c).pc = "shake" /\ At("shake", c).conn = c
    BY <1>2 DEF At, SupType, Attempting
<1>6. /\ sup' \in [Node -> SupType] /\ sup'[n].pc = "shake" /\ sup'[n].conn = c
      /\ \A m \in Node \ {n} : sup'[m] = sup[m]
    BY <1>3, <1>5 DEF PeerTypeOK
<1>7. /\ acc' \in [Conn -> Handling \cup {"none", "redial"}] /\ acc'[c] = "arrived"
      /\ \A d \in Conn \ {c} : acc'[d] = acc[d]
    BY <1>2, <1>3 DEF PeerTypeOK, Handling
<1>8. link' \in [Conn -> LinkType] /\ \A d \in Conn \ {c} : link'[d] = link[d]
    BY <1>2, <1>3, <1>4 DEF PeerTypeOK
<1>9. \A d \in Conn, m \in Node : d # c => (Open(d, m)' <=> Open(d, m))
    BY <1>8 DEF Open
<1>10. Acceptor(c) = Peer(n) /\ Peer(n) \in Node /\ n # Peer(n)
    BY <1>2, Ends, Peers
<1>11. PeerTypeOK'
    BY <1>3, <1>6, <1>7, <1>8 DEF PeerTypeOK
<1>12. Placed'
    BY <1>2, <1>3, <1>6, <1>7, Ends DEF Placed
<1>13. Down'
    <2>1. \A m \in Node : life[m] \in {"closed", "crashed"} => m # n /\ m # Peer(n)
        BY <1>3 DEF Down, Listening
    <2>2. \A m \in Node : life[m] \notin {"closed", "crashed"}
        BY <2>1, Peers
    <2>3. life[n] \notin {"closed", "crashed", "starting"}
        BY <1>3 DEF Down
    <2> QED
        BY <1>3, <1>6, <2>2, <2>3 DEF Down
<1>14. EndsOwned'
    <2> SUFFICES ASSUME NEW d \in Conn
                 PROVE  /\ Open(d, d[1])' => \/ session[d[1]] = d
                                             \/ /\ sup'[d[1]].conn = d
                                                /\ sup'[d[1]].pc \in {"shake", "offer"}
                        /\ Open(d, Acceptor(d))' => session[Acceptor(d)] = d \/ acc'[d] \in Handling
        BY <1>3 DEF EndsOwned
    <2>1. CASE d = c
        BY <1>2, <1>6, <1>7, <2>1 DEF Handling
    <2>2. CASE d # c
        <3>1. d[1] \in Node /\ Acceptor(d) \in Node
            BY Ends
        <3>2. d[1] = n => ~(sup[n].conn = d /\ sup[n].pc \in {"shake", "offer"})
            BY <1>3
        <3> QED
            BY <1>6, <1>7, <1>9, <2>2, <3>1, <3>2 DEF EndsOwned
    <2> QED
        BY <2>1, <2>2
<1>15. LetGo'
    BY <1>2, <1>3, <1>9 DEF LetGo
<1> QED
    BY <1>11, <1>12, <1>13, <1>14, <1>15

\* The supervisor moves on with the connection it dialed, or has closed its
\* end of it.
LEMMA InHandKeeps ==
    ASSUME PeerInv, NEW n \in Node, NEW pc \in Attempting \cup Resting, NEW x \in Conn \cup {None},
           NEW c \in Conn, sup[n].conn = c, sup[n].pc \in {"shake", "offer"},
           sup' = [sup EXCEPT ![n] = At(pc, x)],
           IF pc \in {"shake", "offer"} THEN x = c ELSE ~Open(c, n)',
           link' \in [Conn -> LinkType],
           \A d \in Conn, m \in Node : Open(d, m)' => Open(d, m),
           UNCHANGED <<life, session, run, acc>>
    PROVE  PeerInv'
<1> USE DEF PeerInv
<1>1. At(pc, x) \in SupType
    BY DEF At, SupType
<1>2. /\ sup' \in [Node -> SupType] /\ sup'[n].pc = pc /\ sup'[n].conn = x
      /\ \A m \in Node \ {n} : sup'[m] = sup[m]
    BY <1>1, AtParts DEF PeerTypeOK
<1>3. PeerTypeOK'
    BY <1>2 DEF PeerTypeOK
<1>4. Placed'
    BY <1>2 DEF Placed
<1>5. Down'
    BY <1>2 DEF Down
<1>6. EndsOwned'
    <2> SUFFICES ASSUME NEW d \in Conn
                 PROVE  /\ Open(d, d[1])' => \/ session[d[1]] = d
                                             \/ /\ sup'[d[1]].conn = d
                                                /\ sup'[d[1]].pc \in {"shake", "offer"}
                        /\ Open(d, Acceptor(d))' => session[Acceptor(d)] = d \/ acc[d] \in Handling
        BY DEF EndsOwned
    <2>1. d[1] \in Node /\ Acceptor(d) \in Node
        BY Ends
    <2>2. Open(d, Acceptor(d))' => session[Acceptor(d)] = d \/ acc[d] \in Handling
        BY <2>1 DEF EndsOwned
    <2>3. CASE d[1] # n
        BY <1>2, <2>1, <2>2, <2>3 DEF EndsOwned
    <2>4. CASE d[1] = n /\ d # c
        BY <2>1, <2>2, <2>4 DEF EndsOwned
    <2>5. CASE d[1] = n /\ d = c
        BY <1>2, <2>2, <2>5
    <2> QED
        BY <2>3, <2>4, <2>5
<1>7. LetGo'
    BY DEF LetGo
<1> QED
    BY <1>3, <1>4, <1>5, <1>6, <1>7

\* A handler moves on with the connection it accepted, or has closed its end.
LEMMA HandlerKeeps ==
    ASSUME PeerInv, NEW c \in Conn, NEW v \in Handling \cup {"none", "redial"},
           acc[c] # "none", acc' = [acc EXCEPT ![c] = v],
           v \in Handling \/ ~Open(c, Acceptor(c))',
           link' \in [Conn -> LinkType],
           \A d \in Conn, m \in Node : Open(d, m)' => Open(d, m),
           UNCHANGED <<life, session, sup, run>>
    PROVE  PeerInv'
<1> USE DEF PeerInv
<1>1. /\ acc' \in [Conn -> Handling \cup {"none", "redial"}] /\ acc'[c] = v
      /\ \A d \in Conn \ {c} : acc'[d] = acc[d]
    BY DEF PeerTypeOK
<1>2. PeerTypeOK'
    BY <1>1 DEF PeerTypeOK
<1>3. Placed'
    BY <1>1 DEF Placed
<1>4. Down'
    BY <1>1 DEF Down
<1>5. EndsOwned'
    BY <1>1, Ends DEF EndsOwned
<1>6. LetGo'
    BY DEF LetGo
<1> QED
    BY <1>2, <1>3, <1>4, <1>5, <1>6

\* The handshake of the dialer.
LEMMA InitiateKeeps ==
    ASSUME PeerInv, NEW n \in Node, ReadHelloAuth(n) \/ ReadFinished(n) \/ InitiateFails(n)
    PROVE  PeerInv'
<1>1. PeerTypeOK /\ sup[n].pc = "shake"
    BY DEF PeerInv, ReadHelloAuth, ReadFinished, InitiateFails
<1>2. sup[n].conn \in Conn /\ sup[n] \in SupType
    BY <1>1 DEF PeerInv, Placed, PeerTypeOK
<1> PICK c \in Conn : sup[n].conn = c
    BY <1>2
<1>3. CASE ReadHelloAuth(n)
    <2>1. /\ link' = [link EXCEPT ![c].msg = "Auth"]
          /\ UNCHANGED <<life, session, sup, run, acc>>
        BY <1>3 DEF ReadHelloAuth
    <2>2. /\ link' \in [Conn -> LinkType] /\ \A d \in Conn, m \in Node : Open(d, m)' => Open(d, m)
        BY <1>1, <1>2, <2>1, FrameEffect
    <2>3. sup' = [sup EXCEPT ![n] = At("shake", c)]
        BY <1>1, <1>2, <2>1 DEF PeerTypeOK, At, SupType
    <2> QED
        BY <1>1, <1>2, <2>1, <2>2, <2>3, InHandKeeps DEF Attempting
<1>4. CASE ReadFinished(n)
    <2>1. /\ link' = [link EXCEPT ![c].msg = "none"]
          /\ sup' = [sup EXCEPT ![n] = At("offer", c)]
          /\ UNCHANGED <<life, session, run, acc>>
        BY <1>4 DEF ReadFinished
    <2>2. /\ link' \in [Conn -> LinkType] /\ \A d \in Conn, m \in Node : Open(d, m)' => Open(d, m)
        BY <1>1, <1>2, <2>1, FrameEffect
    <2> QED
        BY <1>1, <1>2, <2>1, <2>2, InHandKeeps DEF Attempting
<1>5. CASE InitiateFails(n)
    <2>1. /\ CloseEnd(c, n) /\ sup' = [sup EXCEPT ![n] = At("failed", None)]
          /\ UNCHANGED <<life, session, run, acc>>
        BY <1>5 DEF InitiateFails
    <2>2. /\ link' \in [Conn -> LinkType] /\ ~Open(c, n)'
          /\ \A d \in Conn, m \in Node : Open(d, m)' => Open(d, m)
        BY <1>1, <1>2, <2>1, CloseEffect
    <2> QED
        BY <1>1, <1>2, <2>1, <2>2, InHandKeeps DEF Resting
<1> QED
    BY <1>3, <1>4, <1>5

\* The handshake of the acceptor, up to the offer, and what an unwanted
\* connection says of the adopted one.
LEMMA AcceptKeeps ==
    ASSUME PeerInv, NEW c \in Conn,
           \/ onAccept(c) \/ ReadHello(c) \/ ReadAuth(c) \/ AcceptFails(c) \/ lookupPeer(c)
           \/ notePeerRedialed(c)
    PROVE  PeerInv'
<1> USE DEF Handling
<1>1. PeerTypeOK /\ Acceptor(c) \in Node
    BY Ends DEF PeerInv
<1>2. /\ acc[c] # "none" /\ UNCHANGED <<life, session, sup, run>>
    BY DEF onAccept, ReadHello, ReadAuth, AcceptFails, lookupPeer, notePeerRedialed
<1>3. CASE acc' = [acc EXCEPT ![c] = "none"] /\ CloseEnd(c, Acceptor(c))
    <2>1. /\ link' \in [Conn -> LinkType] /\ ~Open(c, Acceptor(c))'
          /\ \A d \in Conn, m \in Node : Open(d, m)' => Open(d, m)
        BY <1>1, <1>3, CloseEffect
    <2> QED
        BY <1>2, <1>3, <2>1, HandlerKeeps
<1>4. CASE /\ \E v \in {"hello", "offer"} : acc' = [acc EXCEPT ![c] = v]
           /\ UNCHANGED link
    <2>1. link' \in [Conn -> LinkType] /\ \A d \in Conn, m \in Node : Open(d, m)' => Open(d, m)
        BY <1>1, <1>4 DEF PeerTypeOK, Open
    <2> QED
        BY <1>2, <1>4, <2>1, HandlerKeeps
<1>5. CASE \E v \in {"auth", "lookup"}, f \in {"HelloAuth", "Finished"} :
              acc' = [acc EXCEPT ![c] = v] /\ link' = [link EXCEPT ![c].msg = f]
    <2>1. link' \in [Conn -> LinkType] /\ \A d \in Conn, m \in Node : Open(d, m)' => Open(d, m)
        BY <1>1, <1>5, FrameEffect
    <2> QED
        BY <1>2, <1>5, <2>1, HandlerKeeps
<1>6. CASE /\ acc' = [acc EXCEPT ![c] = "none"]
           /\ link' = [link EXCEPT ![c] = Ended([@ EXCEPT !.msg = "Error"], Acceptor(c), "closed")]
    <2> DEFINE l == [link[c] EXCEPT !.msg = "Error"]
    <2>1. l \in LinkType /\ l.end = link[c].end
        BY <1>1 DEF PeerTypeOK, LinkType
    <2> HIDE DEF l
    <2>2. /\ Ended(l, Acceptor(c), "closed") \in LinkType
          /\ \A m \in Node : Ended(l, Acceptor(c), "closed").end[m] = "open"
                                <=> l.end[m] = "open" /\ m # Acceptor(c)
        BY <1>1, <2>1, EndedEffect
    <2>3. link' = [link EXCEPT ![c] = Ended(l, Acceptor(c), "closed")]
        BY <1>6 DEF l
    <2>4. /\ link' \in [Conn -> LinkType] /\ link'[c] = Ended(l, Acceptor(c), "closed")
          /\ \A d \in Conn \ {c} : link'[d] = link[d]
        BY <1>1, <2>2, <2>3 DEF PeerTypeOK
    <2>5. /\ ~Open(c, Acceptor(c))' /\ \A d \in Conn, m \in Node : Open(d, m)' => Open(d, m)
        BY <1>1, <2>1, <2>2, <2>4 DEF Open
    <2> QED
        BY <1>2, <1>6, <2>4, <2>5, HandlerKeeps
<1>7. CASE notePeerRedialed(c)
    <2> DEFINE n == Acceptor(c)
    <2>1. acc[c] = "redial" /\ acc' = [acc EXCEPT ![c] = "none"]
        BY <1>7 DEF notePeerRedialed
    <2>2. ~Open(c, n)
        BY <2>1 DEF PeerInv, Placed, EndsOwned
    <2>3. link' \in [Conn -> LinkType] /\ \A d \in Conn, m \in Node : Open(d, m)' => Open(d, m)
        <3>1. CASE UNCHANGED link
            BY <1>1, <3>1 DEF PeerTypeOK, Open
        <3>2. CASE session[n] # None /\ CloseEnd(session[n], n)
            <4>1. session[n] \in Conn
                BY <1>1, <3>2 DEF PeerTypeOK
            <4> QED
                BY <1>1, <3>2, <4>1, CloseEffect
        <3> QED
            BY <1>7, <3>1, <3>2 DEF notePeerRedialed
    <2> QED
        BY <1>1, <1>2, <2>1, <2>2, <2>3, HandlerKeeps
<1>8. CASE onAccept(c) \/ lookupPeer(c) \/ AcceptFails(c)
    BY <1>3, <1>4, <1>8 DEF onAccept, lookupPeer, AcceptFails
<1>9. CASE ReadHello(c) \/ ReadAuth(c)
    BY <1>5, <1>6, <1>9 DEF ReadHello, ReadAuth
<1> QED
    BY <1>7, <1>8, <1>9

\* What adoption does: the session is c, and its goroutine runs unless the
\* node is starting or closing.
LEMMA AdoptedEffect ==
    ASSUME PeerTypeOK, NEW n \in Node, NEW c \in Conn, Adopted(n, c)
    PROVE  /\ session' \in [Node -> Conn \cup {None}] /\ session'[n] = c
           /\ run' \in [Node -> {"none", "running", "ended"}] /\ run'[n] # "ended"
           /\ run'[n] = "none" \/ life[n] \in {"open", "cancelled"}
           /\ \A m \in Node \ {n} : session'[m] = session[m] /\ run'[m] = run[m]
BY DEF PeerTypeOK, Adopted

\* The dialer offers: the connection is adopted, or its end closed.
LEMMA OfferDialedKeeps == ASSUME PeerInv, NEW n \in Node, OfferDialed(n) PROVE PeerInv'
<1> USE DEF PeerInv
<1>1. /\ sup[n].pc = "offer" /\ UNCHANGED <<life, acc>>
    BY DEF OfferDialed
<1> PICK c \in Conn : sup[n].conn = c
    BY <1>1 DEF Placed
<1>2. c[1] = n /\ session[n] # c
    BY <1>1 DEF Placed
<1>3. CASE Adopts(n, TRUE)
    <2>1. /\ Adopted(n, c) /\ sup' = [sup EXCEPT ![n] = At("adopted", c)] /\ link' = link
          /\ session[n] = None
        BY <1>3 DEF OfferDialed, Adopts
    <2>2. /\ session' \in [Node -> Conn \cup {None}] /\ session'[n] = c
          /\ run' \in [Node -> {"none", "running", "ended"}] /\ run'[n] # "ended"
          /\ run'[n] = "none" \/ life[n] \in {"open", "cancelled"}
          /\ \A m \in Node \ {n} : session'[m] = session[m] /\ run'[m] = run[m]
        BY <2>1, AdoptedEffect
    <2>3. /\ sup' \in [Node -> SupType] /\ sup'[n].pc = "adopted"
          /\ \A m \in Node \ {n} : sup'[m] = sup[m]
        <3>1. At("adopted", c) \in SupType
            BY DEF At, SupType, Resting
        <3> QED
            BY <2>1, <3>1, AtParts DEF PeerTypeOK
    <2>4. \A d \in Conn, m \in Node : Open(d, m)' <=> Open(d, m)
        BY <2>1 DEF Open
    <2>5. \A d \in Conn : d # None
        BY Ends
    <2>6. PeerTypeOK'
        BY <1>1, <2>1, <2>2, <2>3 DEF PeerTypeOK
    <2>7. Placed'
        <3>1. c # None /\ Acceptor(c) # n
            BY <1>2, Ends
        <3> QED
            BY <1>1, <2>2, <2>3, <3>1, Ends DEF Placed
    <2>8. Down'
        BY <1>1, <2>2, <2>3, <2>4 DEF Down
    <2>9. EndsOwned'
        <3> SUFFICES ASSUME NEW d \in Conn
                     PROVE  /\ Open(d, d[1]) => \/ session'[d[1]] = d
                                                \/ /\ sup'[d[1]].conn = d
                                                   /\ sup'[d[1]].pc \in {"shake", "offer"}
                            /\ Open(d, Acceptor(d)) => session'[Acceptor(d)] = d \/ acc[d] \in Handling
            BY <1>1, <2>4, Ends DEF EndsOwned
        <3>1. d[1] \in Node /\ Acceptor(d) \in Node
            BY Ends
        <3> QED
            BY <2>1, <2>2, <2>3, <2>5, <3>1 DEF EndsOwned
    <2>10. LetGo'
        BY <2>2, <2>4, <2>5 DEF LetGo
    <2> QED
        BY <2>6, <2>7, <2>8, <2>9, <2>10
<1>4. CASE ~Adopts(n, TRUE)
    <2>1. /\ CloseEnd(c, n) /\ UNCHANGED <<session, run>>
          /\ \E pc \in {"pause", "noteLoss"} : sup' = [sup EXCEPT ![n] = At(pc, None)]
        BY <1>4 DEF OfferDialed
    <2>2. /\ link' \in [Conn -> LinkType] /\ ~Open(c, n)'
          /\ \A d \in Conn, m \in Node : Open(d, m)' => Open(d, m)
        BY <2>1, CloseEffect
    <2> QED
        BY <1>1, <2>1, <2>2, InHandKeeps DEF Resting
<1> QED
    BY <1>3, <1>4

\* The acceptor offers.
LEMMA OfferAcceptedKeeps == ASSUME PeerInv, NEW c \in Conn, OfferAccepted(c) PROVE PeerInv'
<1> USE DEF PeerInv
<1> DEFINE n == Acceptor(c)
<1>1. /\ acc[c] = "offer" /\ UNCHANGED <<life, sup>>
    BY DEF OfferAccepted
<1>2. n \in Node /\ c[1] # n /\ session[n] # c
    BY <1>1, Ends DEF Placed
<1>3. CASE Adopts(n, FALSE)
    <2>1. /\ Adopted(n, c) /\ acc' = [acc EXCEPT ![c] = "none"] /\ link' = link
          /\ session[n] = None
        BY <1>3 DEF OfferAccepted, Adopts
    <2>2. /\ session' \in [Node -> Conn \cup {None}] /\ session'[n] = c
          /\ run' \in [Node -> {"none", "running", "ended"}] /\ run'[n] # "ended"
          /\ run'[n] = "none" \/ life[n] \in {"open", "cancelled"}
          /\ \A m \in Node \ {n} : session'[m] = session[m] /\ run'[m] = run[m]
        BY <1>2, <2>1, AdoptedEffect
    <2>3. /\ acc' \in [Conn -> Handling \cup {"none", "redial"}] /\ acc'[c] = "none"
          /\ \A d \in Conn \ {c} : acc'[d] = acc[d]
        BY <2>1 DEF PeerTypeOK
    <2>4. \A d \in Conn, m \in Node : Open(d, m)' <=> Open(d, m)
        BY <2>1 DEF Open
    <2>5. \A d \in Conn : d # None /\ d[1] \in Node /\ Acceptor(d) \in Node
        BY Ends
    <2> HIDE DEF n
    <2>6. PeerTypeOK'
        BY <1>1, <2>1, <2>2, <2>3 DEF PeerTypeOK
    <2>7. Placed'
        BY <1>1, <1>2, <2>2, <2>3, <2>5 DEF Placed, n
    <2>8. Down'
        <3>1. life[n] \notin {"closed", "crashed"}
            BY <1>1, <1>2 DEF Down, n
        <3> QED
            BY <1>1, <2>2, <2>3, <2>4, <3>1 DEF Down
    <2>9. EndsOwned'
        <3> SUFFICES ASSUME NEW d \in Conn
                     PROVE  /\ Open(d, d[1]) => \/ session'[d[1]] = d
                                                \/ /\ sup[d[1]].conn = d
                                                   /\ sup[d[1]].pc \in {"shake", "offer"}
                            /\ Open(d, Acceptor(d)) => session'[Acceptor(d)] = d \/ acc'[d] \in Handling
            BY <1>1, <2>4, <2>5 DEF EndsOwned
        <3> QED
            BY <2>1, <2>2, <2>3, <2>5 DEF EndsOwned, n
    <2>10. LetGo'
        BY <2>2, <2>4, <2>5 DEF LetGo
    <2> QED
        BY <2>6, <2>7, <2>8, <2>9, <2>10
<1>4. CASE ~Adopts(n, FALSE)
    <2>1. /\ CloseEnd(c, n) /\ acc' = [acc EXCEPT ![c] = "redial"] /\ UNCHANGED <<session, run>>
        BY <1>4 DEF OfferAccepted
    <2>2. /\ link' \in [Conn -> LinkType] /\ ~Open(c, n)'
          /\ \A d \in Conn, m \in Node : Open(d, m)' => Open(d, m)
        BY <1>2, <2>1, CloseEffect
    <2> QED
        BY <1>1, <2>1, <2>2, HandlerKeeps
<1> QED
    BY <1>3, <1>4

\* The adopted connection ends: first this end is closed, then it is let go.
LEMMA RunKeeps ==
    ASSUME PeerInv, NEW n \in Node, Disconnect(n) \/ Released(n) PROVE PeerInv'
<1> USE DEF PeerInv
<1>1. UNCHANGED <<life, sup, acc>>
    BY DEF Disconnect, Released
<1>2. CASE Disconnect(n)
    <2>1. run[n] = "running" /\ run' = [run EXCEPT ![n] = "ended"] /\ session' = session
        BY <1>2 DEF Disconnect
    <2> PICK c \in Conn : session[n] = c
        BY <2>1 DEF LetGo, PeerTypeOK
    <2>2. \A d \in Conn : \/ link'[d] = link[d]
                          \/ link'[d] = [link[d] EXCEPT !.cut = TRUE]
                          \/ d = c /\ link'[d] = Ended(link[d], n, "closed")
        BY <1>2 DEF Disconnect
    <2>3. \A d \in Conn : /\ link[d] \in LinkType /\ [link[d] EXCEPT !.cut = TRUE] \in LinkType
                          /\ [link[d] EXCEPT !.cut = TRUE].end = link[d].end
        BY DEF PeerTypeOK, LinkType
    <2>4. \A d \in Conn : /\ Ended(link[d], n, "closed") \in LinkType
                          /\ \A m \in Node : Ended(link[d], n, "closed").end[m] = "open"
                                                <=> link[d].end[m] = "open" /\ m # n
        BY <2>3, EndedEffect
    <2>5. \A d \in Conn : link'[d] \in LinkType
        BY <2>2, <2>3, <2>4
    <2>6. link' \in [Conn -> LinkType]
        BY <1>2, <2>5 DEF Disconnect
    <2>7. ASSUME NEW d \in Conn, NEW m \in Node, Open(d, m)' PROVE Open(d, m)
        <3>1. link'[d].end[m] = "open"
            BY <2>7 DEF Open
        <3>2. CASE link'[d] = link[d]
            BY <3>1, <3>2 DEF Open
        <3>3. CASE link'[d] = [link[d] EXCEPT !.cut = TRUE]
            <4>1. link'[d].end = link[d].end
                BY <2>3, <3>3
            <4> QED
                BY <3>1, <4>1 DEF Open
        <3>4. CASE link'[d] = Ended(link[d], n, "closed")
            BY <2>4, <3>1, <3>4 DEF Open
        <3> QED
            BY <2>2, <3>2, <3>3, <3>4
    <2>8. ~Open(c, n)'
        <3>1. CASE Open(c, n)
            <4>1. link'[c] = Ended(link[c], n, "closed")
                BY <1>2, <3>1 DEF Disconnect
            <4> QED
                BY <2>4, <4>1 DEF Open
        <3>2. CASE ~Open(c, n)
            BY <2>7, <3>2
        <3> QED
            BY <3>1, <3>2
    <2>9. PeerTypeOK'
        BY <1>1, <2>1, <2>6 DEF PeerTypeOK
    <2>10. Placed' /\ EndsOwned'
        BY <1>1, <2>1, <2>7, Ends DEF Placed, EndsOwned
    <2>11. Down'
        BY <1>1, <2>1, <2>7 DEF Down, PeerTypeOK
    <2>12. LetGo'
        BY <2>1, <2>7, <2>8, Ends DEF LetGo, PeerTypeOK
    <2> QED
        BY <2>9, <2>10, <2>11, <2>12
<1>3. CASE Released(n)
    <2>1. /\ run[n] = "ended" /\ run' = [run EXCEPT ![n] = "none"] /\ link' = link
          /\ session' = [session EXCEPT ![n] = None]
        BY <1>3 DEF Released
    <2>2. /\ run' \in [Node -> {"none", "running", "ended"}] /\ run'[n] = "none"
          /\ session' \in [Node -> Conn \cup {None}] /\ session'[n] = None
          /\ \A m \in Node \ {n} : session'[m] = session[m] /\ run'[m] = run[m]
        BY <2>1 DEF PeerTypeOK
    <2>3. \A d \in Conn, m \in Node : Open(d, m)' <=> Open(d, m)
        BY <2>1 DEF Open
    <2>4. \A d \in Conn : d # None /\ d[1] \in Node /\ Acceptor(d) \in Node
        BY Ends
    <2>5. \A d \in Conn : session[n] = d => ~Open(d, n)
        BY <2>1 DEF LetGo
    <2>6. PeerTypeOK'
        BY <1>1, <2>1, <2>2 DEF PeerTypeOK
    <2>7. Placed' /\ Down'
        BY <1>1, <2>2, <2>3, <2>4 DEF Placed, Down
    <2>8. EndsOwned'
        <3> SUFFICES ASSUME NEW d \in Conn
                     PROVE  /\ Open(d, d[1]) => \/ session'[d[1]] = d
                                                \/ /\ sup[d[1]].conn = d
                                                   /\ sup[d[1]].pc \in {"shake", "offer"}
                            /\ Open(d, Acceptor(d)) => session'[Acceptor(d)] = d \/ acc[d] \in Handling
            BY <1>1, <2>3, <2>4 DEF EndsOwned
        <3> QED
            BY <2>2, <2>4, <2>5 DEF EndsOwned
    <2>9. LetGo'
        BY <2>2, <2>3 DEF LetGo
    <2> QED
        BY <2>6, <2>7, <2>8, <2>9
<1> QED
    BY <1>2, <1>3

\* A node's life goes on, or a peer is removed, a connection ages or is cut.
LEMMA QuietKeeps ==
    ASSUME PeerInv, life' \in [Node -> LifeType],
           \A n \in Node : life'[n] \in {"closed", "crashed", "starting"} => life'[n] = life[n],
           link' \in [Conn -> LinkType], \A d \in Conn, m \in Node : Open(d, m)' <=> Open(d, m),
           UNCHANGED <<session, sup, run, acc>>
    PROVE  PeerInv'
<1> USE DEF PeerInv
<1>1. PeerTypeOK' /\ Placed'
    BY DEF PeerTypeOK, Placed
<1>2. Down'
    BY DEF Down
<1>3. EndsOwned' /\ LetGo'
    BY Ends DEF EndsOwned, LetGo
<1> QED
    BY <1>1, <1>2, <1>3

LEMMA GoneEffect ==
    ASSUME PeerTypeOK, NEW n \in Node, NEW how \in {"closed", "gone"}, Gone(n, how)
    PROVE  /\ link' \in [Conn -> LinkType]
           /\ \A d \in Conn, m \in Node : Open(d, m)' <=> Open(d, m) /\ m # n
<1>1. \A d \in Conn : /\ link[d] \in LinkType /\ Ended(link[d], n, how) \in LinkType
                      /\ \A m \in Node : Ended(link[d], n, how).end[m] = "open"
                                            <=> link[d].end[m] = "open" /\ m # n
    <2>1. \A d \in Conn : link[d] \in LinkType
        BY DEF PeerTypeOK
    <2> QED
        BY <2>1, EndedEffect
<1>2. link' = [d \in Conn |-> IF Open(d, n) THEN Ended(link[d], n, how) ELSE link[d]]
    BY DEF Gone
<1>3. link' \in [Conn -> LinkType]
    BY <1>1, <1>2
<1>4. ASSUME NEW d \in Conn, NEW m \in Node PROVE Open(d, m)' <=> Open(d, m) /\ m # n
    <2>1. CASE Open(d, n)
        <3>1. link'[d] = Ended(link[d], n, how)
            BY <1>2, <2>1
        <3> QED
            BY <1>1, <3>1 DEF Open
    <2>2. CASE ~Open(d, n)
        <3>1. link'[d] = link[d]
            BY <1>2, <2>2
        <3> QED
            BY <2>2, <3>1 DEF Open
    <2> QED
        BY <2>1, <2>2
<1> QED
    BY <1>3, <1>4

\* The process ends, its ends with it.
LEMMA EndKeeps ==
    ASSUME PeerInv, NEW n \in Node, Closed(n) \/ Crash(n) PROVE PeerInv'
<1> USE DEF PeerInv
<1>1. /\ link' \in [Conn -> LinkType]
      /\ \A d \in Conn, m \in Node : Open(d, m)' <=> Open(d, m) /\ m # n
    BY GoneEffect DEF Closed, Crash
<1>2. \A d \in Conn : d # None /\ d[1] \in Node /\ Acceptor(d) \in Node
    BY Ends
<1>3. /\ life' \in [Node -> LifeType] /\ life'[n] \in {"closed", "crashed"}
      /\ \A m \in Node \ {n} : life'[m] = life[m]
    BY DEF Closed, Crash, PeerTypeOK, LifeType
<1>4. /\ acc' \in [Conn -> Handling \cup {"none", "redial"}]
      /\ \A d \in Conn : acc'[d] = IF Acceptor(d) = n THEN "none" ELSE acc[d]
    <2>1. CASE Closed(n)
        <3>1. \A d \in Conn : Acceptor(d) = n => acc[d] \in {"none", "arrived"}
            BY <2>1 DEF Closed, Tracked
        <3>2. acc' = [d \in Conn |-> IF Acceptor(d) = n /\ acc[d] = "arrived" THEN "none" ELSE acc[d]]
            BY <2>1 DEF Closed
        <3> QED
            BY <3>1, <3>2 DEF PeerTypeOK
    <2>2. CASE Crash(n)
        <3>1. acc' = [d \in Conn |-> IF Acceptor(d) = n THEN "none" ELSE acc[d]]
            BY <2>2 DEF Crash
        <3> QED
            BY <3>1 DEF PeerTypeOK
    <2> QED
        BY <2>1, <2>2
<1>5. /\ sup' \in [Node -> SupType] /\ sup'[n].pc = "stopped"
      /\ run' \in [Node -> {"none", "running", "ended"}] /\ run'[n] = "none"
      /\ session' \in [Node -> Conn \cup {None}] /\ session'[n] \in {session[n], None}
      /\ \A m \in Node \ {n} : sup'[m] = sup[m] /\ run'[m] = run[m] /\ session'[m] = session[m]
    <2>1. CASE Closed(n)
        BY <2>1 DEF Closed, Tracked, PeerTypeOK
    <2>2. CASE Crash(n)
        <3>1. At("stopped", None) \in SupType /\ At("stopped", None).pc = "stopped"
            BY DEF At, SupType, Resting
        <3> QED
            BY <2>2, <3>1 DEF Crash, PeerTypeOK
    <2> QED
        BY <2>1, <2>2
<1>6. PeerTypeOK'
    BY <1>1, <1>3, <1>4, <1>5 DEF PeerTypeOK
<1>7. Placed'
    BY <1>2, <1>4, <1>5 DEF Placed
<1>8. Down'
    BY <1>1, <1>3, <1>4, <1>5 DEF Down
<1>9. EndsOwned'
    <2> SUFFICES ASSUME NEW d \in Conn
                 PROVE  /\ Open(d, d[1])' => \/ session'[d[1]] = d
                                             \/ /\ sup'[d[1]].conn = d
                                                /\ sup'[d[1]].pc \in {"shake", "offer"}
                        /\ Open(d, Acceptor(d))' => session'[Acceptor(d)] = d \/ acc'[d] \in Handling
        BY DEF EndsOwned
    <2> QED
        BY <1>1, <1>2, <1>4, <1>5 DEF EndsOwned
<1>10. LetGo'
    BY <1>1, <1>5 DEF LetGo
<1> QED
    BY <1>6, <1>7, <1>8, <1>9, <1>10

\* A process begins with nothing, and only then to dial.
LEMMA BeginKeeps ==
    ASSUME PeerInv, NEW n \in Node, Restart(n) \/ startConfiguredPeers(n) PROVE PeerInv'
<1> USE DEF PeerInv
<1>1. link' = link /\ acc' = acc /\ run' = run
    BY DEF Restart, startConfiguredPeers
<1>2. \A d \in Conn, m \in Node : Open(d, m)' <=> Open(d, m)
    BY <1>1 DEF Open
<1>3. \A d \in Conn : d # None /\ d[1] \in Node /\ Acceptor(d) \in Node
    BY Ends
<1>4. CASE Restart(n)
    <2>1. /\ life[n] \in {"closed", "crashed"} /\ sup' = sup
          /\ life' \in [Node -> LifeType] /\ life'[n] = "starting"
          /\ session' \in [Node -> Conn \cup {None}] /\ session'[n] = None
          /\ \A m \in Node \ {n} : life'[m] = life[m] /\ session'[m] = session[m]
        BY <1>4 DEF Restart, PeerTypeOK, LifeType
    <2>2. /\ sup[n].pc = "stopped" /\ run[n] = "none" /\ \A d \in Conn : ~Open(d, n)
        BY <2>1 DEF Down
    <2>3. PeerTypeOK'
        BY <1>1, <2>1 DEF PeerTypeOK
    <2>4. Placed' /\ Down'
        BY <1>1, <1>2, <1>3, <2>1, <2>2 DEF Placed, Down
    <2>5. EndsOwned'
        <3> SUFFICES ASSUME NEW d \in Conn
                     PROVE  /\ Open(d, d[1]) => \/ session'[d[1]] = d
                                                \/ /\ sup[d[1]].conn = d
                                                   /\ sup[d[1]].pc \in {"shake", "offer"}
                            /\ Open(d, Acceptor(d)) => session'[Acceptor(d)] = d \/ acc[d] \in Handling
            BY <1>1, <1>2, <1>3, <2>1 DEF EndsOwned
        <3> QED
            BY <1>3, <2>1, <2>2 DEF EndsOwned
    <2>6. LetGo'
        BY <1>1, <1>2, <2>1, <2>2 DEF LetGo
    <2> QED
        BY <2>3, <2>4, <2>5, <2>6
<1>5. CASE startConfiguredPeers(n)
    <2>1. /\ life[n] = "starting" /\ session' = session
          /\ life' \in [Node -> LifeType] /\ life'[n] = "open"
          /\ \A m \in Node \ {n} : life'[m] = life[m]
          /\ \E pc \in {"stopped", "top"} : sup' = [sup EXCEPT ![n] = At(pc, None)]
        BY <1>5 DEF startConfiguredPeers, PeerTypeOK, LifeType
    <2>2. sup[n].pc = "stopped" /\ run[n] = "none"
        BY <2>1 DEF Down
    <2>3. /\ sup' \in [Node -> SupType] /\ sup'[n].pc \in {"stopped", "top"}
          /\ \A m \in Node \ {n} : sup'[m] = sup[m]
        <3>1. \A pc \in {"stopped", "top"} : At(pc, None) \in SupType /\ At(pc, None).pc = pc
            BY DEF At, SupType, Resting
        <3> QED
            BY <2>1, <3>1 DEF PeerTypeOK
    <2>4. PeerTypeOK'
        BY <1>1, <2>1, <2>3 DEF PeerTypeOK
    <2>5. Placed' /\ Down'
        BY <1>1, <1>2, <2>1, <2>3 DEF Placed, Down
    <2>6. EndsOwned'
        BY <1>1, <1>2, <1>3, <2>1, <2>2, <2>3 DEF EndsOwned
    <2>7. LetGo'
        BY <1>1, <1>2, <2>1 DEF LetGo
    <2> QED
        BY <2>4, <2>5, <2>6, <2>7
<1> QED
    BY <1>4, <1>5

LEMMA PeerNextKeeps == ASSUME PeerInv, [Next]_vars PROVE PeerInv'
<1>1. ASSUME NEW n \in Node, Supervisor(n) PROVE PeerInv'
    BY <1>1, SupervisorKeeps, DialKeeps, InitiateKeeps, OfferDialedKeeps DEF Supervisor
<1>2. ASSUME NEW c \in Conn, handleAccept(c) PROVE PeerInv'
    BY <1>2, AcceptKeeps, OfferAcceptedKeeps DEF handleAccept
<1>3. ASSUME NEW n \in Node, runConnection(n) PROVE PeerInv'
    BY <1>3, RunKeeps DEF runConnection
<1>4. ASSUME NEW n \in Node, startConfiguredPeers(n) \/ Restart(n) PROVE PeerInv'
    BY <1>4, BeginKeeps
<1>5. ASSUME NEW n \in Node, Closed(n) \/ Crash(n) PROVE PeerInv'
    BY <1>5, EndKeeps
<1>6. ASSUME NEW n \in Node, Close(n) \/ Cancel(n) PROVE PeerInv'
    <2>1. /\ life' \in [Node -> LifeType] /\ life'[n] \in {"cancelled", "closing"}
          /\ \A m \in Node \ {n} : life'[m] = life[m]
        BY <1>6 DEF PeerInv, PeerTypeOK, Close, Cancel, LifeType
    <2>2. link' \in [Conn -> LinkType] /\ \A d \in Conn, m \in Node : Open(d, m)' <=> Open(d, m)
        BY <1>6 DEF PeerInv, PeerTypeOK, Close, Cancel, Open
    <2> QED
        BY <1>6, <2>1, <2>2, QuietKeeps DEF Close, Cancel
<1>7. CASE (\E n \in Node : Age(n) \/ RemovePeer(n)) \/ UNCHANGED vars
    <2>1. UNCHANGED <<life, session, sup, run, link, acc>>
        BY <1>7 DEF Age, RemovePeer, vars
    <2>2. link' \in [Conn -> LinkType] /\ \A d \in Conn, m \in Node : Open(d, m)' <=> Open(d, m)
        BY <2>1 DEF PeerInv, PeerTypeOK, Open
    <2>3. life' \in [Node -> LifeType]
        BY <2>1 DEF PeerInv, PeerTypeOK
    <2> QED
        BY <2>1, <2>2, <2>3, QuietKeeps
<1>8. ASSUME NEW c \in Conn, Cut(c) PROVE PeerInv'
    <2>1. /\ link' = [link EXCEPT ![c].cut = TRUE] /\ UNCHANGED <<life, session, sup, run, acc>>
        BY <1>8 DEF Cut
    <2>2. /\ link \in [Conn -> LinkType] /\ life' \in [Node -> LifeType]
        BY <2>1 DEF PeerInv, PeerTypeOK
    <2>3. link' \in [Conn -> LinkType] /\ \A d \in Conn : link'[d].end = link[d].end
        BY <2>1, <2>2 DEF LinkType
    <2>4. \A d \in Conn, m \in Node : Open(d, m)' <=> Open(d, m)
        BY <2>3 DEF Open
    <2> QED
        BY <2>1, <2>2, <2>3, <2>4, QuietKeeps
<1> QED
    BY <1>1, <1>2, <1>3, <1>4, <1>5, <1>6, <1>7, <1>8 DEF Next, Lifecycle

LEMMA PeerInitInv == Init => PeerInv
<1> SUFFICES ASSUME Init PROVE PeerInv
    OBVIOUS
<1>1. /\ At("top", None) \in SupType /\ At("top", None).pc = "top"
    BY DEF At, SupType, Resting
<1>2. NoLink \in LinkType /\ \A m \in Node : NoLink.end[m] = "none"
    BY DEF NoLink, LinkType, EndType
<1>3. /\ life \in [Node -> LifeType] /\ session \in [Node -> Conn \cup {None}]
      /\ run \in [Node -> {"none", "running", "ended"}]
      /\ \A n \in Node : life[n] = "open" /\ session[n] = None /\ run[n] = "none"
    BY DEF Init, LifeType
<1>4. /\ sup \in [Node -> SupType] /\ \A n \in Node : sup[n].pc = "top"
    BY <1>1 DEF Init
<1>5. /\ acc \in [Conn -> Handling \cup {"none", "redial"}] /\ \A c \in Conn : acc[c] = "none"
    BY DEF Init
<1>6. link \in [Conn -> LinkType] /\ \A d \in Conn, m \in Node : ~Open(d, m)
    BY <1>2 DEF Init, Open
<1>7. PeerTypeOK /\ Placed /\ Down
    BY <1>3, <1>4, <1>5, <1>6 DEF PeerTypeOK, Placed, Down
<1>8. EndsOwned /\ LetGo
    BY <1>3, <1>6, Ends DEF EndsOwned, LetGo
<1> QED
    BY <1>7, <1>8 DEF PeerInv

LEMMA PeerAlways == Spec => []PeerInv
BY PeerInitInv, PeerNextKeeps, PTL DEF Spec

\* No goroutine of a node that has closed is left to use its store: Close
\* waits for the supervisor, the adopted connection and every handler that was
\* started, and none is started after (goTracked, onAccept, Node.Close).
THEOREM NothingAfterCloseAlways == Spec => []NothingAfterClose
<1>1. PeerInv => NothingAfterClose
    BY DEF PeerInv, Down, NothingAfterClose
<1> QED
    BY <1>1, PeerAlways, PTL

-----------------------------------------------------------------------------
(* What a node reports. *)

\* A loss counted while a connection is adopted is the one of the attempt the
\* adoption overtook: the supervisor starts no other before it is released.
LossesReset ==
    \A n \in Node : session[n] # None =>
        \/ losses[n] = 0
        \/ losses[n] = 1 /\ sup[n].pc \notin Attempting \cup {"noteLoss"}

Notes == NotesTypeOK /\ StatusTruthful /\ LossesReset

\* The supervisor moves on and reports nothing; an attempt begins only where
\* no connection is adopted.
LEMMA SilentKeeps ==
    ASSUME Notes, PeerTypeOK, NEW n \in Node, NEW s, sup' = [sup EXCEPT ![n] = s],
           session[n] # None /\ s.pc \in Attempting \cup {"noteLoss"} => sup[n].pc \in Attempting,
           UNCHANGED <<removed, age, status, losses, session>>
    PROVE  Notes'
<1>1. sup'[n] = s /\ \A m \in Node \ {n} : sup'[m] = sup[m]
    BY DEF PeerTypeOK
<1>2. NotesTypeOK' /\ StatusTruthful'
    BY DEF Notes, NotesTypeOK, StatusTruthful
<1>3. LossesReset'
    BY <1>1 DEF Notes, LossesReset
<1> QED
    BY <1>2, <1>3 DEF Notes

LEMMA SilentSteps ==
    ASSUME Notes, PeerTypeOK, NEW n \in Node,
           \/ dialAttempt(n) \/ Dial(n) \/ DialFails(n) \/ Superseded(n) \/ Supervise(n)
           \/ ConnectionEnded(n) \/ ReadFinished(n) \/ InitiateFails(n) \/ startConfiguredPeers(n)
    PROVE  Notes'
<1>1. UNCHANGED <<removed, age, status, losses, session>>
    BY DEF dialAttempt, Dial, DialFails, Superseded, Supervise, ConnectionEnded, ReadFinished,
           InitiateFails, startConfiguredPeers
<1>2. \E pc, c : /\ sup' = [sup EXCEPT ![n] = At(pc, c)]
                 /\ session[n] # None /\ pc \in Attempting \cup {"noteLoss"} => sup[n].pc \in Attempting
    <2>1. CASE dialAttempt(n)
        <3>1. \/ sup' = [sup EXCEPT ![n] = At("stopped", None)]
              \/ sup' = [sup EXCEPT ![n] = At("parked", session[n])]
              \/ sup' = [sup EXCEPT ![n] = At("connecting", None)] /\ session[n] = None
            BY <2>1 DEF dialAttempt
        <3> QED
            BY <3>1 DEF Attempting
    <2>2. CASE Dial(n)
        BY <2>2 DEF Dial, Attempting
    <2>3. CASE \/ DialFails(n) \/ Superseded(n) \/ Supervise(n) \/ ConnectionEnded(n)
               \/ InitiateFails(n) \/ startConfiguredPeers(n)
        <3>1. \E pc \in {"failed", "top", "noteFailure", "pause", "stopped"} :
                 sup' = [sup EXCEPT ![n] = At(pc, None)]
            BY <2>3 DEF DialFails, Superseded, Supervise, ConnectionEnded, InitiateFails,
                        startConfiguredPeers
        <3> QED
            BY <3>1 DEF Attempting
    <2>4. CASE ReadFinished(n)
        BY <2>4 DEF ReadFinished, Attempting
    <2> QED
        BY <2>1, <2>2, <2>3, <2>4
<1>3. PICK pc, c : /\ sup' = [sup EXCEPT ![n] = At(pc, c)]
                   /\ session[n] # None /\ pc \in Attempting \cup {"noteLoss"} => sup[n].pc \in Attempting
    BY <1>2
<1>4. At(pc, c).pc = pc
    BY AtParts
<1> QED
    BY <1>1, <1>3, <1>4, SilentKeeps

\* A report of a dial, which a connection adopted meanwhile makes void.
LEMMA ReportKeeps ==
    ASSUME WarnAfter > 1, Notes, PeerTypeOK, NEW n \in Node,
           setState(n) \/ noteDialFailure(n) \/ noteDedupLoss(n)
    PROVE  Notes'
<1>1. UNCHANGED <<removed, age, session>>
    BY DEF setState, noteDialFailure, noteDedupLoss
<1>2. status \in [Node -> StatusType] /\ losses \in [Node -> Nat]
    BY DEF Notes, NotesTypeOK
<1>3. \E pc : sup' = [sup EXCEPT ![n] = At(pc, None)] /\ pc = (IF setState(n) THEN "dialing" ELSE "pause")
    BY DEF setState, noteDialFailure, noteDedupLoss
<1>4. /\ \A m \in Node \ {n} : sup'[m] = sup[m]
      /\ sup'[n].pc = (IF setState(n) THEN "dialing" ELSE "pause")
    BY <1>3, AtParts DEF PeerTypeOK
<1>5. CASE setState(n)
    <2>1. /\ status' = [status EXCEPT ![n].state = IF session[n] = None THEN "connecting" ELSE @]
          /\ losses' = losses /\ sup[n].pc = "connecting"
        BY <1>5 DEF setState
    <2>2. /\ status' \in [Node -> StatusType] /\ \A m \in Node \ {n} : status'[m] = status[m]
          /\ status'[n].err = status[n].err
          /\ status'[n].state = IF session[n] = None THEN "connecting" ELSE status[n].state
        BY <1>2, <2>1 DEF StatusType
    <2>3. NotesTypeOK' /\ StatusTruthful'
        BY <1>1, <2>1, <2>2 DEF Notes, NotesTypeOK, StatusTruthful
    <2>4. LossesReset'
        BY <1>1, <1>4, <2>1 DEF Notes, LossesReset, Attempting
    <2> QED
        BY <2>3, <2>4 DEF Notes
<1>6. CASE noteDialFailure(n)
    <2>1. /\ status' = [status EXCEPT ![n] = IF session[n] = None
                                             THEN Status("backing_off", "dial") ELSE @]
          /\ losses' = losses /\ sup[n].pc = "noteFailure"
        BY <1>6 DEF noteDialFailure
    <2>2. Status("backing_off", "dial") \in StatusType /\ Status("backing_off", "dial").state # "connected"
        BY DEF Status, StatusType
    <2>3. /\ status' \in [Node -> StatusType] /\ \A m \in Node \ {n} : status'[m] = status[m]
          /\ status'[n] = IF session[n] = None THEN Status("backing_off", "dial") ELSE status[n]
        BY <1>2, <2>1, <2>2
    <2>4. NotesTypeOK' /\ StatusTruthful'
        BY <1>1, <2>1, <2>2, <2>3 DEF Notes, NotesTypeOK, StatusTruthful
    <2>5. ~setState(n)
        BY <2>1 DEF setState
    <2>6. LossesReset'
        BY <1>1, <1>4, <2>1, <2>5 DEF Notes, LossesReset, Attempting
    <2> QED
        BY <2>4, <2>6 DEF Notes
<1>7. CASE noteDedupLoss(n)
    <2> DEFINE l == IF losses[n] < WarnAfter THEN losses[n] + 1 ELSE losses[n]
    <2>1. /\ sup[n].pc = "noteLoss" /\ losses' = [losses EXCEPT ![n] = l]
          /\ status' = [status EXCEPT ![n].err = IF l = WarnAfter THEN "dedup" ELSE @]
        BY <1>7 DEF noteDedupLoss
    <2>2. l \in Nat /\ (session[n] # None => l = 1 /\ l # WarnAfter)
        BY <1>2, <2>1, PeerConnAssumption DEF Notes, LossesReset
    <2> HIDE DEF l
    <2>3. /\ status' \in [Node -> StatusType] /\ \A m \in Node \ {n} : status'[m] = status[m]
          /\ status'[n].state = status[n].state
          /\ status'[n].err = IF l = WarnAfter THEN "dedup" ELSE status[n].err
        BY <1>2, <2>1 DEF StatusType
    <2>4. /\ losses' \in [Node -> Nat] /\ \A m \in Node \ {n} : losses'[m] = losses[m]
          /\ losses'[n] = l
        BY <1>2, <2>1, <2>2
    <2>5. NotesTypeOK' /\ StatusTruthful'
        BY <1>1, <2>2, <2>3, <2>4 DEF Notes, NotesTypeOK, StatusTruthful
    <2>6. ~setState(n)
        BY <2>1 DEF setState
    <2>7. LossesReset'
        BY <1>1, <1>4, <2>2, <2>4, <2>6 DEF Notes, LossesReset, Attempting
    <2> QED
        BY <2>5, <2>7 DEF Notes
<1> QED
    BY <1>5, <1>6, <1>7

\* A connection is adopted, or let go of: the report changes with it.
LEMMA SessionKeeps ==
    ASSUME Notes, PeerTypeOK, NEW n \in Node, NEW x, NEW a \in {"fresh", "old"},
           NEW st \in StatusType, NEW l \in Nat,
           session' = [session EXCEPT ![n] = x], age' = [age EXCEPT ![n] = a],
           status' = [status EXCEPT ![n] = st], losses' = [losses EXCEPT ![n] = l],
           \/ x = None /\ st.state # "connected"
           \/ x # None /\ st.state = "connected" /\ st.err = "" /\ l = 0,
           \A m \in Node \ {n} : sup'[m] = sup[m], removed' = removed
    PROVE  Notes'
<1>1. /\ age \in [Node -> {"fresh", "old"}] /\ status \in [Node -> StatusType]
      /\ losses \in [Node -> Nat]
    BY DEF Notes, NotesTypeOK
<1>2. /\ session'[n] = x /\ status'[n] = st /\ losses'[n] = l
      /\ \A m \in Node \ {n} : /\ session'[m] = session[m] /\ status'[m] = status[m]
                               /\ losses'[m] = losses[m]
    BY <1>1 DEF PeerTypeOK
<1>3. NotesTypeOK'
    BY <1>1 DEF Notes, NotesTypeOK
<1>4. StatusTruthful'
    BY <1>2 DEF Notes, StatusTruthful
<1>5. LossesReset'
    <2>1. session'[n] # None => losses'[n] = 0
        BY <1>2
    <2>2. \A m \in Node \ {n} : /\ session'[m] = session[m] /\ losses'[m] = losses[m]
                               /\ sup'[m] = sup[m]
        BY <1>2
    <2>3. ASSUME NEW m \in Node, session'[m] # None
          PROVE  \/ losses'[m] = 0
                 \/ losses'[m] = 1 /\ sup'[m].pc \notin Attempting \cup {"noteLoss"}
        <3>1. CASE m = n
            BY <2>1, <2>3, <3>1
        <3>2. CASE m # n
            <4>1. session[m] # None /\ losses'[m] = losses[m] /\ sup'[m] = sup[m]
                BY <2>2, <2>3, <3>2
            <4> QED
                BY <4>1 DEF Notes, LossesReset
        <3> QED
            BY <3>1, <3>2
    <2> QED
        BY <2>3 DEF LossesReset
<1> QED
    BY <1>3, <1>4, <1>5 DEF Notes

LEMMA SessionSteps ==
    ASSUME Notes, PeerInv, NEW n \in Node
    PROVE  /\ OfferDialed(n) \/ Released(n) \/ Restart(n) \/ Crash(n) => Notes'
           /\ \A c \in Conn : Acceptor(c) = n /\ OfferAccepted(c) => Notes'
<1>1. /\ age \in [Node -> {"fresh", "old"}] /\ status \in [Node -> StatusType]
      /\ losses \in [Node -> Nat] /\ PeerTypeOK
    BY DEF Notes, NotesTypeOK, PeerInv
<1>2. ASSUME NEW c \in Conn, Adopted(n, c), removed' = removed, \A m \in Node \ {n} : sup'[m] = sup[m]
      PROVE  Notes'
    <2>1. Status("connected", "") \in StatusType /\ Status("connected", "").state = "connected"
          /\ Status("connected", "").err = ""
        BY DEF Status, StatusType
    <2>2. c # None
        BY Ends
    <2>3. /\ session' = [session EXCEPT ![n] = c] /\ age' = [age EXCEPT ![n] = "fresh"]
          /\ status' = [status EXCEPT ![n] = Status("connected", "")]
          /\ losses' = [losses EXCEPT ![n] = 0]
        BY <1>2 DEF Adopted
    <2> QED
        BY <1>1, <1>2, <2>1, <2>2, <2>3, SessionKeeps
<1>3. CASE OfferDialed(n)
    <2> PICK c \in Conn : sup[n].conn = c
        BY <1>3 DEF OfferDialed, PeerInv, Placed
    <2>1. removed' = removed
        BY <1>3 DEF OfferDialed
    <2>2. CASE Adopts(n, TRUE)
        <3>1. Adopted(n, c) /\ sup' = [sup EXCEPT ![n] = At("adopted", c)]
            BY <1>3, <2>2 DEF OfferDialed
        <3>2. \A m \in Node \ {n} : sup'[m] = sup[m]
            BY <1>1, <3>1 DEF PeerTypeOK
        <3> QED
            BY <1>2, <2>1, <3>1, <3>2
    <2>3. CASE ~Adopts(n, TRUE)
        <3>1. /\ UNCHANGED <<removed, age, status, losses, session>> /\ sup[n].pc = "offer"
              /\ \E pc \in {"pause", "noteLoss"} : sup' = [sup EXCEPT ![n] = At(pc, None)]
            BY <1>3, <2>3 DEF OfferDialed
        <3>2. sup[n].pc \in Attempting
            BY <3>1 DEF Attempting
        <3> QED
            BY <1>1, <3>1, <3>2, SilentKeeps
    <2> QED
        BY <2>2, <2>3
<1>4. CASE Released(n)
    <2> DEFINE st == [status[n] EXCEPT !.state = IF @ = "connected" THEN "disconnected" ELSE @]
    <2>1. status[n] \in StatusType
        BY <1>1
    <2>2. st \in StatusType /\ st.state # "connected"
        BY <2>1 DEF StatusType
    <2>3. /\ session' = [session EXCEPT ![n] = None] /\ age' = [age EXCEPT ![n] = "fresh"]
          /\ status' = [status EXCEPT ![n] = st] /\ losses' = losses /\ sup' = sup
          /\ removed' = removed
        BY <1>4 DEF Released
    <2> HIDE DEF st
    <2>4. losses' = [losses EXCEPT ![n] = losses[n]] /\ losses[n] \in Nat
        BY <1>1, <2>3
    <2> QED
        BY <1>1, <2>2, <2>3, <2>4, SessionKeeps
<1>5. Status("disconnected", "") \in StatusType /\ Status("disconnected", "").state # "connected"
    BY DEF Status, StatusType
<1>6. CASE Restart(n)
    <2>1. /\ session' = [session EXCEPT ![n] = None] /\ age' = [age EXCEPT ![n] = "fresh"]
          /\ status' = [status EXCEPT ![n] = Status("disconnected", "")]
          /\ losses' = [losses EXCEPT ![n] = 0] /\ sup' = sup /\ removed' = removed
        BY <1>6 DEF Restart
    <2> QED
        BY <1>1, <1>5, <2>1, SessionKeeps
<1>7. CASE Crash(n)
    <2>1. /\ session' = [session EXCEPT ![n] = None] /\ age' = age
          /\ status' = [status EXCEPT ![n] = Status("disconnected", "")]
          /\ losses' = losses /\ sup' = [sup EXCEPT ![n] = At("stopped", None)] /\ removed' = removed
        BY <1>7 DEF Crash
    <2>2. /\ losses' = [losses EXCEPT ![n] = losses[n]] /\ losses[n] \in Nat
          /\ age' = [age EXCEPT ![n] = age[n]] /\ age[n] \in {"fresh", "old"}
          /\ \A m \in Node \ {n} : sup'[m] = sup[m]
        BY <1>1, <2>1 DEF PeerTypeOK
    <2> QED
        BY <1>1, <1>5, <2>1, <2>2, SessionKeeps
<1>8. ASSUME NEW c \in Conn, Acceptor(c) = n, OfferAccepted(c) PROVE Notes'
    <2>1. removed' = removed /\ sup' = sup
        BY <1>8 DEF OfferAccepted
    <2>2. CASE Adopts(n, FALSE)
        BY <1>2, <1>8, <2>1, <2>2 DEF OfferAccepted
    <2>3. CASE ~Adopts(n, FALSE)
        <3>1. UNCHANGED <<session, age, status, losses>>
            BY <1>8, <2>3 DEF OfferAccepted
        <3> QED
            BY <2>1, <3>1 DEF Notes, NotesTypeOK, StatusTruthful, LossesReset
    <2> QED
        BY <2>2, <2>3
<1> QED
    BY <1>3, <1>4, <1>6, <1>7, <1>8

LEMMA NotesNext == ASSUME WarnAfter > 1, Notes, PeerInv, [Next]_vars PROVE Notes'
<1>1. PeerTypeOK
    BY DEF PeerInv
<1>2. ASSUME removed' \in [Node -> BOOLEAN], age' \in [Node -> {"fresh", "old"}],
             UNCHANGED <<session, status, losses, sup>>
      PROVE  Notes'
    BY <1>2 DEF Notes, NotesTypeOK, StatusTruthful, LossesReset
<1>3. removed \in [Node -> BOOLEAN] /\ age \in [Node -> {"fresh", "old"}]
    BY DEF Notes, NotesTypeOK
<1>4. ASSUME NEW n \in Node, Supervisor(n) PROVE Notes'
    <2>1. CASE ReadHelloAuth(n)
        BY <1>2, <1>3, <2>1 DEF ReadHelloAuth
    <2> QED
        BY <1>1, <1>4, <2>1, SilentSteps, ReportKeeps, SessionSteps DEF Supervisor
<1>5. ASSUME NEW c \in Conn, handleAccept(c) PROVE Notes'
    <2>1. CASE OfferAccepted(c)
        BY <2>1, SessionSteps, Ends
    <2>2. CASE ~OfferAccepted(c)
        <3>1. UNCHANGED <<removed, age, session, status, losses, sup>>
            BY <1>5, <2>2 DEF handleAccept, onAccept, ReadHello, ReadAuth, AcceptFails, lookupPeer,
                              notePeerRedialed
        <3> QED
            BY <1>2, <1>3, <3>1
    <2> QED
        BY <2>1, <2>2
<1>6. ASSUME NEW n \in Node, startConfiguredPeers(n) PROVE Notes'
    BY <1>1, <1>6, SilentSteps
<1>7. ASSUME NEW n \in Node, Released(n) \/ Restart(n) \/ Crash(n) PROVE Notes'
    BY <1>7, SessionSteps
<1>8. ASSUME NEW n \in Node, Disconnect(n) \/ Close(n) \/ Closed(n) \/ Cancel(n) PROVE Notes'
    BY <1>2, <1>3, <1>8 DEF Disconnect, Close, Closed, Cancel
<1>9. ASSUME NEW n \in Node, Age(n) \/ RemovePeer(n) PROVE Notes'
    <2>1. UNCHANGED <<session, status, losses, sup>>
        BY <1>9 DEF Age, RemovePeer
    <2>2. removed' \in [Node -> BOOLEAN] /\ age' \in [Node -> {"fresh", "old"}]
        BY <1>3, <1>9 DEF Age, RemovePeer
    <2> QED
        BY <1>2, <2>1, <2>2
<1>10. ASSUME NEW c \in Conn, Cut(c) PROVE Notes'
    BY <1>2, <1>3, <1>10 DEF Cut
<1>11. CASE UNCHANGED vars
    BY <1>2, <1>3, <1>11 DEF vars
<1> QED
    BY <1>4, <1>5, <1>6, <1>7, <1>8, <1>9, <1>10, <1>11 DEF Next, Lifecycle, runConnection

\* Whatever the dial loop was doing when a connection was adopted or let go,
\* a node reports connected exactly while it has one, and no error with it
\* (peer.go's setState, noteDialFailure, noteDedupLoss, offer).  The first loss
\* must not be warned of: dedupLossWarnAfter is more than one.
THEOREM StatusTruthfulAlways == ASSUME WarnAfter > 1 PROVE Spec => []StatusTruthful
<1>1. Init => Notes
    <2> SUFFICES ASSUME Init PROVE Notes
        OBVIOUS
    <2>1. Status("disconnected", "") \in StatusType /\ Status("disconnected", "").state # "connected"
        BY DEF Status, StatusType
    <2>2. /\ \A n \in Node : session[n] = None /\ status[n] = Status("disconnected", "")
          /\ removed \in [Node -> BOOLEAN] /\ age \in [Node -> {"fresh", "old"}]
          /\ status \in [Node -> StatusType] /\ losses \in [Node -> Nat]
        BY <2>1 DEF Init
    <2> QED
        BY <2>1, <2>2 DEF Notes, NotesTypeOK, StatusTruthful, LossesReset
<1>2. PeerInv /\ Notes /\ [Next]_vars => Notes'
    BY NotesNext
<1>3. Notes => StatusTruthful
    BY DEF Notes
<1> QED
    BY <1>1, <1>2, <1>3, PeerAlways, PTL DEF Spec

-----------------------------------------------------------------------------
(* What may end a connection that both nodes have adopted. *)

\* A session older than the grace is over a connection that the peer has
\* adopted too: it dials no more, and none of its dials is being handled.
Settled ==
    \A n \in Node, c \in Conn :
        session[n] = c /\ age[n] = "old" /\ Flows(c) =>
            /\ session[Peer(n)] = c /\ sup[Peer(n)].pc \notin Attempting
            /\ \A d \in Conn : Acceptor(d) = n => acc[d] = "none"

\* Why m closes its end of c: it has not adopted it, a late dial of the peer's
\* makes it look dead, it is broken, or m is stopping.
GivenUp(c, m) ==
    \/ session[m] # c
    \/ age[m] = "old" /\ \E d \in Conn : Acceptor(d) = m /\ acc[d] # "none"
    \/ Broken(c, m) \/ PeerCtxDone(m) \/ PeerCtxDone(m)'

\* A step leaves a connection as it is, cuts it, gives it up at one end, or dials it.
LinkMoved(c) ==
    \/ link'[c].cut = link[c].cut /\ link'[c].end = link[c].end
    \/ link'[c].cut = TRUE
    \/ \E m \in Node : ~Open(c, m)' /\ GivenUp(c, m)
    \/ session' = session /\ \A m \in Node : session[m] # c

LEMMA CloseMoves ==
    ASSUME PeerInv, NEW c \in Conn, NEW d \in Conn, NEW m \in Node, CloseEnd(d, m),
           d = c => GivenUp(c, m)
    PROVE  LinkMoved(c)
<1>1. PeerTypeOK
    BY DEF PeerInv
<1>2. CASE d = c
    <2>1. ~Open(c, m)'
        BY <1>1, <1>2, CloseEffect
    <2> QED
        BY <1>2, <2>1 DEF LinkMoved
<1>3. CASE d # c
    <2>1. link'[c] = link[c]
        BY <1>1, <1>3, CloseEffect
    <2> QED
        BY <2>1 DEF LinkMoved
<1> QED
    BY <1>2, <1>3

LEMMA FrameMoves ==
    ASSUME PeerInv, NEW c \in Conn, NEW d \in Conn, NEW f,
           link' = [link EXCEPT ![d].msg = f]
    PROVE  LinkMoved(c)
<1>1. link \in [Conn -> LinkType]
    BY DEF PeerInv, PeerTypeOK
<1>2. link'[c].cut = link[c].cut /\ link'[c].end = link[c].end
    BY <1>1 DEF LinkType
<1> QED
    BY <1>2 DEF LinkMoved

LEMMA DialMoves == ASSUME PeerInv, NEW c \in Conn, NEW n \in Node, Supervisor(n) PROVE LinkMoved(c)
<1>1. CASE UNCHANGED link
    BY <1>1 DEF LinkMoved
<1>2. CASE Dial(n)
    <2> DEFINE d == CHOOSE d \in Free(n) : TRUE
    <2>1. d \in Free(n) /\ session' = session
        BY <1>2 DEF Dial
    <2>2. \E l : link' = [link EXCEPT ![d] = l]
        BY <1>2 DEF Dial
    <2>3. d \in Conn /\ \A m \in Node : session[m] # d
        BY <2>1 DEF Free, Conn
    <2> HIDE DEF d
    <2>4. CASE d = c
        BY <2>1, <2>3, <2>4 DEF LinkMoved
    <2>5. CASE d # c
        <3>1. link'[c] = link[c]
            BY <2>2, <2>5 DEF PeerInv, PeerTypeOK
        <3> QED
            BY <3>1 DEF LinkMoved
    <2> QED
        BY <2>4, <2>5
<1>3. ASSUME sup[n].pc \in {"shake", "offer"}
      PROVE  sup[n].conn \in Conn /\ session[n] # sup[n].conn
    BY <1>3 DEF PeerInv, Placed
<1>4. CASE ReadHelloAuth(n) \/ ReadFinished(n)
    <2>1. sup[n].conn \in Conn /\ \E f : link' = [link EXCEPT ![sup[n].conn].msg = f]
        BY <1>3, <1>4 DEF ReadHelloAuth, ReadFinished
    <2> QED
        BY <2>1, FrameMoves
<1>5. CASE InitiateFails(n) \/ OfferDialed(n)
    <2>1. sup[n].conn \in Conn /\ session[n] # sup[n].conn
        BY <1>3, <1>5 DEF InitiateFails, OfferDialed
    <2>2. UNCHANGED link \/ CloseEnd(sup[n].conn, n)
        BY <1>5 DEF InitiateFails, OfferDialed
    <2>3. CASE CloseEnd(sup[n].conn, n)
        BY <2>1, <2>3, CloseMoves DEF GivenUp
    <2> QED
        BY <1>1, <2>2, <2>3
<1>6. CASE \/ dialAttempt(n) \/ setState(n) \/ DialFails(n) \/ Superseded(n) \/ noteDialFailure(n)
           \/ noteDedupLoss(n) \/ Supervise(n) \/ ConnectionEnded(n)
    BY <1>1, <1>6 DEF dialAttempt, setState, DialFails, Superseded, noteDialFailure, noteDedupLoss,
                      Supervise, ConnectionEnded
<1> QED
    BY <1>2, <1>4, <1>5, <1>6 DEF Supervisor

LEMMA AcceptMoves == ASSUME PeerInv, NEW c \in Conn, NEW d \in Conn, handleAccept(d) PROVE LinkMoved(c)
<1> DEFINE n == Acceptor(d)
<1>1. n \in Node /\ PeerTypeOK
    BY Ends DEF PeerInv
<1>2. acc[d] # "none"
    BY DEF handleAccept, onAccept, ReadHello, ReadAuth, AcceptFails, lookupPeer, OfferAccepted,
           notePeerRedialed
<1>3. session[n] # d
    BY <1>2 DEF PeerInv, Placed
<1> HIDE DEF n
<1>4. CASE UNCHANGED link
    BY <1>4 DEF LinkMoved
<1>5. CASE CloseEnd(d, n)
    BY <1>1, <1>3, <1>5, CloseMoves DEF GivenUp
<1>6. CASE \E f : link' = [link EXCEPT ![d].msg = f]
    BY <1>6, FrameMoves
<1>7. CASE link' = [link EXCEPT ![d] = Ended([@ EXCEPT !.msg = "Error"], n, "closed")]
    <2> DEFINE l == [link[d] EXCEPT !.msg = "Error"]
    <2>1. l \in LinkType
        BY <1>1 DEF PeerTypeOK, LinkType
    <2>2. link' = [link EXCEPT ![d] = Ended(l, n, "closed")]
        BY <1>7
    <2> HIDE DEF l
    <2>3. Ended(l, n, "closed").end[n] # "open"
        BY <1>1, <2>1, EndedEffect
    <2>4. CASE d = c
        <3>1. ~Open(c, n)'
            BY <1>1, <2>2, <2>3, <2>4 DEF Open, PeerTypeOK
        <3> QED
            BY <1>1, <1>3, <2>4, <3>1 DEF LinkMoved, GivenUp
    <2>5. CASE d # c
        <3>1. link'[c] = link[c]
            BY <1>1, <2>2, <2>5 DEF PeerTypeOK
        <3> QED
            BY <3>1 DEF LinkMoved
    <2> QED
        BY <2>4, <2>5
<1>8. CASE onAccept(d) \/ AcceptFails(d) \/ lookupPeer(d) \/ OfferAccepted(d)
    BY <1>4, <1>5, <1>8 DEF onAccept, AcceptFails, lookupPeer, OfferAccepted, n
<1>9. CASE ReadHello(d) \/ ReadAuth(d)
    BY <1>6, <1>7, <1>9 DEF ReadHello, ReadAuth, n
<1>10. CASE notePeerRedialed(d)
    <2>1. CASE session[n] # None /\ age[n] = "old" /\ CloseEnd(session[n], n)
        <3>1. session[n] \in Conn
            BY <1>1, <2>1 DEF PeerTypeOK
        <3>2. GivenUp(session[n], n)
            BY <1>2, <2>1 DEF GivenUp, n
        <3> QED
            BY <1>1, <2>1, <3>1, <3>2, CloseMoves
    <2> QED
        BY <1>4, <1>10, <2>1 DEF notePeerRedialed, n
<1> QED
    BY <1>8, <1>9, <1>10 DEF handleAccept

LEMMA LinkMoves == ASSUME PeerInv, NEW c \in Conn, [Next]_vars PROVE LinkMoved(c)
<1>1. PeerTypeOK
    BY DEF PeerInv
<1>2. ASSUME NEW n \in Node, Disconnect(n) PROVE LinkMoved(c)
    <2>1. Broken(session[n], n) \/ PeerCtxDone(n)
        BY <1>2 DEF Disconnect
    <2>2. \/ link'[c] = link[c]
          \/ link'[c] = [link[c] EXCEPT !.cut = TRUE]
          \/ c = session[n] /\ link'[c] = Ended(link[c], n, "closed")
        BY <1>2 DEF Disconnect
    <2>3. link[c] \in LinkType
        BY <1>1 DEF PeerTypeOK
    <2>4. [link[c] EXCEPT !.cut = TRUE].cut = TRUE
        BY <2>3 DEF LinkType
    <2>5. Ended(link[c], n, "closed").end[n] # "open"
        BY <2>3, EndedEffect
    <2> QED
        BY <2>1, <2>2, <2>4, <2>5 DEF LinkMoved, GivenUp, Open
<1>3. ASSUME NEW n \in Node, Closed(n) \/ Crash(n) PROVE LinkMoved(c)
    <2>1. PICK how \in {"closed", "gone"} : Gone(n, how)
        BY <1>3 DEF Closed, Crash
    <2>2. PeerCtxDone(n) \/ PeerCtxDone(n)'
        BY <1>1, <1>3 DEF Closed, Crash, PeerCtxDone, NodeCtxDone, PeerTypeOK
    <2>3. ~Open(c, n)'
        BY <1>1, <2>1, GoneEffect
    <2> QED
        BY <2>2, <2>3 DEF LinkMoved, GivenUp
<1>4. ASSUME NEW d \in Conn, Cut(d) PROVE LinkMoved(c)
    <2>1. link' = [link EXCEPT ![d].cut = TRUE]
        BY <1>4 DEF Cut
    <2>2. link'[c] = link[c] \/ link'[c].cut = TRUE
        BY <1>1, <2>1 DEF PeerTypeOK, LinkType
    <2> QED
        BY <2>2 DEF LinkMoved
<1>5. ASSUME NEW n \in Node, \/ Released(n) \/ startConfiguredPeers(n) \/ Close(n) \/ Age(n)
                             \/ Cancel(n) \/ Restart(n) \/ RemovePeer(n) \/ UNCHANGED vars
      PROVE  LinkMoved(c)
    BY <1>5 DEF LinkMoved, Released, startConfiguredPeers, Close, Age, Cancel, Restart, RemovePeer, vars
<1> QED
    BY <1>2, <1>3, <1>4, <1>5, DialMoves, AcceptMoves, PeerConnAssumption
    DEF Next, Lifecycle, runConnection

AgeTypeOK == age \in [Node -> {"fresh", "old"}]

LEMMA AgeTyped == Spec => []AgeTypeOK
<1>1. Init => AgeTypeOK
    BY DEF Init, AgeTypeOK
<1>2. AgeTypeOK /\ [Next]_vars => AgeTypeOK'
    <2> SUFFICES ASSUME AgeTypeOK, [Next]_vars PROVE AgeTypeOK'
        OBVIOUS
    <2>1. \/ age' = age
          \/ \E n \in Node, a \in {"fresh", "old"} : age' = [age EXCEPT ![n] = a]
        <3>1. ASSUME NEW n \in Node, Supervisor(n)
              PROVE  age' = age \/ age' = [age EXCEPT ![n] = "fresh"]
            BY <3>1 DEF Supervisor, dialAttempt, setState, Dial, DialFails, ReadHelloAuth,
                  ReadFinished, InitiateFails, OfferDialed, Adopted, Superseded, noteDialFailure,
                  noteDedupLoss, Supervise, ConnectionEnded
        <3>2. ASSUME NEW c \in Conn, handleAccept(c)
              PROVE  age' = age \/ age' = [age EXCEPT ![Acceptor(c)] = "fresh"]
            BY <3>2 DEF handleAccept, onAccept, ReadHello, ReadAuth, AcceptFails, lookupPeer,
                  OfferAccepted, Adopted, notePeerRedialed
        <3>3. ASSUME NEW n \in Node, \/ runConnection(n) \/ Lifecycle(n) \/ Age(n) \/ Cancel(n)
                                     \/ Restart(n) \/ Crash(n) \/ RemovePeer(n)
              PROVE  \E a \in {"fresh", "old"} : age' = age \/ age' = [age EXCEPT ![n] = a]
            BY <3>3 DEF runConnection, Disconnect, Released, Lifecycle, startConfiguredPeers, Close,
                  Closed, Age, Cancel, Restart, Crash, RemovePeer
        <3>4. CASE (\E c \in Conn : Cut(c)) \/ UNCHANGED vars
            BY <3>4 DEF Cut, vars
        <3> QED
            BY <3>1, <3>2, <3>3, <3>4, Ends DEF Next
    <2> QED
        BY <2>1 DEF AgeTypeOK
<1> QED
    BY <1>1, <1>2, PTL DEF Spec

\* A step leaves a session as it is (perhaps older), adopts a first one, or
\* lets go of one whose end is closed or dies with the process.
SessionMoved(m) ==
    \/ session'[m] = session[m] /\ (age'[m] = age[m] \/ Age(m))
    \/ session[m] = None /\ age'[m] = "fresh"
    \/ /\ session'[m] = None
       /\ \A c \in Conn : session[m] = c =>
             \/ ~Open(c, m)
             \/ ~Open(c, m)' /\ PeerCtxDone(m)'

LEMMA SessionMoves == ASSUME PeerInv, AgeTypeOK, NEW m \in Node, [Next]_vars PROVE SessionMoved(m)
<1>1. PeerTypeOK /\ age \in [Node -> {"fresh", "old"}]
    BY DEF PeerInv, AgeTypeOK
<1>2. CASE UNCHANGED <<session, age>>
    BY <1>2 DEF SessionMoved
<1>3. ASSUME NEW n \in Node, NEW x, session' = [session EXCEPT ![n] = x],
             \E a : age' = [age EXCEPT ![n] = a], m # n
      PROVE  SessionMoved(m)
    BY <1>1, <1>3 DEF SessionMoved, PeerTypeOK
<1>4. ASSUME NEW n \in Node, NEW c \in Conn, Adopted(n, c), session[n] = None PROVE SessionMoved(m)
    <2>1. session' = [session EXCEPT ![n] = c] /\ age' = [age EXCEPT ![n] = "fresh"]
        BY <1>4 DEF Adopted
    <2>2. CASE m = n
        BY <1>1, <1>4, <2>1, <2>2 DEF SessionMoved
    <2> QED
        BY <1>3, <2>1, <2>2
<1>5. ASSUME NEW n \in Node, Supervisor(n) PROVE SessionMoved(m)
    <2>1. CASE OfferDialed(n) /\ Adopts(n, TRUE)
        <3>1. sup[n].conn \in Conn /\ Adopted(n, sup[n].conn) /\ session[n] = None
            BY <2>1 DEF OfferDialed, Adopts, PeerInv, Placed
        <3> QED
            BY <1>4, <3>1
    <2>2. CASE ~(OfferDialed(n) /\ Adopts(n, TRUE))
        <3>1. UNCHANGED <<session, age>>
            BY <1>5, <2>2 DEF Supervisor, dialAttempt, setState, Dial, DialFails, ReadHelloAuth,
                  ReadFinished, InitiateFails, OfferDialed, Superseded, noteDialFailure,
                  noteDedupLoss, Supervise, ConnectionEnded
        <3> QED
            BY <1>2, <3>1
    <2> QED
        BY <2>1, <2>2
<1>6. ASSUME NEW d \in Conn, handleAccept(d) PROVE SessionMoved(m)
    <2>1. CASE OfferAccepted(d) /\ Adopts(Acceptor(d), FALSE)
        <3>1. Acceptor(d) \in Node /\ Adopted(Acceptor(d), d) /\ session[Acceptor(d)] = None
            BY <2>1, Ends DEF OfferAccepted, Adopts
        <3> QED
            BY <1>4, <3>1
    <2>2. CASE ~(OfferAccepted(d) /\ Adopts(Acceptor(d), FALSE))
        <3>1. UNCHANGED <<session, age>>
            BY <1>6, <2>2 DEF handleAccept, onAccept, ReadHello, ReadAuth, AcceptFails, lookupPeer,
                  OfferAccepted, notePeerRedialed
        <3> QED
            BY <1>2, <3>1
    <2> QED
        BY <2>1, <2>2
<1>7. ASSUME NEW n \in Node, Released(n) \/ Restart(n) PROVE SessionMoved(m)
    <2>1. session' = [session EXCEPT ![n] = None] /\ age' = [age EXCEPT ![n] = "fresh"]
        BY <1>7 DEF Released, Restart
    <2>2. \A c \in Conn : session[n] = c => ~Open(c, n)
        BY <1>7 DEF Released, Restart, PeerInv, LetGo, Down
    <2>3. CASE m = n
        BY <1>1, <2>1, <2>2, <2>3 DEF SessionMoved, PeerTypeOK
    <2> QED
        BY <1>3, <2>1, <2>3
<1>8. ASSUME NEW n \in Node, Crash(n) PROVE SessionMoved(m)
    <2>1. /\ session' = [session EXCEPT ![n] = None] /\ age' = age
          /\ life' = [life EXCEPT ![n] = "crashed"] /\ Gone(n, "gone")
        BY <1>8 DEF Crash
    <2>2. \A c \in Conn : ~Open(c, n)'
        BY <1>1, <2>1, GoneEffect
    <2>3. PeerCtxDone(n)'
        BY <1>1, <2>1 DEF PeerCtxDone, NodeCtxDone, PeerTypeOK
    <2>4. session'[n] = None /\ (m # n => session'[m] = session[m])
        BY <1>1, <2>1 DEF PeerTypeOK
    <2> QED
        BY <2>1, <2>2, <2>3, <2>4 DEF SessionMoved
<1>9. ASSUME NEW n \in Node, Age(n) PROVE SessionMoved(m)
    <2>1. session' = session /\ (m # n => age'[m] = age[m])
        BY <1>1, <1>9 DEF Age
    <2> QED
        BY <1>9, <2>1 DEF SessionMoved
<1>10. ASSUME \/ \E n \in Node : \/ Disconnect(n) \/ startConfiguredPeers(n) \/ Close(n) \/ Closed(n)
                                 \/ Cancel(n) \/ RemovePeer(n)
              \/ \E d \in Conn : Cut(d)
              \/ UNCHANGED vars
       PROVE  SessionMoved(m)
    BY <1>2, <1>10 DEF Disconnect, startConfiguredPeers, Close, Closed, Cancel, RemovePeer, Cut, vars
<1> QED
    BY <1>5, <1>6, <1>7, <1>8, <1>9, <1>10 DEF Next, Lifecycle, runConnection

\* An attempt begins only without a session, and a handler only by a dial.
LEMMA AttemptMoves ==
    ASSUME PeerInv, [Next]_vars
    PROVE  /\ \A m \in Node : sup'[m].pc \in Attempting =>
                 sup[m].pc \in Attempting \/ session[m] = None
           /\ \A d \in Conn : acc'[d] # "none" => acc[d] # "none" \/ sup[d[1]].pc \in Attempting
<1> DEFINE Begun(m) == sup'[m].pc \in Attempting => sup[m].pc \in Attempting \/ session[m] = None
           Handled(d) == acc'[d] # "none" => acc[d] # "none" \/ sup[d[1]].pc \in Attempting
<1> SUFFICES (\A m \in Node : Begun(m)) /\ (\A d \in Conn : Handled(d))
    OBVIOUS
<1>1. PeerTypeOK
    BY DEF PeerInv
<1>2. ASSUME NEW n \in Node, NEW pc, NEW x, sup' = [sup EXCEPT ![n] = At(pc, x)],
             pc \in Attempting => sup[n].pc \in Attempting \/ session[n] = None
      PROVE  \A m \in Node : Begun(m)
    <2>1. sup'[n].pc = pc /\ \A m \in Node \ {n} : sup'[m] = sup[m]
        BY <1>1, <1>2, AtParts DEF PeerTypeOK
    <2> QED
        BY <1>2, <2>1
<1>3. ASSUME acc' = acc PROVE \A d \in Conn : Handled(d)
    BY <1>3
<1>4. ASSUME sup' = sup PROVE \A m \in Node : Begun(m)
    BY <1>4
<1>5. ASSUME NEW n \in Node, Dial(n) PROVE (\A m \in Node : Begun(m)) /\ (\A d \in Conn : Handled(d))
    <2> DEFINE c == CHOOSE c \in Free(n) : TRUE
    <2>1. c \in Free(n)
        BY <1>5 DEF Dial
    <2>2. c \in Conn /\ c[1] = n
        BY <2>1 DEF Free, Conn
    <2>3. /\ acc' = [acc EXCEPT ![c] = "arrived"] /\ sup' = [sup EXCEPT ![n] = At("shake", c)]
          /\ sup[n].pc = "dialing"
        BY <1>5 DEF Dial
    <2> HIDE DEF c
    <2>4. sup[n].pc \in Attempting
        BY <2>3 DEF Attempting
    <2>5. \A d \in Conn \ {c} : acc'[d] = acc[d]
        BY <1>1, <2>3 DEF PeerTypeOK
    <2>6. \A d \in Conn : Handled(d)
        BY <2>2, <2>4, <2>5
    <2> QED
        BY <1>2, <2>3, <2>4, <2>6
<1>6. ASSUME NEW n \in Node, ReadFinished(n) \/ OfferDialed(n)
      PROVE  (\A m \in Node : Begun(m)) /\ (\A d \in Conn : Handled(d))
    <2>1. /\ acc' = acc /\ sup[n].pc \in Attempting
          /\ \E pc, x : sup' = [sup EXCEPT ![n] = At(pc, x)]
        BY <1>6 DEF ReadFinished, OfferDialed, Attempting
    <2> QED
        BY <1>2, <1>3, <2>1
<1>7. ASSUME NEW n \in Node, dialAttempt(n) \/ setState(n)
      PROVE  (\A m \in Node : Begun(m)) /\ (\A d \in Conn : Handled(d))
    <2>1. acc' = acc
        BY <1>7 DEF dialAttempt, setState
    <2>2. CASE dialAttempt(n)
        <3>1. \/ sup' = [sup EXCEPT ![n] = At("stopped", None)]
              \/ sup' = [sup EXCEPT ![n] = At("parked", session[n])]
              \/ sup' = [sup EXCEPT ![n] = At("connecting", None)] /\ session[n] = None
            BY <2>2 DEF dialAttempt
        <3>2. "stopped" \notin Attempting /\ "parked" \notin Attempting
            BY DEF Attempting
        <3> QED
            BY <1>2, <1>3, <2>1, <3>1, <3>2
    <2>3. CASE setState(n)
        <3>1. sup' = [sup EXCEPT ![n] = At("dialing", None)] /\ sup[n].pc \in Attempting
            BY <2>3 DEF setState, Attempting
        <3> QED
            BY <1>2, <1>3, <2>1, <3>1
    <2> QED
        BY <1>7, <2>2, <2>3
<1>8. ASSUME NEW n \in Node,
             \/ DialFails(n) \/ InitiateFails(n) \/ Superseded(n) \/ noteDialFailure(n)
             \/ noteDedupLoss(n) \/ Supervise(n) \/ ConnectionEnded(n) \/ startConfiguredPeers(n)
      PROVE  (\A m \in Node : Begun(m)) /\ (\A d \in Conn : Handled(d))
    <2>1. /\ acc' = acc
          /\ \E pc \in {"failed", "noteFailure", "pause", "top", "stopped"} :
                sup' = [sup EXCEPT ![n] = At(pc, None)]
        BY <1>8 DEF DialFails, InitiateFails, Superseded, noteDialFailure, noteDedupLoss, Supervise,
                    ConnectionEnded, startConfiguredPeers
    <2>2. \A pc \in {"failed", "noteFailure", "pause", "top", "stopped"} : pc \notin Attempting
        BY DEF Attempting
    <2> QED
        BY <1>2, <1>3, <2>1, <2>2
<1>9. ASSUME NEW c \in Conn, handleAccept(c)
      PROVE  (\A m \in Node : Begun(m)) /\ (\A d \in Conn : Handled(d))
    <2>1. acc[c] # "none" /\ sup' = sup /\ \E v : acc' = [acc EXCEPT ![c] = v]
        BY <1>9 DEF handleAccept, onAccept, ReadHello, ReadAuth, AcceptFails, lookupPeer,
                    OfferAccepted, notePeerRedialed
    <2>2. \A d \in Conn \ {c} : acc'[d] = acc[d]
        BY <1>1, <2>1 DEF PeerTypeOK
    <2> QED
        BY <1>4, <2>1, <2>2
<1>10. ASSUME NEW n \in Node, Closed(n) \/ Crash(n)
       PROVE  (\A m \in Node : Begun(m)) /\ (\A d \in Conn : Handled(d))
    <2>1. \A d \in Conn : acc'[d] \in {"none", acc[d]}
        BY <1>10 DEF Closed, Crash
    <2>2. sup' = sup \/ sup' = [sup EXCEPT ![n] = At("stopped", None)]
        BY <1>10 DEF Closed, Crash
    <2>3. "stopped" \notin Attempting
        BY DEF Attempting
    <2> QED
        BY <1>2, <1>4, <2>1, <2>2, <2>3
<1>11. ASSUME \/ \E n \in Node : \/ ReadHelloAuth(n) \/ Disconnect(n) \/ Released(n) \/ Close(n)
                                 \/ Age(n) \/ Cancel(n) \/ Restart(n) \/ RemovePeer(n)
              \/ \E d \in Conn : Cut(d)
              \/ UNCHANGED vars
       PROVE  (\A m \in Node : Begun(m)) /\ (\A d \in Conn : Handled(d))
    <2>1. UNCHANGED <<sup, acc>>
        BY <1>11 DEF ReadHelloAuth, Disconnect, Released, Close, Age, Cancel, Restart, RemovePeer,
                     Cut, vars
    <2> QED
        BY <1>3, <1>4, <2>1
<1> HIDE DEF Begun, Handled
<1> QED
    BY <1>5, <1>6, <1>7, <1>8, <1>9, <1>10, <1>11 DEF Next, Supervisor, Lifecycle, runConnection

LEMMA SettledNext ==
    ASSUME Prompt, PeerInv, AgeTypeOK, Settled, [Next]_vars PROVE Settled'
<1> SUFFICES ASSUME NEW n \in Node, NEW c \in Conn, session'[n] = c, age'[n] = "old", Flows(c)'
             PROVE  /\ session'[Peer(n)] = c /\ sup'[Peer(n)].pc \notin Attempting
                    /\ \A d \in Conn : Acceptor(d) = n => acc'[d] = "none"
    BY DEF Settled
<1>1. Peer(n) \in Node /\ c # None /\ \A d \in Conn : Acceptor(d) = n => d[1] = Peer(n)
    BY Peers, Ends
<1>2. \A m \in Node : Open(c, m)'
    BY DEF Flows
<1>3. session[n] = c /\ (age[n] = "old" \/ Age(n))
    BY <1>1, SessionMoves DEF SessionMoved
<1>4. Flows(c)
    <2>1. ~link'[c].cut
        BY DEF Flows
    <2>2. link'[c].cut = link[c].cut /\ link'[c].end = link[c].end
        BY <1>2, <1>3, <2>1, LinkMoves DEF LinkMoved
    <2> QED
        BY <1>2, <2>1, <2>2 DEF Flows, Open
<1>5. CASE Age(n)
    <2>1. /\ UNCHANGED <<session, sup, acc>> /\ \A d \in Conn : acc[d] = "none"
          /\ sup[Peer(n)].pc \notin {"connecting", "dialing", "shake", "offer"}
        BY <1>5 DEF Age
    <2>2. acc[c] \notin Handling
        BY <2>1 DEF Handling
    <2>3. Open(c, Peer(n)) /\ (Peer(n) = c[1] \/ Peer(n) = Acceptor(c))
        BY <1>1, <1>4, Ends DEF Flows
    <2>4. session[Peer(n)] = c
        BY <2>1, <2>2, <2>3 DEF PeerInv, EndsOwned
    <2> QED
        BY <2>1, <2>4 DEF Attempting
<1>6. CASE age[n] = "old"
    <2>1. /\ session[Peer(n)] = c /\ sup[Peer(n)].pc \notin Attempting
          /\ \A d \in Conn : Acceptor(d) = n => acc[d] = "none"
        BY <1>3, <1>4, <1>6 DEF Settled
    <2>2. session'[Peer(n)] = c
        <3>1. Open(c, Peer(n)) /\ Open(c, Peer(n))'
            BY <1>1, <1>2, <1>4 DEF Flows
        <3>2. SessionMoved(Peer(n))
            BY <1>1, SessionMoves
        <3> QED
            BY <1>1, <2>1, <3>1, <3>2 DEF SessionMoved
    <2> QED
        BY <1>1, <2>1, <2>2, AttemptMoves
<1> QED
    BY <1>3, <1>5, <1>6

\* A connection both nodes have adopted ends only when the network breaks it
\* or one of them stops or removes the other: an offer that lost, a late dial
\* (notePeerRedialed) or a discarded client never takes it down, as long as no
\* dial outlasts staleInboundGrace.
THEOREM HealthyKeptAlways == ASSUME Prompt PROVE Spec => HealthyKept
<1>1. Init => Settled
    <2> SUFFICES ASSUME Init PROVE Settled
        OBVIOUS
    <2>1. \A n \in Node : session[n] = None
        BY DEF Init
    <2> QED
        BY <2>1, Ends DEF Settled
<1>2. PeerInv /\ AgeTypeOK /\ Settled /\ [Next]_vars => Settled'
    BY SettledNext
<1>3. ASSUME PeerInv, AgeTypeOK, Settled, [Next]_vars
      PROVE  \A c \in Conn : Healthy(c) => \/ Healthy(c)'
                                           \/ link[c].cut'
                                           \/ \E n \in Node : PeerCtxDone(n)'
    <2> SUFFICES ASSUME NEW c \in Conn, Healthy(c), ~link'[c].cut, \A n \in Node : ~PeerCtxDone(n)'
                 PROVE  Healthy(c)'
        OBVIOUS
    <2>1. /\ Flows(c) /\ c # None
          /\ \A n \in Node : session[n] = c /\ Open(c, n) /\ ~Broken(c, n) /\ ~PeerCtxDone(n)
        BY Ends, Peers DEF Healthy, Flows, Broken
    <2>2. \A n \in Node : session'[n] = c
        BY <1>3, <2>1, SessionMoves DEF SessionMoved
    <2>3. \A m \in Node : ~GivenUp(c, m)
        BY <1>3, <2>1 DEF GivenUp, Settled
    <2>4. link'[c].cut = link[c].cut /\ link'[c].end = link[c].end
        <3>1. LinkMoved(c)
            BY <1>3, LinkMoves
        <3>2. Higher \in Node
            BY PeerConnAssumption
        <3> QED
            BY <2>1, <2>3, <3>1, <3>2 DEF LinkMoved
    <2>5. Flows(c)'
        BY <2>1, <2>4 DEF Flows, Open
    <2> QED
        BY <2>2, <2>5 DEF Healthy
<1>4. PeerInv /\ AgeTypeOK /\ Settled /\ [Next]_vars =>
         [\A c \in Conn : Healthy(c) => \/ Healthy(c)'
                                        \/ link[c].cut'
                                        \/ \E n \in Node : PeerCtxDone(n)']_vars
    BY <1>3
<1> QED
    BY <1>1, <1>2, <1>4, PeerAlways, AgeTyped, PTL DEF Spec, HealthyKept

=============================================================================
