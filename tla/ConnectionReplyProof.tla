------------------------ MODULE ConnectionReplyProof ------------------------
(***************************************************************************)
(* Proofs about Connection: a reply reaches the request that it answers,   *)
(* and, where no handler spins an event loop, a client thread that sleeps  *)
(* in waitForSyncReply() is woken for whatever there is to look at.        *)
(***************************************************************************)
EXTENDS ConnectionProof

-----------------------------------------------------------------------------
(* Requests and replies under way.                                           *)
Has(s, S) == \E i \in DOMAIN s : s[i] \in S

(* A sequence with a new last element.                                       *)
LEMMA HasAppend ==
  ASSUME NEW T, NEW s \in Seq(T), NEW x \in T, NEW S, Has(Append(s, x), S)
  PROVE  Has(s, S) \/ x \in S
<1>1. PICK i \in 1 .. Len(s) + 1 : Append(s, x)[i] \in S
  BY AppendFacts DEF Has
<1>2. CASE i \in 1 .. Len(s)
  BY <1>1, <1>2, AppendFacts DEF Has
<1>3. CASE i = Len(s) + 1
  BY <1>1, <1>3, AppendFacts
<1>4. QED BY <1>1, <1>2, <1>3, AppendFacts

(* The tail has nothing the sequence has not.                                *)
LEMMA HasTail ==
  ASSUME NEW T, NEW s \in Seq(T), s # <<>>, NEW S
  PROVE  (Has(Tail(s), S) => Has(s, S)) /\ (Head(s) \in S => Has(s, S))
<1>1. /\ Head(s) = s[1] /\ DOMAIN Tail(s) = 1 .. Len(s) - 1 /\ DOMAIN s = 1 .. Len(s)
      /\ Len(s) \in Nat /\ Len(s) > 0 /\ \A i \in 1 .. Len(s) - 1 : Tail(s)[i] = s[i + 1]
  BY TailFacts
<1>2. Has(Tail(s), S) => Has(s, S)
  BY <1>1 DEF Has
<1>3. Head(s) \in S => Has(s, S)
  BY <1>1 DEF Has
<1>4. QED BY <1>2, <1>3

(* Nor has its front.                                                        *)
LEMMA HasFront ==
  ASSUME NEW T, NEW s \in Seq(T), s # <<>>, NEW S
  PROVE  (Has(Front(s), S) => Has(s, S)) /\ (s[Len(s)] \in S => Has(s, S))
<1>1. /\ DOMAIN Front(s) = 1 .. Len(s) - 1 /\ DOMAIN s = 1 .. Len(s)
      /\ Len(s) \in Nat /\ Len(s) > 0 /\ \A i \in 1 .. Len(s) - 1 : Front(s)[i] = s[i]
  BY FrontFacts
<1>2. QED BY <1>1 DEF Has

(* A concatenation has what one of the two has.                              *)
LEMMA HasConcat ==
  ASSUME NEW T, NEW s \in Seq(T), NEW t \in Seq(T), NEW S, Has(s \o t, S)
  PROVE  Has(s, S) \/ Has(t, S)
<1>1. PICK i \in 1 .. Len(s) + Len(t) : (s \o t)[i] \in S
  BY ConcatFacts DEF Has
<1>2. Len(s) \in Nat /\ Len(t) \in Nat /\ DOMAIN s = 1 .. Len(s) /\ DOMAIN t = 1 .. Len(t)
  BY ConcatFacts
<1>3. CASE i \in 1 .. Len(s)
  BY <1>1, <1>2, <1>3, ConcatFacts DEF Has
<1>4. CASE i \notin 1 .. Len(s)
  <2>1. i - Len(s) \in 1 .. Len(t) /\ Len(s) + (i - Len(s)) = i
    BY <1>1, <1>2, <1>4
  <2>2. t[i - Len(s)] \in S
    BY <1>1, <2>1, ConcatFacts
  <2>3. QED BY <1>2, <2>1, <2>2 DEF Has
<1>5. QED BY <1>3, <1>4

(* The empty sequence has nothing.                                           *)
LEMMA HasEmpty == \A S : ~Has(<<>>, S)
BY EmptyFacts DEF Has

(* Request id of an end carries serial n, and so does the reply to it.       *)
Request(id, n) == {m \in Message : m.type = "sync" /\ m.id = id /\ m.serial = n}
Reply(id, n) == {m \in Message : m.type = "reply" /\ m.id = id /\ m.serial = n}

(* End p has the request in a vector of messages, or handles it.             *)
RequestAt(p, id, n) == {x \in ConnectionAndMessage : x.conn = p /\ x.msg \in Request(id, n)}
Holding(p, id, n) ==
    {f \in Frame : \/ f.at = "handle" /\ f.conn = p /\ f.msg \in Request(id, n)
                   \/ Has(f.todo, RequestAt(p, id, n))
                   \/ Has(f.putBack, RequestAt(p, id, n))}

UnderWay(e, id, n) ==
    LET p == PeerOf[e]
    IN  \/ Has(outgoing[e], Request(id, n))
        \/ Has(wire[p], Request(id, n))
        \/ Has(incoming[p], Request(id, n))
        \/ Has(toDispatch[LoopOf[p]], RequestAt(p, id, n))
        \/ Has(stack[LoopOf[p]], Holding(p, id, n))
        \/ Has(outgoing[p], Reply(id, n))
        \/ Has(wire[e], Reply(id, n))

(* The request of e that a step sends.                                       *)
Sends(e, id, n) ==
    /\ n = serial[e] + 1
    /\ \/ SendSync(e) /\ id = syncRequestID[e] + 1
       \/ \E t \in SecondaryThreads : /\ SecondarySend(t) /\ SecondaryEnd[t] = e
                                      /\ client[e] /\ id = secondary[t].id

(* A frame with empty vectors that is no handler holds no request.           *)
LEMMA EmptyFrame ==
  ASSUME NEW f \in Frame, f.at # "handle", f.todo = <<>>, f.putBack = <<>>, NEW p, NEW id, NEW n
  PROVE  f \notin Holding(p, id, n)
BY HasEmpty DEF Holding

(* dispatchMessage() adds nothing but the message it handles.                *)
LEMMA DispatchHolds ==
  ASSUME Types, NEW k \in RunLoops, NEW d \in Ends, NEW m \in Message, NEW below \in Seq(Frame),
         dispatchMessage(k, d, m, below), NEW l \in RunLoops, NEW p, NEW id, NEW n,
         Has(stack'[l], Holding(p, id, n))
  PROVE  \/ l # k /\ Has(stack[l], Holding(p, id, n))
         \/ l = k /\ Has(below, Holding(p, id, n))
         \/ l = k /\ d = p /\ m \in Request(id, n)
<1> DEFINE f == NewFrame("handle", d, m)
<1>1. stack \in [RunLoops -> Seq(Frame)]
  BY DEF Types, LoopTypes
<1>2. f \in Frame /\ f.conn = d /\ f.msg = m /\ f.todo = <<>> /\ f.putBack = <<>>
  <2>1. f \in Frame
    BY NewFrameType
  <2>2. QED BY <2>1 DEF NewFrame
<1>3. f \in Holding(p, id, n) => d = p /\ m \in Request(id, n)
  BY <1>2, HasEmpty DEF Holding
<1>4. stack' = [stack EXCEPT ![k] = below] \/ stack' = [stack EXCEPT ![k] = Append(below, f)]
  BY DEF dispatchMessage
<1> HIDE DEF f
<1>5. CASE l # k
  BY <1>1, <1>4, <1>5
<1>6. CASE l = k
  <2>1. Has(below, Holding(p, id, n)) \/ Has(Append(below, f), Holding(p, id, n))
    BY <1>1, <1>4, <1>6
  <2>2. QED BY <1>2, <1>3, <1>6, <2>1, HasAppend
<1>7. QED BY <1>5, <1>6

(* A request or reply under way was under way before, or is sent now.        *)
LEMMA UnderWayStep ==
  ASSUME Types, OwnConnections, [Next]_vars,
         NEW e \in Ends, NEW id \in Nat, NEW n \in Nat, UnderWay(e, id, n)'
  PROVE  UnderWay(e, id, n) \/ Sends(e, id, n)
<1> USE DEF endVars, queueVars, loopVars
<1> DEFINE p == PeerOf[e]
           l == LoopOf[p]
           Q == Request(id, n)
           R == Reply(id, n)
           X == RequestAt(p, id, n)
           H == Holding(p, id, n)
           Goal == UnderWay(e, id, n) \/ Sends(e, id, n)
<1>0. /\ p \in Ends /\ l \in RunLoops /\ p # e /\ PeerOf[p] = e /\ \A d \in Ends : PeerOf[d] = p => d = e
      /\ \A d \in Ends : PeerOf[d] = e => d = p
  BY PeerAssumption, LoopAssumption
<1>t. /\ outgoing \in [Ends -> Seq(Message)] /\ wire \in [Ends -> Seq(Message)]
      /\ incoming \in [Ends -> Seq(Message)] /\ toDispatch \in [RunLoops -> Seq(ConnectionAndMessage)]
      /\ stack \in [RunLoops -> Seq(Frame)]
  BY DEF Types, QueueTypes, LoopTypes
<1>g. /\ Has(outgoing[e], Q) => Goal
      /\ Has(wire[p], Q) => Goal
      /\ Has(incoming[p], Q) => Goal
      /\ Has(toDispatch[l], X) => Goal
      /\ Has(stack[l], H) => Goal
      /\ Has(outgoing[p], R) => Goal
      /\ Has(wire[e], R) => Goal
  BY DEF UnderWay
<1>h. \/ Has(outgoing'[e], Q) \/ Has(wire'[p], Q) \/ Has(incoming'[p], Q) \/ Has(toDispatch'[l], X)
      \/ Has(stack'[l], H) \/ Has(outgoing'[p], R) \/ Has(wire'[e], R)
  BY DEF UnderWay, Has, Request, Reply, RequestAt, Holding
<1>q. \A m : (m \in Q => m.type = "sync" /\ m.id = id /\ m.serial = n /\ m \in Message)
             /\ (m \in R => m.type = "reply" /\ m.id = id /\ m.serial = n /\ m \in Message)
  BY DEF Request, Reply
<1> DEFINE OutSame == (Has(outgoing'[e], Q) => Goal) /\ (Has(outgoing'[p], R) => Goal)
           WireSame == (Has(wire'[p], Q) => Goal) /\ (Has(wire'[e], R) => Goal)
           InSame == Has(incoming'[p], Q) => Goal
           VectorSame == Has(toDispatch'[l], X) => Goal
           StackSame == Has(stack'[l], H) => Goal
<1>a. outgoing' = outgoing => OutSame
  BY <1>g
<1>b. wire' = wire => WireSame
  BY <1>g
<1>c. incoming' = incoming => InSame
  BY <1>g
<1>d. toDispatch' = toDispatch => VectorSame
  BY <1>g
<1>e. stack' = stack => StackSame
  BY <1>g
<1>z. OutSame /\ WireSame /\ InSame /\ VectorSame /\ StackSame => Goal
  BY <1>h
<1> HIDE DEF Goal, OutSame, WireSame, InSame, VectorSame, StackSame, p, l, Q, R, X, H
<1>f. ASSUME NEW d \in Ends, NEW m \in Message, sendMessage(d, m)
      PROVE  /\ Has(outgoing'[e], Q) => Goal \/ (d = e /\ m \in Q)
             /\ Has(outgoing'[p], R) => Goal \/ (d = p /\ m \in R)
  <2>1. outgoing' = [outgoing EXCEPT ![d] = Append(outgoing[d], m)]
    BY <1>f DEF sendMessage
  <2>2. CASE d = e
    <3>1. outgoing'[e] = Append(outgoing[e], m) /\ outgoing'[p] = outgoing[p]
      BY <1>0, <1>t, <2>1, <2>2
    <3>2. QED BY <1>0, <1>g, <1>t, <2>2, <3>1, HasAppend
  <2>3. CASE d = p
    <3>1. outgoing'[p] = Append(outgoing[p], m) /\ outgoing'[e] = outgoing[e]
      BY <1>0, <1>t, <2>1, <2>3
    <3>2. QED BY <1>0, <1>g, <1>t, <2>3, <3>1, HasAppend
  <2>4. CASE d # e /\ d # p
    BY <1>0, <1>g, <1>t, <2>1, <2>4
  <2>5. QED BY <2>2, <2>3, <2>4
<1>s. ASSUME NEW k \in RunLoops, NEW s, stack' = [stack EXCEPT ![k] = s], k = l => ~Has(s, H) \/ Goal
      PROVE  StackSame
  BY <1>0, <1>t, <1>g, <1>s DEF StackSame
<1>1. ASSUME NEW d \in Ends, NEW ask \in BOOLEAN, SendAsync(d, ask) PROVE Goal
  <2> DEFINE m == [type |-> "async", id |-> 0, serial |-> serial[d] + 1, flagged |-> ask /\ Flagged(d)]
  <2>1. m \in Message
    BY DEF Message, Types, CountTypes
  <2>2. m \notin Q /\ m \notin R
    BY <1>q
  <2>3. sendMessage(d, m)
    BY <1>1 DEF SendAsync
  <2>4. OutSame
    BY <1>f, <2>1, <2>2, <2>3 DEF OutSame
  <2>5. UNCHANGED <<incoming, wire, toDispatch, stack>>
    BY <1>1 DEF SendAsync
  <2>6. QED BY <2>4, <2>5, <1>b, <1>c, <1>d, <1>e, <1>z
<1>2. ASSUME NEW d \in Ends, SendSync(d) PROVE Goal
  <2> DEFINE k == LoopOf[d]
             m == [type |-> "sync", id |-> syncRequestID[d] + 1,
                   serial |-> serial[d] + 1, flagged |-> Flagged(d)]
             f == NewFrame("check", d, m)
             g == NewFrame("swap", NoEnd, NoMessage)
  <2>1. m \in Message
    BY DEF Message, Flagged, Types, CountTypes
  <2>2. m \notin R
    BY <1>q
  <2>3. m \in Q => id = syncRequestID[d] + 1 /\ n = serial[d] + 1
    BY <1>q
  <2>4. sendMessage(d, m)
    BY <1>2 DEF SendSync
  <2>5. d = e /\ m \in Q => Goal
    BY <1>2, <2>3 DEF Goal, Sends
  <2>6. OutSame
    BY <1>f, <2>1, <2>2, <2>4, <2>5 DEF OutSame
  <2>7. f \in Frame /\ g \in Frame
    BY <2>1, NewFrameType, NoMessageType
  <2>8. f \notin H /\ g \notin H
    BY <2>7, EmptyFrame DEF NewFrame, H
  <2>9. stack' = [stack EXCEPT ![k] = Append(Append(stack[k], f), g)] /\ k \in RunLoops
    BY <1>2, LoopAssumption DEF SendSync
  <2> HIDE DEF f, g
  <2>10. k = l => ~Has(Append(Append(stack[k], f), g), H) \/ Goal
    <3> SUFFICES ASSUME k = l, Has(Append(Append(stack[k], f), g), H) PROVE Goal
      OBVIOUS
    <3>1. stack[k] \in Seq(Frame) /\ Append(stack[k], f) \in Seq(Frame)
      BY <1>t, <2>7, <2>9, AppendFacts
    <3>2. Has(Append(stack[k], f), H)
      BY <2>7, <2>8, <3>1, HasAppend
    <3>3. Has(stack[k], H)
      BY <2>7, <2>8, <3>1, <3>2, HasAppend
    <3>4. QED BY <1>g, <3>3
  <2>11. StackSame
    BY <1>s, <2>9, <2>10
  <2>12. UNCHANGED <<incoming, wire, toDispatch>>
    BY <1>2 DEF SendSync
  <2>13. QED BY <2>6, <2>11, <2>12, <1>b, <1>c, <1>d, <1>z
<1>3. ASSUME NEW k \in RunLoops, ProcessExits(k) PROVE Goal
  <2>1. /\ \A d \in Ends : outgoing'[d] \in {<<>>, outgoing[d]} /\ wire'[d] \in {<<>>, wire[d]}
        /\ \A d \in Ends : incoming'[d] \in {<<>>, incoming[d]}
        /\ \A j \in RunLoops : stack'[j] \in {<<>>, stack[j]} /\ toDispatch'[j] \in {<<>>, toDispatch[j]}
    BY <1>3, <1>t DEF ProcessExits
  <2>2. OutSame
    BY <1>0, <1>g, <2>1, HasEmpty DEF OutSame
  <2>3. WireSame
    BY <1>0, <1>g, <2>1, HasEmpty DEF WireSame
  <2>4. InSame
    BY <1>0, <1>g, <2>1, HasEmpty DEF InSame
  <2>5. VectorSame
    BY <1>0, <1>g, <2>1, HasEmpty DEF VectorSame
  <2>6. StackSame
    BY <1>0, <1>g, <2>1, HasEmpty DEF StackSame
  <2>7. QED BY <2>2, <2>3, <2>4, <2>5, <2>6, <1>z
<1>4. ASSUME NEW k \in RunLoops, stack[k] # <<>>, stack' = [stack EXCEPT ![k] = Front(stack[k])]
      PROVE  StackSame
  <2>1. stack[k] \in Seq(Frame)
    BY <1>t
  <2>2. k = l => ~Has(Front(stack[k]), H) \/ Goal
    BY <1>4, <1>g, <2>1, HasFront
  <2>3. QED BY <1>s, <1>4, <2>2
<1>5. ASSUME NEW k \in RunLoops, HandlerReturns(k) PROVE Goal
  <2> DEFINE f == Top(k)
             d == f.conn
             m == f.msg
             r == [m EXCEPT !.type = "reply", !.flagged = FALSE]
  <2>1. /\ stack[k] # <<>> /\ f \in Frame /\ d \in Ends /\ LoopOf[d] = k /\ f.at = "handle"
        /\ f = stack[k][Len(stack[k])] /\ stack[k] \in Seq(Frame)
    BY <1>5, <1>t, OwnTop DEF HandlerReturns, At, Top
  <2>2. m \in Message
    BY <2>1 DEF Frame
  <2>3. r \in Message /\ r.type = "reply" /\ r.id = m.id /\ r.serial = m.serial
    BY <2>2 DEF Message
  <2>4. StackSame
    BY <1>4, <1>5, <2>1 DEF HandlerReturns
  <2>5. OutSame
    <3>1. CASE m.type = "sync" /\ client[d]
      <4>1. sendMessage(d, r)
        BY <1>5, <3>1 DEF HandlerReturns
      <4>2. r \notin Q
        BY <1>q, <2>3
      <4>3. d = p /\ r \in R => Goal
        <5> SUFFICES ASSUME d = p, r \in R PROVE Goal
          OBVIOUS
        <5>1. m \in Request(id, n)
          BY <1>q, <2>2, <2>3, <3>1 DEF Request
        <5>2. f \in H
          BY <2>1, <5>1 DEF H, Holding
        <5>3. Has(stack[k], H)
          BY <2>1, <5>2, HasFront
        <5>4. k = l
          BY <2>1 DEF l
        <5>5. QED BY <1>g, <5>3, <5>4
      <4>4. QED BY <1>f, <2>1, <2>3, <4>1, <4>2, <4>3 DEF OutSame
    <3>2. CASE ~(m.type = "sync" /\ client[d])
      BY <1>5, <1>a, <3>2 DEF HandlerReturns
    <3>3. QED BY <3>1, <3>2
  <2>6. UNCHANGED <<incoming, wire, toDispatch>>
    BY <1>5 DEF HandlerReturns
  <2>7. QED BY <2>4, <2>5, <2>6, <1>b, <1>c, <1>d, <1>z
<1>6. ASSUME NEW k \in RunLoops, ExitNestedLoop(k) PROVE Goal
  <2>1. stack[k] # <<>> /\ stack' = [stack EXCEPT ![k] = Front(stack[k])]
    BY <1>6 DEF ExitNestedLoop, At
  <2>2. UNCHANGED <<outgoing, incoming, wire, toDispatch>>
    BY <1>6 DEF ExitNestedLoop
  <2>3. QED BY <2>1, <2>2, <1>4, <1>a, <1>b, <1>c, <1>d, <1>z
<1>7. ASSUME NEW k \in RunLoops, NEW f \in Frame, f \notin H, stack' = [stack EXCEPT ![k] = Append(stack[k], f)]
      PROVE  StackSame
  <2>1. stack[k] \in Seq(Frame)
    BY <1>t
  <2>2. k = l => ~Has(Append(stack[k], f), H) \/ Goal
    BY <1>7, <1>g, <2>1, HasAppend
  <2>3. QED BY <1>s, <1>7, <2>2
<1>8. ASSUME NEW k \in RunLoops, EnterNestedLoop(k) PROVE Goal
  <2> DEFINE f == NewFrame("nested", NoEnd, NoMessage)
  <2>1. f \in Frame
    BY NewFrameType, NoMessageType
  <2>2. f \notin H
    BY <2>1, EmptyFrame DEF NewFrame, H
  <2>3. stack' = [stack EXCEPT ![k] = Append(stack[k], f)] /\ UNCHANGED <<outgoing, incoming, wire, toDispatch>>
    BY <1>8 DEF EnterNestedLoop
  <2> HIDE DEF f
  <2>4. QED BY <2>1, <2>2, <2>3, <1>7, <1>a, <1>b, <1>c, <1>d, <1>z
<1>9. ASSUME NEW k \in RunLoops, dispatchMessagesForConnection(k) PROVE Goal
  <2> DEFINE d == Head(functions[k]).conn
             f == NewFrame("swap", d, NoMessage)
  <2>1. Head(functions[k]) \in Function
    BY <1>9, TailFacts DEF dispatchMessagesForConnection, NextFunction, Types, LoopTypes
  <2>2. d \in Ends
    BY <2>1 DEF Function
  <2>3. f \in Frame
    BY <2>2, NewFrameType, NoMessageType
  <2>4. f \notin H
    BY <2>3, EmptyFrame DEF NewFrame, H
  <2>5. stack' = [stack EXCEPT ![k] = Append(stack[k], f)] /\ UNCHANGED <<outgoing, incoming, wire, toDispatch>>
    BY <1>9 DEF dispatchMessagesForConnection
  <2> HIDE DEF f
  <2>6. QED BY <2>3, <2>4, <2>5, <1>7, <1>a, <1>b, <1>c, <1>d, <1>z
<1>10. ASSUME NEW k \in RunLoops, dispatchOneMessage(k) PROVE Goal
  <2> DEFINE d == Head(functions[k]).conn
  <2>1. Head(functions[k]) \in OwnFunction(k)
    BY <1>10, TailFacts DEF dispatchOneMessage, NextFunction, OwnConnections
  <2>2. d \in Ends /\ LoopOf[d] = k
    BY <2>1 DEF OwnFunction, Function
  <2>3. UNCHANGED <<outgoing, wire, toDispatch>>
    BY <1>10 DEF dispatchOneMessage
  <2>4. CASE incoming[d] = <<>>
    <3>1. UNCHANGED <<incoming, stack>>
      BY <1>10, <2>4 DEF dispatchOneMessage
    <3>2. QED BY <2>3, <3>1, <1>a, <1>b, <1>c, <1>d, <1>e, <1>z
  <2>5. CASE incoming[d] # <<>>
    <3>1. incoming[d] \in Seq(Message) /\ Head(incoming[d]) \in Message /\ stack[k] \in Seq(Frame)
      BY <1>t, <2>2, <2>5, TailFacts
    <3>2. /\ incoming' = [incoming EXCEPT ![d] = Tail(incoming[d])]
          /\ dispatchMessage(k, d, Head(incoming[d]), stack[k])
      BY <1>10, <2>5 DEF dispatchOneMessage
    <3>3. InSame
      <4>1. CASE d = p
        <5>1. incoming'[p] = Tail(incoming[p])
          BY <1>0, <1>t, <3>2, <4>1
        <5>2. QED BY <1>g, <2>5, <3>1, <4>1, <5>1, HasTail DEF InSame
      <4>2. CASE d # p
        BY <1>0, <1>g, <1>t, <3>2, <4>2 DEF InSame
      <4>3. QED BY <4>1, <4>2
    <3>4. StackSame
      <4> SUFFICES ASSUME Has(stack'[l], H) PROVE Goal
        BY DEF StackSame
      <4>0. Has(stack'[l], Holding(p, id, n))
        BY DEF H
      <4> HIDE DEF d
      <4>1. \/ l # k /\ Has(stack[l], H)
            \/ l = k /\ Has(stack[k], H)
            \/ l = k /\ d = p /\ Head(incoming[d]) \in Q
        BY <4>0, <1>0, <2>2, <3>1, <3>2, DispatchHolds DEF H, Q
      <4>2. CASE d = p /\ Head(incoming[d]) \in Q
        BY <1>g, <2>5, <3>1, <4>2, HasTail
      <4>3. QED BY <1>g, <4>1, <4>2
    <3>5. QED BY <2>3, <3>3, <3>4, <1>a, <1>b, <1>d, <1>z
  <2>6. QED BY <2>4, <2>5
<1>11. ASSUME NEW k \in RunLoops, stack[k] # <<>>, NEW f \in Frame, f \in H => k # l \/ Goal,
              stack' = [stack EXCEPT ![k] = Append(Front(stack[k]), f)]
       PROVE  StackSame
  <2>1. stack[k] \in Seq(Frame) /\ Front(stack[k]) \in Seq(Frame)
    BY <1>11, <1>t, FrontFacts
  <2>2. k = l => ~Has(Append(Front(stack[k]), f), H) \/ Goal
    BY <1>11, <1>g, <2>1, HasAppend, HasFront
  <2>3. QED BY <1>s, <1>11, <2>2
<1>12. ASSUME NEW k \in RunLoops, stack[k] # <<>>, Top(k) \in H, k = l PROVE Goal
  BY <1>12, <1>t, <1>g, HasFront DEF Top
<1>13. ASSUME NEW k \in RunLoops, SwapMessages(k) PROVE Goal
  <2> DEFINE f == [Top(k) EXCEPT !.at = "dispatch", !.todo = toDispatch[k]]
  <2>1. /\ Top(k) \in Frame /\ Top(k) \in OwnFrame(k) /\ stack[k] # <<>>
        /\ toDispatch[k] \in Seq(ConnectionAndMessage) /\ Top(k).at = "swap"
    BY <1>13, <1>t, OwnTop DEF SwapMessages, At
  <2>2. f \in Frame /\ f.at = "dispatch" /\ f.todo = toDispatch[k] /\ f.putBack = Top(k).putBack
    BY <2>1 DEF Frame
  <2>3. f.putBack = <<>>
    BY <2>1, <2>2 DEF OwnFrame
  <2>4. /\ stack' = [stack EXCEPT ![k] = Append(Front(stack[k]), f)]
        /\ toDispatch' = [toDispatch EXCEPT ![k] = <<>>] /\ UNCHANGED <<outgoing, incoming, wire>>
    BY <1>13 DEF SwapMessages
  <2> HIDE DEF f
  <2>5. f \in H => k # l \/ Goal
    <3> SUFFICES ASSUME f \in H, k = l PROVE Goal
      OBVIOUS
    <3>1. Has(toDispatch[l], X)
      BY <2>2, <2>3, HasEmpty DEF H, Holding, X
    <3>2. QED BY <1>g, <3>1
  <2>6. StackSame
    BY <1>11, <2>1, <2>2, <2>4, <2>5
  <2>7. VectorSame
    BY <1>0, <1>g, <1>t, <2>4, HasEmpty DEF VectorSame
  <2>8. QED BY <2>4, <2>6, <2>7, <1>a, <1>b, <1>c, <1>z
<1>14. ASSUME NEW k \in RunLoops, DispatchNext(k) PROVE Goal
  <2> DEFINE f == Top(k)
             next == Head(f.todo)
             kept == [f EXCEPT !.todo = Tail(f.todo), !.putBack = Append(f.putBack, next)]
             taken == [f EXCEPT !.todo = Tail(f.todo)]
  <2>1. /\ f \in Frame /\ f \in OwnFrame(k) /\ stack[k] # <<>> /\ f.at = "dispatch" /\ f.todo # <<>>
        /\ f.todo \in Seq(ConnectionAndMessage) /\ f.putBack \in Seq(ConnectionAndMessage)
    <3>1. f \in Frame /\ f \in OwnFrame(k) /\ stack[k] # <<>> /\ f.at = "dispatch" /\ f.todo # <<>>
      BY <1>14, OwnTop DEF DispatchNext, At
    <3>2. QED BY <3>1 DEF Frame
  <2>2. next \in ConnectionAndMessage /\ Tail(f.todo) \in Seq(ConnectionAndMessage)
    BY <2>1, TailFacts
  <2>3. next.conn \in Ends /\ next.msg \in Message
    BY <2>2 DEF ConnectionAndMessage
  <2>4. UNCHANGED <<outgoing, incoming, wire, toDispatch>>
    BY <1>14 DEF DispatchNext
  <2>5. /\ Has(Tail(f.todo), X) => f \in H
        /\ next \in X => f \in H
        /\ Has(f.putBack, X) => f \in H
    BY <2>1, HasTail DEF H, Holding, X
  <2>6. f \in H /\ k = l => Goal
    BY <1>12, <2>1
  <2>7. CASE f.conn \notin {NoEnd, next.conn}
    <3>1. Append(f.putBack, next) \in Seq(ConnectionAndMessage)
      BY <2>1, <2>2, AppendFacts
    <3>2. /\ kept \in Frame /\ kept.at = "dispatch" /\ kept.todo = Tail(f.todo)
          /\ kept.putBack = Append(f.putBack, next)
      BY <2>1, <2>2, <3>1 DEF Frame
    <3>3. stack' = [stack EXCEPT ![k] = Append(Front(stack[k]), kept)]
      BY <1>14, <2>7 DEF DispatchNext
    <3> HIDE DEF kept
    <3>4. kept \in H => f \in H
      <4> SUFFICES ASSUME kept \in H PROVE f \in H
        OBVIOUS
      <4>1. Has(Tail(f.todo), X) \/ Has(Append(f.putBack, next), X)
        BY <3>2 DEF H, Holding, X
      <4>2. QED BY <2>1, <2>2, <2>5, <4>1, HasAppend
    <3>5. StackSame
      BY <1>11, <2>1, <2>6, <3>2, <3>3, <3>4
    <3>6. QED BY <2>4, <3>5, <1>a, <1>b, <1>c, <1>d, <1>z
  <2>8. CASE f.conn \in {NoEnd, next.conn}
    <3>1. /\ taken \in Frame /\ taken.at = "dispatch" /\ taken.todo = Tail(f.todo)
          /\ taken.putBack = f.putBack
      BY <2>1, <2>2 DEF Frame
    <3>2. dispatchMessage(k, next.conn, next.msg, Append(Front(stack[k]), taken))
      BY <1>14, <2>8 DEF DispatchNext
    <3> HIDE DEF taken
    <3>3. stack[k] \in Seq(Frame) /\ Front(stack[k]) \in Seq(Frame) /\ Append(Front(stack[k]), taken) \in Seq(Frame)
      BY <1>t, <2>1, <3>1, FrontFacts, AppendFacts
    <3>4. taken \in H => f \in H
      BY <2>5, <3>1 DEF H, Holding, X
    <3>5. StackSame
      <4> SUFFICES ASSUME Has(stack'[l], H) PROVE Goal
        BY DEF StackSame
      <4>0. Has(stack'[l], Holding(p, id, n))
        BY DEF H
      <4> DEFINE d == next.conn
                 m == next.msg
                 below == Append(Front(stack[k]), taken)
      <4>5. d \in Ends /\ m \in Message /\ below \in Seq(Frame) /\ dispatchMessage(k, d, m, below)
        BY <2>3, <3>2, <3>3
      <4> HIDE DEF d, m, below
      <4>6. \/ l # k /\ Has(stack[l], H)
            \/ l = k /\ Has(below, H)
            \/ l = k /\ d = p /\ m \in Q
        BY <4>0, <4>5, <1>0, DispatchHolds DEF H, Q
      <4>1. \/ l # k /\ Has(stack[l], H)
            \/ l = k /\ Has(Append(Front(stack[k]), taken), H)
            \/ l = k /\ next.conn = p /\ next.msg \in Q
        BY <4>6 DEF d, m, below
      <4>2. CASE l = k /\ Has(Append(Front(stack[k]), taken), H)
        <5>1. Has(Front(stack[k]), H) \/ taken \in H
          BY <3>1, <3>3, <4>2, HasAppend
        <5>2. CASE Has(Front(stack[k]), H)
          BY <1>g, <2>1, <3>3, <4>2, <5>2, HasFront
        <5>3. QED BY <2>6, <3>4, <4>2, <5>1, <5>2
      <4>3. CASE l = k /\ next.conn = p /\ next.msg \in Q
        <5>1. next \in X
          BY <2>2, <4>3 DEF X, RequestAt, Q
        <5>2. QED BY <2>5, <2>6, <4>3, <5>1
      <4>4. QED BY <1>g, <4>1, <4>2, <4>3
    <3>6. QED BY <2>4, <3>5, <1>a, <1>b, <1>c, <1>d, <1>z
  <2>9. QED BY <2>7, <2>8
<1>15. ASSUME NEW k \in RunLoops, EndDispatchMessages(k) PROVE Goal
  <2>1. Top(k) \in Frame /\ stack[k] # <<>>
    BY <1>15, OwnTop DEF EndDispatchMessages, At
  <2>2. Top(k).putBack \in Seq(ConnectionAndMessage) /\ toDispatch[k] \in Seq(ConnectionAndMessage)
    BY <1>t, <2>1 DEF Frame
  <2>3. /\ stack' = [stack EXCEPT ![k] = Front(stack[k])]
        /\ toDispatch' = [toDispatch EXCEPT ![k] = toDispatch[k] \o Top(k).putBack]
        /\ UNCHANGED <<outgoing, incoming, wire>>
    BY <1>15 DEF EndDispatchMessages
  <2>4. VectorSame
    <3>1. CASE k # l
      BY <1>0, <1>g, <1>t, <2>3, <3>1 DEF VectorSame
    <3>2. CASE k = l
      <4> SUFFICES ASSUME Has(toDispatch'[l], X) PROVE Goal
        BY DEF VectorSame
      <4>1. Has(toDispatch[k] \o Top(k).putBack, X)
        BY <1>t, <2>3, <3>2
      <4>2. Has(toDispatch[k], X) \/ Has(Top(k).putBack, X)
        BY <2>2, <4>1, HasConcat
      <4>3. CASE Has(Top(k).putBack, X)
        <5>1. Top(k) \in H
          BY <2>1, <4>3 DEF H, Holding, X
        <5>2. QED BY <1>12, <2>1, <3>2, <5>1
      <4>4. QED BY <1>g, <3>2, <4>2, <4>3
    <3>3. QED BY <3>1, <3>2
  <2>5. QED BY <2>1, <2>3, <2>4, <1>4, <1>a, <1>b, <1>c, <1>z
<1>16. ASSUME NEW k \in RunLoops, ReturnReply(k) \/ GiveUp(k) \/ TimeOut(k) PROVE Goal
  <2>1. stack[k] # <<>>
    BY <1>16 DEF ReturnReply, GiveUp, TimeOut, At
  <2>2. ASSUME NEW d, PopPendingReply(k, d) PROVE Goal
    <3>1. /\ stack' = [stack EXCEPT ![k] = Front(stack[k])]
          /\ UNCHANGED <<outgoing, incoming, wire, toDispatch>>
      BY <2>2 DEF PopPendingReply
    <3>2. QED BY <2>1, <3>1, <1>4, <1>a, <1>b, <1>c, <1>d, <1>z
  <2>3. QED
    BY <1>3, <1>16, <2>2 DEF ReturnReply, GiveUp, TimeOut, SyncSendFails
<1>17. ASSUME NEW k \in RunLoops, At(k, {"check", "sleep"}), NEW at \in {"check", "sleep"}
       PROVE  /\ [Top(k) EXCEPT !.at = at] \in Frame /\ stack[k] # <<>>
              /\ [Top(k) EXCEPT !.at = at] \notin H
  <2> DEFINE f == [Top(k) EXCEPT !.at = at]
  <2>1. Top(k) \in Frame /\ Top(k) \in OwnFrame(k) /\ stack[k] # <<>> /\ Top(k).at \in {"check", "sleep"}
    BY <1>17, OwnTop DEF At
  <2>2. f \in Frame /\ f.at = at /\ f.todo = Top(k).todo /\ f.putBack = Top(k).putBack
    BY <2>1 DEF Frame
  <2>3. f.todo = <<>> /\ f.putBack = <<>>
    BY <2>1, <2>2 DEF OwnFrame
  <2>4. f.at # "handle"
    BY <2>2
  <2> HIDE DEF f
  <2>5. f \notin H
    BY <2>2, <2>3, <2>4, EmptyFrame DEF H
  <2>6. QED BY <2>1, <2>2, <2>5 DEF f
<1>18. ASSUME NEW k \in RunLoops, Sleep(k) PROVE Goal
  <2> DEFINE f == [Top(k) EXCEPT !.at = "sleep"]
  <2>1. f \in Frame /\ stack[k] # <<>> /\ f \notin H
    BY <1>17, <1>18 DEF Sleep, At
  <2>2. /\ stack' = [stack EXCEPT ![k] = Append(Front(stack[k]), f)]
        /\ UNCHANGED <<outgoing, incoming, wire, toDispatch>>
    BY <1>18 DEF Sleep
  <2> HIDE DEF f
  <2>3. StackSame
    BY <1>11, <2>1, <2>2
  <2>4. QED BY <2>2, <2>3, <1>a, <1>b, <1>c, <1>d, <1>z
<1>19. ASSUME NEW k \in RunLoops, WakeUp(k) PROVE Goal
  <2> DEFINE f == [Top(k) EXCEPT !.at = "check"]
             g == NewFrame("swap", NoEnd, NoMessage)
  <2>1. f \in Frame /\ stack[k] # <<>> /\ f \notin H
    BY <1>17, <1>19 DEF WakeUp, At
  <2>2. g \in Frame
    BY NewFrameType, NoMessageType
  <2>3. g \notin H
    BY <2>2, EmptyFrame DEF NewFrame, H
  <2>4. /\ stack' = [stack EXCEPT ![k] = Append(Append(Front(stack[k]), f), g)]
        /\ UNCHANGED <<outgoing, incoming, wire, toDispatch>>
    BY <1>19 DEF WakeUp
  <2> HIDE DEF f, g
  <2>5. k = l => ~Has(Append(Append(Front(stack[k]), f), g), H) \/ Goal
    <3> SUFFICES ASSUME k = l, Has(Append(Append(Front(stack[k]), f), g), H) PROVE Goal
      OBVIOUS
    <3>1. stack[k] \in Seq(Frame) /\ Front(stack[k]) \in Seq(Frame) /\ Append(Front(stack[k]), f) \in Seq(Frame)
      BY <1>t, <2>1, FrontFacts, AppendFacts
    <3>2. Has(Append(Front(stack[k]), f), H)
      BY <2>2, <2>3, <3>1, HasAppend
    <3>3. Has(Front(stack[k]), H)
      BY <2>1, <3>1, <3>2, HasAppend
    <3>4. QED BY <1>g, <2>1, <3>1, <3>3, HasFront
  <2>6. QED BY <2>4, <2>5, <1>s, <1>a, <1>b, <1>c, <1>d, <1>z
<1>20. ASSUME NEW d \in Ends, sendOutgoingMessages(d) PROVE Goal
  <2> DEFINE q == PeerOf[d]
             sends == connected[d] /\ outgoing[d] # <<>>
             sent == sends /\ SocketTakes(q)
  <2>1. /\ outgoing' = [outgoing EXCEPT ![d] = IF sends THEN Tail(@) ELSE @]
        /\ wire' = [wire EXCEPT ![q] = IF sent THEN Append(@, Head(outgoing[d])) ELSE @]
        /\ UNCHANGED <<incoming, toDispatch, stack>>
    BY <1>20 DEF sendOutgoingMessages
  <2>2. q \in Ends
    BY PeerAssumption
  <2>3. \A S : \A c \in Ends : Has(outgoing'[c], S) => Has(outgoing[c], S)
    <3> SUFFICES ASSUME NEW c \in Ends, NEW S, Has(outgoing'[c], S) PROVE Has(outgoing[c], S)
      OBVIOUS
    <3>1. outgoing'[c] = outgoing[c] \/ (outgoing[c] # <<>> /\ outgoing'[c] = Tail(outgoing[c]))
      BY <1>t, <2>1
    <3>2. QED BY <1>t, <3>1, HasTail
  <2>4. OutSame
    BY <1>0, <1>g, <2>3 DEF OutSame
  <2>5. \A S : \A c \in Ends : Has(wire'[c], S) => Has(wire[c], S) \/ (c = q /\ Has(outgoing[d], S))
    <3> SUFFICES ASSUME NEW c \in Ends, NEW S, Has(wire'[c], S)
                 PROVE  Has(wire[c], S) \/ (c = q /\ Has(outgoing[d], S))
      OBVIOUS
    <3>1. \/ wire'[c] = wire[c]
          \/ c = q /\ outgoing[d] # <<>> /\ wire'[c] = Append(wire[c], Head(outgoing[d]))
      BY <1>t, <2>1
    <3>2. CASE c = q /\ outgoing[d] # <<>> /\ wire'[c] = Append(wire[c], Head(outgoing[d]))
      <4>1. Head(outgoing[d]) \in Message /\ wire[c] \in Seq(Message) /\ outgoing[d] \in Seq(Message)
        BY <1>t, <3>2, TailFacts
      <4>2. Has(wire[c], S) \/ Head(outgoing[d]) \in S
        BY <3>2, <4>1, HasAppend
      <4>3. QED BY <3>2, <4>1, <4>2, HasTail
    <3>3. QED BY <3>1, <3>2
  <2>6. WireSame
    <3>1. q = p => d = e
      BY <1>0
    <3>2. q = e => d = p
      BY <1>0
    <3>3. QED BY <1>0, <1>g, <2>5, <3>1, <3>2 DEF WireSame
  <2>7. QED BY <2>1, <2>4, <2>6, <1>c, <1>d, <1>e, <1>z
<1>21. ASSUME NEW d \in Ends, PlatformInvalidate(d) \/ connectionDidClose(d) PROVE Goal
  <2>1. wire' = [wire EXCEPT ![d] = <<>>] /\ UNCHANGED <<outgoing, incoming, toDispatch, stack>>
    BY <1>21 DEF PlatformInvalidate, connectionDidClose
  <2>2. WireSame
    BY <1>0, <1>g, <1>t, <2>1, HasEmpty DEF WireSame
  <2>3. QED BY <2>1, <2>2, <1>a, <1>c, <1>d, <1>e, <1>z
<1>22. ASSUME NEW d \in Ends, Receive(d)
       PROVE  /\ WireSame /\ Head(wire[d]) \in Message
              /\ d = p /\ Head(wire[d]) \in Q => Goal
  <2>1. wire' = [wire EXCEPT ![d] = Tail(wire[d])] /\ wire[d] # <<>>
    BY <1>22 DEF Receive
  <2>2. Head(wire[d]) \in Message /\ wire[d] \in Seq(Message)
    BY <1>t, <2>1, TailFacts
  <2>3. \A S : \A c \in Ends : Has(wire'[c], S) => Has(wire[c], S)
    <3> SUFFICES ASSUME NEW c \in Ends, NEW S, Has(wire'[c], S) PROVE Has(wire[c], S)
      OBVIOUS
    <3>1. wire'[c] = wire[c] \/ (c = d /\ wire'[c] = Tail(wire[c]))
      BY <1>t, <2>1
    <3>2. QED BY <2>1, <2>2, <3>1, HasTail
  <2>4. WireSame
    BY <1>0, <1>g, <2>3 DEF WireSame
  <2>5. d = p /\ Head(wire[d]) \in Q => Goal
    BY <1>g, <2>1, <2>2, HasTail
  <2>6. QED BY <2>2, <2>4, <2>5
<1>23. ASSUME NEW d \in Ends, ReceiveReply(d) \/ ReceiveOtherReply(d) PROVE Goal
  <2>1. Receive(d) /\ UNCHANGED <<outgoing, incoming, toDispatch, stack>>
    BY <1>23 DEF ReceiveReply, ReceiveOtherReply
  <2>2. QED BY <2>1, <1>22, <1>a, <1>c, <1>d, <1>e, <1>z
<1>24. ASSUME NEW d \in Ends, ReceiveFlagged(d) PROVE Goal
  <2> DEFINE k == LoopOf[d]
             x == [conn |-> d, msg |-> Head(wire[d])]
  <2>1. Receive(d) /\ UNCHANGED <<outgoing, incoming, stack>> /\ k \in RunLoops
    BY <1>24, LoopAssumption DEF ReceiveFlagged
  <2>2. toDispatch' = [toDispatch EXCEPT ![k] = Append(toDispatch[k], x)]
    BY <1>24 DEF ReceiveFlagged
  <2>3. x \in ConnectionAndMessage
    BY <1>22, <2>1 DEF ConnectionAndMessage
  <2>4. x \in X => d = p /\ Head(wire[d]) \in Q
    BY <2>3 DEF X, Q, RequestAt
  <2>5. VectorSame
    <3> SUFFICES ASSUME Has(toDispatch'[l], X) PROVE Goal
      BY DEF VectorSame
    <3> HIDE DEF x
    <3>1. toDispatch'[l] = toDispatch[l] \/ (k = l /\ toDispatch'[l] = Append(toDispatch[l], x))
      BY <1>0, <1>t, <2>2
    <3>2. Has(toDispatch[l], X) \/ x \in X
      BY <1>0, <1>t, <2>3, <3>1, HasAppend
    <3>3. QED BY <1>22, <1>g, <2>1, <2>4, <3>2
  <2>6. QED BY <2>1, <2>5, <1>22, <1>a, <1>c, <1>e, <1>z
<1>25. ASSUME NEW d \in Ends, ReceiveUnflagged(d) PROVE Goal
  <2>1. Receive(d) /\ UNCHANGED <<outgoing, toDispatch, stack>>
    BY <1>25 DEF ReceiveUnflagged
  <2>2. incoming' = [incoming EXCEPT ![d] = Append(incoming[d], Head(wire[d]))]
    BY <1>25 DEF ReceiveUnflagged, AppendIncoming
  <2>3. InSame
    <3> SUFFICES ASSUME Has(incoming'[p], Q) PROVE Goal
      BY DEF InSame
    <3>1. incoming'[p] = incoming[p] \/ (d = p /\ incoming'[p] = Append(incoming[p], Head(wire[d])))
      BY <1>0, <1>t, <2>2
    <3>2. Has(incoming[p], Q) \/ (d = p /\ Head(wire[d]) \in Q)
      BY <1>0, <1>22, <1>t, <2>1, <3>1, HasAppend
    <3>3. QED BY <1>22, <1>g, <2>1, <3>2
  <2>4. QED BY <2>1, <2>3, <1>22, <1>a, <1>d, <1>e, <1>z
<1>26. ASSUME UNCHANGED <<outgoing, incoming, wire, toDispatch, stack>> PROVE Goal
  BY <1>26, <1>a, <1>b, <1>c, <1>d, <1>e, <1>z
<1>27. ASSUME NEW d \in Ends, Invalidate(d) \/ wakeUpClientRunLoop(d) PROVE Goal
  BY <1>26, <1>27 DEF Invalidate, wakeUpClientRunLoop
<1>28. ASSUME NEW k \in RunLoops, dispatchConnectionDidClose(k) PROVE Goal
  BY <1>26, <1>28 DEF dispatchConnectionDidClose
<1>29. ASSUME NEW t \in SecondaryThreads, SecondaryRegister(t) \/ SecondaryReturn(t) PROVE Goal
  BY <1>26, <1>29 DEF SecondaryRegister, SecondaryReturn
<1>30. ASSUME NEW t \in SecondaryThreads, SecondarySend(t) PROVE Goal
  <2> DEFINE d == SecondaryEnd[t]
             m == [type |-> "sync", id |-> secondary[t].id, serial |-> serial[d] + 1, flagged |-> FALSE]
  <2>1. d \in Ends /\ UNCHANGED <<incoming, wire, toDispatch, stack>>
    BY <1>30, SecondaryAssumption DEF SecondarySend
  <2>2. m \in Message
    BY <2>1, SMTT(30) DEF Message, Types, CountTypes, HistoryTypes, Wait
  <2>3. CASE ~client[d]
    BY <1>26, <1>30, <2>1, <2>3 DEF SecondarySend
  <2>4. CASE client[d]
    <3>1. sendMessage(d, m)
      BY <1>30, <2>4 DEF SecondarySend
    <3>2. m \notin R /\ (m \in Q => id = secondary[t].id /\ n = serial[d] + 1)
      BY <1>q
    <3>3. d = e /\ m \in Q => Goal
      BY <1>30, <2>4, <3>2 DEF Goal, Sends
    <3>4. OutSame
      BY <1>f, <2>1, <2>2, <3>1, <3>2, <3>3 DEF OutSame
    <3>5. QED BY <2>1, <3>4, <1>b, <1>c, <1>d, <1>e, <1>z
  <2>5. QED BY <2>3, <2>4
<1>31. ASSUME UNCHANGED vars PROVE Goal
  BY <1>26, <1>31 DEF vars
<1>32. ASSUME NEW d \in Ends, SendSyncFails(d) PROVE Goal
  BY <1>3, <1>32, LoopAssumption DEF SendSyncFails
<1>33. Goal
  BY <1>1, <1>2, <1>3, <1>5, <1>6, <1>8, <1>9, <1>10, <1>13, <1>14, <1>15, <1>16, <1>18, <1>19, <1>20, <1>21,
     <1>23, <1>24, <1>25, <1>27, <1>28, <1>29, <1>30, <1>31, <1>32
     DEF Next, ClientThread, performWork, ConnectionQueue, ClientDecides, Crash
<1>34. QED BY <1>33 DEF Goal

(* Request ids of an end never decrease.                                     *)
LEMMA IdsGrow ==
  ASSUME Types, OwnConnections, [Next]_vars, NEW e \in Ends
  PROVE  syncRequestID[e] \in Nat /\ syncRequestID'[e] \in Nat /\ syncRequestID[e] <= syncRequestID'[e]
<1>1. syncRequestID \in [Ends -> Nat]
  BY DEF Types, CountTypes
<1>2. syncRequestID' \in [Ends -> Nat]
  BY TypesStep DEF Types, CountTypes
<1>3. CASE KeepsWaits
  BY <1>1, <1>2, <1>3 DEF KeepsWaits
<1>4. ASSUME NEW d \in Ends, SendSync(d) PROVE syncRequestID[e] <= syncRequestID'[e]
  BY <1>1, <1>4 DEF SendSync
<1>5. ASSUME NEW l \in RunLoops, EndsWait(l) \/ ProcessExits(l) PROVE syncRequestID[e] <= syncRequestID'[e]
  <2>1. CASE EndsWait(l)
    BY <1>1, <2>1 DEF EndsWait, PopPendingReply
  <2>2. CASE ProcessExits(l)
    <3>1. syncRequestID' = syncRequestID
      BY <2>2 DEF ProcessExits
    <3>2. QED BY <1>1, <3>1
  <2>3. QED BY <1>5, <2>1, <2>2
<1>6. QED BY <1>1, <1>2, <1>3, <1>4, <1>5, WaitsStep

(* A wait after a step was a wait before, or has just been started.          *)
LEMMA WaitOrigin ==
  ASSUME Types, OwnConnections, PendingMatchesStack, [Next]_vars,
         NEW l \in RunLoops, NEW i \in DOMAIN stack'[l], Waits(stack'[l][i])
  PROVE  \/ \E j \in DOMAIN stack[l] : /\ Waits(stack[l][j]) /\ stack[l][j].conn = stack'[l][i].conn
                                       /\ stack[l][j].msg = stack'[l][i].msg
         \/ /\ stack'[l][i].conn \in Ends /\ SendSync(stack'[l][i].conn)
            /\ stack'[l][i].msg.id = syncRequestID[stack'[l][i].conn] + 1
            /\ stack'[l][i].msg.serial = serial[stack'[l][i].conn] + 1
<1> DEFINE Old == \E j \in DOMAIN stack[l] : /\ Waits(stack[l][j]) /\ stack[l][j].conn = stack'[l][i].conn
                                             /\ stack[l][j].msg = stack'[l][i].msg
<1>0. stack \in [RunLoops -> Seq(Frame)]
  BY DEF Types, LoopTypes
<1>1. CASE KeepsWaits
  <2>1. SameWaits(stack[l], stack'[l])
    BY <1>1 DEF KeepsWaits
  <2>2. QED BY <2>1 DEF SameWaits
<1>2. ASSUME NEW k \in RunLoops, ProcessExits(k) PROVE Old
  <2>1. stack' = [stack EXCEPT ![k] = <<>>]
    BY <1>2 DEF ProcessExits
  <2>2. l # k
    BY <1>0, <2>1, EmptyFacts
  <2>3. QED BY <1>0, <2>1, <2>2
<1>3. ASSUME NEW k \in RunLoops, EndsWait(k) PROVE Old
  <2>1. stack' = [stack EXCEPT ![k] = Front(stack[k])] /\ stack[k] # <<>>
    BY <1>3 DEF EndsWait, PopPendingReply, At
  <2>2. CASE l # k
    BY <1>0, <2>1, <2>2
  <2>3. CASE l = k
    <3>1. stack'[l] = Front(stack[l]) /\ stack[l] \in Seq(Frame) /\ stack[l] # <<>>
      BY <1>0, <2>1, <2>3
    <3>2. i \in DOMAIN stack[l] /\ stack'[l][i] = stack[l][i]
      BY <3>1, FrontFacts
    <3>3. QED BY <3>2
  <2>4. QED BY <2>2, <2>3
<1>4. ASSUME NEW e \in Ends, SendSync(e)
      PROVE  \/ Old
             \/ /\ stack'[l][i].conn = e
                /\ stack'[l][i].msg.id = syncRequestID[e] + 1 /\ stack'[l][i].msg.serial = serial[e] + 1
  <2> DEFINE k == LoopOf[e]
             m == [type |-> "sync", id |-> syncRequestID[e] + 1,
                   serial |-> serial[e] + 1, flagged |-> Flagged(e)]
             f == NewFrame("check", e, m)
             g == NewFrame("swap", NoEnd, NoMessage)
  <2>1. m \in Message /\ m.id = syncRequestID[e] + 1 /\ m.serial = serial[e] + 1
    BY DEF Message, Flagged, Types, CountTypes
  <2>2. f \in Frame /\ f.conn = e /\ f.msg = m /\ g \in Frame /\ ~Waits(g)
    <3>1. f \in Frame /\ g \in Frame
      BY <2>1, NewFrameType, NoMessageType
    <3>2. QED BY <3>1 DEF NewFrame, Waits
  <2>3. stack' = [stack EXCEPT ![k] = Append(Append(stack[k], f), g)] /\ k \in RunLoops
    BY <1>4, LoopAssumption DEF SendSync
  <2> HIDE DEF f, g, m
  <2>4. CASE l # k
    BY <1>0, <2>3, <2>4
  <2>5. CASE l = k
    <3>1. stack[l] \in Seq(Frame) /\ Append(stack[l], f) \in Seq(Frame) /\ stack'[l] = Append(Append(stack[l], f), g)
      BY <1>0, <2>2, <2>3, <2>5, AppendFacts
    <3>2. /\ Len(Append(stack[l], f)) = Len(stack[l]) + 1 /\ Len(stack[l]) \in Nat
          /\ DOMAIN stack[l] = 1 .. Len(stack[l])
          /\ \A j \in 1 .. Len(stack[l]) : Append(stack[l], f)[j] = stack[l][j]
          /\ Append(stack[l], f)[Len(stack[l]) + 1] = f
      BY <2>2, <3>1, AppendFacts
    <3>3. /\ i \in 1 .. Len(stack[l]) + 2
          /\ \A j \in 1 .. Len(stack[l]) + 1 : stack'[l][j] = Append(stack[l], f)[j]
          /\ stack'[l][Len(stack[l]) + 2] = g
      BY <2>2, <3>1, <3>2, AppendFacts
    <3>4. i # Len(stack[l]) + 2
      BY <2>2, <3>3
    <3>5. CASE i = Len(stack[l]) + 1
      <4>1. stack'[l][i] = f
        BY <3>2, <3>3, <3>5
      <4>2. QED BY <2>1, <2>2, <4>1
    <3>6. CASE i \in 1 .. Len(stack[l])
      <4>1. stack'[l][i] = stack[l][i]
        BY <3>2, <3>3, <3>6
      <4>2. QED BY <3>2, <3>6, <4>1
    <3>7. QED BY <3>2, <3>3, <3>4, <3>5, <3>6
  <2>6. QED BY <2>4, <2>5
<1>5. QED BY <1>1, <1>2, <1>3, <1>4, WaitsStep

(* A pending reply after a step was one before, or has just been pushed, or  *)
(* has just been given its reply.                                            *)
LEMMA PendingOrigin ==
  ASSUME Types, OwnConnections, PendingMatchesStack, [Next]_vars,
         NEW e \in Ends, NEW j \in DOMAIN pending'[e]
  PROVE  \/ \E k \in DOMAIN pending[e] : pending'[e][j] = pending[e][k]
         \/ SendSync(e) /\ pending'[e][j] = [id |-> syncRequestID[e] + 1, reply |-> 0]
         \/ /\ wire[e] # <<>> /\ Head(wire[e]).type = "reply" /\ stack' = stack
            /\ pending'[e][j].id = Head(wire[e]).id /\ pending'[e][j].reply = Head(wire[e]).serial
<1> DEFINE Old == \E k \in DOMAIN pending[e] : pending'[e][j] = pending[e][k]
<1>0. pending \in [Ends -> Seq(PendingReply)]
  BY DEF Types, QueueTypes
<1>1. CASE pending' = pending
  BY <1>1
<1>2. ASSUME NEW d \in Ends, ReceiveReply(d)
      PROVE  \/ Old
             \/ /\ wire[e] # <<>> /\ Head(wire[e]).type = "reply" /\ stack' = stack
                /\ pending'[e][j].id = Head(wire[e]).id /\ pending'[e][j].reply = Head(wire[e]).serial
  <2>1. PICK i \in DOMAIN pending[d] : pending[d][i].id = Head(wire[d]).id /\ SetReply(d, i, Head(wire[d]))
    BY <1>2 DEF ReceiveReply
  <2>2. pending' = [pending EXCEPT ![d] = [pending[d] EXCEPT ![i] = [pending[d][i] EXCEPT !.reply = Head(wire[d]).serial]]]
    BY <1>0, <2>1 DEF SetReply
  <2>3. pending[d][i] \in PendingReply
    BY <1>0
  <2>4. CASE d = e /\ j = i
    <3>1. pending'[e][j] = [pending[d][i] EXCEPT !.reply = Head(wire[d]).serial]
      BY <1>0, <2>2, <2>4
    <3>2. pending'[e][j].id = Head(wire[e]).id /\ pending'[e][j].reply = Head(wire[e]).serial
      BY <2>1, <2>3, <2>4, <3>1 DEF PendingReply
    <3>3. QED BY <1>2, <2>4, <3>2 DEF ReceiveReply, Receive
  <2>5. CASE ~(d = e /\ j = i)
    <3>1. j \in DOMAIN pending[e] /\ pending'[e][j] = pending[e][j]
      BY <1>0, <2>2, <2>5
    <3>2. QED BY <3>1
  <2>6. QED BY <2>4, <2>5
<1>3. ASSUME NEW k \in RunLoops, ProcessExits(k) PROVE Old
  <2>1. pending' = [d \in Ends |-> IF LoopOf[d] = k THEN <<>> ELSE pending[d]]
    BY <1>3 DEF ProcessExits
  <2>2. pending'[e] = pending[e]
    BY <2>1, EmptyFacts
  <2>3. QED BY <2>2
<1>4. ASSUME NEW k \in RunLoops, EndsWait(k) PROVE Old
  <2> DEFINE d == Top(k).conn
  <2>1. pending' = [pending EXCEPT ![d] = Front(pending[d])]
    BY <1>4 DEF EndsWait, PopPendingReply, removeLastPendingReply
  <2>2. d \in Ends /\ pending[d] # <<>> /\ pending[d] \in Seq(PendingReply)
    BY <1>0, <1>4, LastIsOurs DEF EndsWait
  <2> HIDE DEF d
  <2>3. CASE d # e
    BY <1>0, <2>1, <2>3
  <2>4. CASE d = e
    <3>1. pending'[e] = Front(pending[e])
      BY <1>0, <2>1, <2>4
    <3>2. j \in DOMAIN pending[e] /\ pending'[e][j] = pending[e][j]
      BY <2>2, <2>4, <3>1, FrontFacts
    <3>3. QED BY <3>2
  <2>5. QED BY <2>3, <2>4
<1>5. ASSUME NEW d \in Ends, SendSync(d)
      PROVE  Old \/ (d = e /\ pending'[e][j] = [id |-> syncRequestID[e] + 1, reply |-> 0])
  <2> DEFINE r == [id |-> syncRequestID[d] + 1, reply |-> 0]
  <2>1. pending' = [pending EXCEPT ![d] = Append(pending[d], r)]
    BY <1>5 DEF SendSync
  <2>2. r \in PendingReply
    BY DEF PendingReply, Types, CountTypes
  <2>3. CASE d # e
    BY <1>0, <2>1, <2>3
  <2>4. CASE d = e
    <3> HIDE DEF r
    <3>1. pending'[e] = Append(pending[e], r) /\ pending[e] \in Seq(PendingReply)
      BY <1>0, <2>1, <2>4
    <3>2. \/ j \in DOMAIN pending[e] /\ pending'[e][j] = pending[e][j]
          \/ pending'[e][j] = r
      <4>1. /\ j \in 1 .. Len(pending[e]) + 1 /\ Len(pending[e]) \in Nat /\ DOMAIN pending[e] = 1 .. Len(pending[e])
            /\ \A i \in 1 .. Len(pending[e]) : pending'[e][i] = pending[e][i]
            /\ pending'[e][Len(pending[e]) + 1] = r
        BY <2>2, <3>1, AppendFacts
      <4>2. QED BY <4>1
    <3>3. QED BY <2>4, <3>2 DEF r
  <2>5. QED BY <2>3, <2>4
<1>6. QED BY <1>1, <1>2, <1>3, <1>4, <1>5, WaitsStep DEF KeepsWaits

(* What a step does to the request of a secondary thread.                    *)
SameRequest(t) ==
    /\ secondary'[t].phase = secondary[t].phase
    /\ secondary'[t].id = secondary[t].id
    /\ secondary'[t].serial = secondary[t].serial
    /\ \/ secondary'[t].reply = secondary[t].reply
       \/ /\ secondary[t].phase # "idle" /\ wire[SecondaryEnd[t]] # <<>>
          /\ Head(wire[SecondaryEnd[t]]).type = "reply"
          /\ Head(wire[SecondaryEnd[t]]).id = secondary[t].id
          /\ secondary'[t].reply = Head(wire[SecondaryEnd[t]]).serial

(* What a step does to the request of a secondary thread.                    *)
LEMMA SecondaryStep ==
  ASSUME Types, [Next]_vars, NEW t \in SecondaryThreads
  PROVE  secondary'[t] = Idle \/ SecondaryRegister(t) \/ SecondarySend(t) \/ SameRequest(t)
<1> USE DEF endVars, queueVars, loopVars
<1> DEFINE Goal == secondary'[t] = Idle \/ SecondaryRegister(t) \/ SecondarySend(t) \/ SameRequest(t)
<1>0. secondary \in [SecondaryThreads -> Wait] /\ secondary[t] \in Wait
  BY DEF Types, HistoryTypes
<1>1. ASSUME secondary' = secondary PROVE Goal
  BY <1>1 DEF SameRequest
<1>2. ASSUME NEW l \in RunLoops, ProcessExits(l) PROVE Goal
  <2>1. secondary'[t] = Idle \/ secondary'[t] = secondary[t]
    BY <1>2 DEF ProcessExits
  <2>2. QED BY <2>1 DEF SameRequest
<1>3. ASSUME NEW u \in SecondaryThreads, SecondaryRegister(u) \/ SecondarySend(u) \/ SecondaryReturn(u) PROVE Goal
  <2>1. CASE u = t
    BY <1>0, <1>3, <2>1 DEF SecondaryReturn
  <2>2. CASE u # t
    <3>1. secondary'[t] = secondary[t]
      BY <1>0, <1>3, <2>2 DEF SecondaryRegister, SecondarySend, SecondaryReturn
    <3>2. QED BY <3>1 DEF SameRequest
  <2>3. QED BY <2>1, <2>2
<1>4. ASSUME NEW e \in Ends, ReceiveOtherReply(e) PROVE Goal
  <2>1. CASE SecondaryEnd[t] = e /\ secondary[t].phase # "idle" /\ secondary[t].id = Head(wire[e]).id
    <3>1. secondary'[t] = WithReply(secondary[t], Head(wire[e]))
      BY <1>4, <2>1 DEF ReceiveOtherReply
    <3>2. /\ secondary'[t].phase = secondary[t].phase /\ secondary'[t].id = secondary[t].id
          /\ secondary'[t].serial = secondary[t].serial /\ secondary'[t].reply = Head(wire[e]).serial
      BY <1>0, <3>1 DEF WithReply, Wait
    <3>3. wire[e] # <<>> /\ Head(wire[e]).type = "reply"
      BY <1>4 DEF ReceiveOtherReply, Receive
    <3>4. QED BY <2>1, <3>2, <3>3 DEF SameRequest
  <2>2. CASE ~(SecondaryEnd[t] = e /\ secondary[t].phase # "idle" /\ secondary[t].id = Head(wire[e]).id)
    <3>1. secondary'[t] = secondary[t]
      BY <1>4, <2>2 DEF ReceiveOtherReply
    <3>2. QED BY <3>1 DEF SameRequest
  <2>3. QED BY <2>1, <2>2
<1>5. ASSUME NEW e \in Ends, connectionDidClose(e) PROVE Goal
  <2>1. secondary'[t] = secondary[t] \/ secondary'[t] = [secondary[t] EXCEPT !.signalled = TRUE]
    BY <1>5 DEF connectionDidClose
  <2>2. QED BY <1>0, <2>1 DEF SameRequest, Wait
<1>6. ASSUME NEW l \in RunLoops, ReturnReply(l) \/ GiveUp(l) \/ TimeOut(l) PROVE Goal
  BY <1>1, <1>2, <1>6 DEF ReturnReply, GiveUp, TimeOut, SyncSendFails, PopPendingReply
<1>7. ASSUME NEW l \in RunLoops,
             \/ dispatchOneMessage(l) \/ dispatchMessagesForConnection(l) \/ dispatchConnectionDidClose(l)
             \/ SwapMessages(l) \/ DispatchNext(l) \/ EndDispatchMessages(l) \/ Sleep(l) \/ WakeUp(l)
             \/ HandlerReturns(l) \/ EnterNestedLoop(l) \/ ExitNestedLoop(l)
      PROVE  Goal
  <2>1. secondary' = secondary
    BY <1>7 DEF dispatchOneMessage, dispatchMessagesForConnection, dispatchConnectionDidClose, SwapMessages,
       DispatchNext, EndDispatchMessages, Sleep, WakeUp, HandlerReturns, EnterNestedLoop, ExitNestedLoop
  <2>2. QED BY <1>1, <2>1
<1>8. ASSUME NEW e \in Ends, NEW ask \in BOOLEAN,
             \/ SendAsync(e, ask) \/ SendSync(e) \/ Invalidate(e) \/ sendOutgoingMessages(e) \/ PlatformInvalidate(e)
             \/ ReceiveReply(e) \/ wakeUpClientRunLoop(e) \/ ReceiveFlagged(e) \/ ReceiveUnflagged(e)
      PROVE  Goal
  <2>1. secondary' = secondary
    BY <1>8 DEF SendAsync, SendSync, Invalidate, sendOutgoingMessages, PlatformInvalidate,
       ReceiveReply, wakeUpClientRunLoop, ReceiveFlagged, ReceiveUnflagged
  <2>2. QED BY <1>1, <2>1
<1>9. ASSUME UNCHANGED vars PROVE Goal
  BY <1>1, <1>9 DEF vars
<1>10. ASSUME NEW e \in Ends, SendSyncFails(e) PROVE Goal
  BY <1>2, <1>10, LoopAssumption DEF SendSyncFails
<1> HIDE DEF Goal
<1>11. Goal
  BY <1>2, <1>3, <1>4, <1>5, <1>6, <1>7, <1>8, <1>9, <1>10
     DEF Next, ClientThread, performWork, ConnectionQueue, ClientDecides, Crash
<1>12. QED BY <1>11 DEF Goal

(* Every request under way has the number of the wait that sent it; what a   *)
(* wait that ended left behind belongs to no wait any more.                  *)
UnderWayBounded ==
    \A e \in Ends, id, n \in Nat : UnderWay(e, id, n) => id <= syncRequestID[e]
WaitNumbered ==
    \A l \in RunLoops : \A i \in DOMAIN stack[l] : Waits(stack[l][i]) =>
        \A e \in Ends, id, n \in Nat :
            e = stack[l][i].conn /\ id = stack[l][i].msg.id /\ UnderWay(e, id, n) => n = stack[l][i].msg.serial
SecondaryNumbered ==
    \A t \in SecondaryThreads : secondary[t].phase # "idle" =>
        /\ secondary[t].id <= syncRequestID[SecondaryEnd[t]]
        /\ \A id, n \in Nat : id = secondary[t].id /\ UnderWay(SecondaryEnd[t], id, n) =>
               secondary[t].phase = "waiting" /\ n = secondary[t].serial
SecondaryApart ==
    \A t \in SecondaryThreads : secondary[t].phase # "idle" =>
        /\ \A u \in SecondaryThreads :
               u # t /\ secondary[u].phase # "idle" /\ SecondaryEnd[u] = SecondaryEnd[t] =>
                   secondary[u].id # secondary[t].id
        /\ \A l \in RunLoops : \A i \in DOMAIN stack[l] :
               Waits(stack[l][i]) /\ stack[l][i].conn = SecondaryEnd[t] =>
                   stack[l][i].msg.id # secondary[t].id
NoReplyBefore ==
    \A t \in SecondaryThreads : secondary[t].phase # "waiting" => secondary[t].reply = 0
RequestsNumbered ==
    /\ UnderWayBounded /\ WaitNumbered /\ SecondaryNumbered /\ SecondaryApart /\ NoReplyBefore
    /\ ReplyAnswersRequest

(* The id of a wait is one that its end has used.                            *)
LEMMA WaitBounded ==
  ASSUME Types, OwnConnections, PendingMatchesStack, NEW l \in RunLoops, NEW i \in DOMAIN stack[l],
         Waits(stack[l][i])
  PROVE  /\ stack[l][i].conn \in Ends /\ stack[l][i].msg.id \in Nat
         /\ stack[l][i].msg.id <= syncRequestID[stack[l][i].conn] /\ stack[l][i].msg.serial \in Nat
<1> DEFINE e == stack[l][i].conn
<1>1. e \in Ends /\ stack[l][i].msg.id \in Nat /\ stack[l][i].msg.serial \in Nat
  BY WaitFacts
<1>2. PICK j \in DOMAIN pending[e] : pending[e][j].id = stack[l][i].msg.id
  BY DEF PendingMatchesStack, WaitHasPending
<1>3. pending[e][j].id <= syncRequestID[e]
  BY <1>1, <1>2 DEF PendingMatchesStack, PendingIncrease
<1>4. QED BY <1>1, <1>2, <1>3

(* A reply at the head of the socket buffer is under way.                    *)
LEMMA ReplyUnderWay ==
  ASSUME Types, NEW e \in Ends, wire[e] # <<>>, Head(wire[e]).type = "reply"
  PROVE  /\ Head(wire[e]).id \in Nat /\ Head(wire[e]).serial \in Nat
         /\ UnderWay(e, Head(wire[e]).id, Head(wire[e]).serial)
<1>1. wire[e] \in Seq(Message)
  BY DEF Types, QueueTypes
<1>2. Head(wire[e]) \in Message
  BY <1>1, TailFacts
<1>3. Head(wire[e]).id \in Nat /\ Head(wire[e]).serial \in Nat
  BY <1>2 DEF Message
<1>4. Head(wire[e]) \in Reply(Head(wire[e]).id, Head(wire[e]).serial)
  BY <1>2 DEF Reply
<1>5. Has(wire[e], Reply(Head(wire[e]).id, Head(wire[e]).serial))
  BY <1>1, <1>4, HasTail
<1>6. QED BY <1>3, <1>5 DEF UnderWay

(* Every step keeps requests and replies apart by their numbers.             *)
LEMMA NumberedStep ==
  Types /\ OwnConnections /\ PendingMatchesStack /\ RequestsNumbered /\ [Next]_vars => RequestsNumbered'
<1> SUFFICES ASSUME Types, OwnConnections, PendingMatchesStack, RequestsNumbered, [Next]_vars
             PROVE  RequestsNumbered'
  OBVIOUS
<1> USE DEF RequestsNumbered
<1>t. /\ secondary \in [SecondaryThreads -> Wait] /\ \A t \in SecondaryThreads : SecondaryEnd[t] \in Ends
      /\ syncRequestID \in [Ends -> Nat] /\ serial \in [Ends -> Nat]
      /\ \A t \in SecondaryThreads : secondary[t].id \in Nat /\ secondary[t].serial \in Nat /\ secondary[t].reply \in Nat
  BY SecondaryAssumption DEF Types, HistoryTypes, CountTypes, Wait
<1>p. Types' /\ OwnConnections' /\ PendingMatchesStack'
  BY TypesStep, OwnStep, PendingStep
<1>i. \A e \in Ends : syncRequestID[e] \in Nat /\ syncRequestID'[e] \in Nat /\ syncRequestID[e] <= syncRequestID'[e]
  BY IdsGrow
<1>s. ASSUME NEW e \in Ends, SendSync(e)
      PROVE  secondary' = secondary /\ syncRequestID'[e] = syncRequestID[e] + 1
  BY <1>s, <1>t DEF SendSync
<1>r. ASSUME NEW t \in SecondaryThreads, SecondaryRegister(t)
      PROVE  /\ secondary[t].phase = "idle" /\ secondary'[t].phase = "registered" /\ secondary'[t].reply = 0
             /\ secondary'[t].id = syncRequestID[SecondaryEnd[t]] + 1
             /\ syncRequestID'[SecondaryEnd[t]] = syncRequestID[SecondaryEnd[t]] + 1
             /\ secondary'[t].serial = 0
             /\ \A u \in SecondaryThreads : u # t => secondary'[u] = secondary[u]
  BY <1>r, <1>t DEF SecondaryRegister, Idle
<1>d. ASSUME NEW t \in SecondaryThreads, SecondarySend(t)
      PROVE  /\ secondary[t].phase = "registered" /\ secondary'[t].phase = "waiting"
             /\ secondary'[t].id = secondary[t].id /\ secondary'[t].reply = secondary[t].reply
             /\ client[SecondaryEnd[t]] => secondary'[t].serial = serial[SecondaryEnd[t]] + 1
             /\ \A u \in SecondaryThreads : u # t => secondary'[u] = secondary[u]
  <2>1. secondary[t] \in Wait
    BY <1>t
  <2>2. CASE client[SecondaryEnd[t]]
    <3>1. secondary' = [secondary EXCEPT ![t] = [secondary[t] EXCEPT !.phase = "waiting", !.serial = serial[SecondaryEnd[t]] + 1]]
      BY <1>d, <1>t, <2>2 DEF SecondarySend
    <3>2. QED BY <1>d, <1>t, <2>1, <3>1 DEF SecondarySend, Wait
  <2>3. CASE ~client[SecondaryEnd[t]]
    <3>1. secondary' = [secondary EXCEPT ![t] = [secondary[t] EXCEPT !.phase = "waiting"]]
      BY <1>d, <1>t, <2>3 DEF SecondarySend
    <3>2. QED BY <1>d, <1>t, <2>1, <2>3, <3>1 DEF SecondarySend, Wait
  <2>4. QED BY <2>2, <2>3
<1>k. Idle.phase = "idle" /\ Idle.reply = 0
  BY DEF Idle
<1>1. UnderWayBounded'
  <2> SUFFICES ASSUME NEW e \in Ends, NEW id \in Nat, NEW n \in Nat, UnderWay(e, id, n)'
               PROVE  id <= syncRequestID'[e]
    BY DEF UnderWayBounded
  <2>1. CASE UnderWay(e, id, n)
    <3>1. id <= syncRequestID[e]
      BY <2>1 DEF UnderWayBounded
    <3>2. QED BY <1>i, <3>1
  <2>2. CASE Sends(e, id, n)
    <3>1. CASE SendSync(e) /\ id = syncRequestID[e] + 1
      BY <1>i, <1>s, <3>1
    <3>2. ASSUME NEW t \in SecondaryThreads, SecondarySend(t), SecondaryEnd[t] = e, id = secondary[t].id
          PROVE  id <= syncRequestID'[e]
      <4>1. secondary[t].phase # "idle"
        BY <1>d, <3>2
      <4>2. id <= syncRequestID[e]
        BY <3>2, <4>1 DEF SecondaryNumbered
      <4>3. QED BY <1>i, <4>2
    <3>3. QED BY <2>2, <3>1, <3>2 DEF Sends
  <2>3. QED BY <2>1, <2>2, UnderWayStep
<1>2. ASSUME NEW l \in RunLoops, NEW j \in DOMAIN stack[l], Waits(stack[l][j]), NEW e \in Ends, NEW id \in Nat,
             NEW n \in Nat, e = stack[l][j].conn, id = stack[l][j].msg.id, UnderWay(e, id, n)'
      PROVE  n = stack[l][j].msg.serial
  <2>1. id <= syncRequestID[e]
    BY <1>2, WaitBounded
  <2>2. CASE UnderWay(e, id, n)
    BY <1>2, <2>2 DEF WaitNumbered
  <2>3. ~Sends(e, id, n)
    <3>1. ~(SendSync(e) /\ id = syncRequestID[e] + 1)
      BY <1>i, <2>1
    <3>2. ASSUME NEW t \in SecondaryThreads, SecondarySend(t), SecondaryEnd[t] = e, id = secondary[t].id PROVE FALSE
      <4>1. secondary[t].phase # "idle"
        BY <1>d, <3>2
      <4>2. QED BY <1>2, <3>2, <4>1 DEF SecondaryApart
    <3>3. QED BY <3>1, <3>2 DEF Sends
  <2>4. UnderWay(e, id, n) \/ Sends(e, id, n)
    BY <1>2, UnderWayStep
  <2>5. QED BY <2>2, <2>3, <2>4
<1>3. WaitNumbered'
  <2> SUFFICES ASSUME NEW l \in RunLoops, NEW i \in DOMAIN stack'[l], Waits(stack'[l][i]), NEW n \in Nat,
                      NEW e \in Ends, NEW id \in Nat, e = stack'[l][i].conn, id = stack'[l][i].msg.id,
                      UnderWay(e, id, n)'
               PROVE  n = stack'[l][i].msg.serial
    BY DEF WaitNumbered, Waits
  <2>1. ASSUME NEW j \in DOMAIN stack[l], Waits(stack[l][j]), stack[l][j].conn = stack'[l][i].conn,
               stack[l][j].msg = stack'[l][i].msg
        PROVE  n = stack'[l][i].msg.serial
    <3>1. e \in Ends /\ id \in Nat /\ e = stack[l][j].conn /\ id = stack[l][j].msg.id
      BY <2>1, WaitBounded
    <3>2. QED BY <1>2, <2>1, <3>1
  <2>2. CASE /\ e \in Ends /\ SendSync(e) /\ id = syncRequestID[e] + 1
             /\ stack'[l][i].msg.serial = serial[e] + 1
    <3>1. id \in Nat /\ ~(id <= syncRequestID[e])
      BY <1>i, <2>2
    <3>2. ~UnderWay(e, id, n)
      BY <2>2, <3>1 DEF UnderWayBounded
    <3>3. QED BY <2>2, <3>1, <3>2, UnderWayStep DEF Sends
  <2>3. QED BY <2>1, <2>2, WaitOrigin
<1>4. SecondaryNumbered'
  <2> SUFFICES ASSUME NEW t \in SecondaryThreads, secondary'[t].phase # "idle"
               PROVE  /\ secondary'[t].id <= syncRequestID'[SecondaryEnd[t]]
                      /\ \A id, n \in Nat : UnderWay(SecondaryEnd[t], id, n)' /\ id = secondary'[t].id =>
                             secondary'[t].phase = "waiting" /\ n = secondary'[t].serial
    BY DEF SecondaryNumbered
  <2> DEFINE e == SecondaryEnd[t]
  <2>0. e \in Ends /\ secondary[t].id \in Nat
    BY <1>t
  <2>1. CASE SecondaryRegister(t)
    <3>1. secondary'[t].id = syncRequestID[e] + 1 /\ syncRequestID'[e] = syncRequestID[e] + 1
      BY <1>r, <2>1
    <3>2. ASSUME NEW id \in Nat, NEW n \in Nat, UnderWay(e, id, n)', id = secondary'[t].id PROVE FALSE
      <4>1. ~(id <= syncRequestID[e])
        BY <1>i, <2>0, <3>1, <3>2
      <4>2. ~UnderWay(e, id, n)
        BY <2>0, <4>1 DEF UnderWayBounded
      <4>3. Sends(e, id, n)
        BY <2>0, <3>2, <4>2, UnderWayStep
      <4>4. ~SendSync(e)
        BY <1>r, <1>s, <2>0, <2>1
      <4>5. PICK u \in SecondaryThreads : SecondarySend(u) /\ SecondaryEnd[u] = e /\ id = secondary[u].id
        BY <4>3, <4>4 DEF Sends
      <4>6. secondary[u].phase # "idle"
        BY <1>d, <4>5
      <4>7. QED BY <4>1, <4>5, <4>6 DEF SecondaryNumbered
    <3>3. QED BY <1>i, <2>0, <3>1, <3>2
  <2>2. CASE SecondarySend(t)
    <3>1. /\ secondary[t].phase = "registered" /\ secondary'[t].phase = "waiting" /\ secondary'[t].id = secondary[t].id
          /\ client[e] => secondary'[t].serial = serial[e] + 1
      BY <1>d, <2>2
    <3>2. secondary[t].id <= syncRequestID[e]
      BY <3>1 DEF SecondaryNumbered
    <3>3. ASSUME NEW id \in Nat, NEW n \in Nat, UnderWay(e, id, n)', id = secondary'[t].id
          PROVE  n = secondary'[t].serial
      <4>1. ~UnderWay(e, id, n)
        BY <3>1, <3>3 DEF SecondaryNumbered
      <4>2. Sends(e, id, n)
        BY <2>0, <3>3, <4>1, UnderWayStep
      <4>3. ~SendSync(e)
        BY <1>s, <2>0, <3>1
      <4>4. n = serial[e] + 1 /\ client[e]
        BY <4>2, <4>3 DEF Sends
      <4>5. QED BY <3>1, <4>4
    <3>4. QED BY <1>i, <2>0, <3>1, <3>2, <3>3
  <2>3. CASE SameRequest(t)
    <3>1. /\ secondary'[t].phase = secondary[t].phase /\ secondary'[t].id = secondary[t].id
          /\ secondary'[t].serial = secondary[t].serial /\ secondary[t].phase # "idle"
      BY <2>3 DEF SameRequest
    <3>2. secondary[t].id <= syncRequestID[e]
      BY <3>1 DEF SecondaryNumbered
    <3>3. ASSUME NEW id \in Nat, NEW n \in Nat, UnderWay(e, id, n)', id = secondary'[t].id
          PROVE  secondary[t].phase = "waiting" /\ n = secondary[t].serial
      <4>1. CASE UnderWay(e, id, n)
        BY <3>1, <3>3, <4>1 DEF SecondaryNumbered
      <4>2. ~Sends(e, id, n)
        <5>1. ~(SendSync(e) /\ id = syncRequestID[e] + 1)
          BY <1>i, <2>0, <3>1, <3>2, <3>3
        <5>2. ASSUME NEW u \in SecondaryThreads, SecondarySend(u), SecondaryEnd[u] = e, id = secondary[u].id PROVE FALSE
          <6>1. secondary[u].phase # "idle" /\ (u = t => secondary'[t].phase # secondary[t].phase)
            BY <1>d, <5>2
          <6>2. u # t
            BY <3>1, <6>1
          <6>3. QED BY <3>1, <3>3, <5>2, <6>1, <6>2 DEF SecondaryApart
        <5>3. QED BY <5>1, <5>2 DEF Sends
      <4>3. QED BY <2>0, <3>3, <4>1, <4>2, UnderWayStep
    <3>4. QED BY <1>i, <2>0, <3>1, <3>2, <3>3
  <2>4. QED BY <1>k, <2>1, <2>2, <2>3, SecondaryStep
<1>5. ASSUME NEW t \in SecondaryThreads, secondary'[t].phase # "idle"
      PROVE  \/ SecondaryRegister(t) /\ secondary'[t].id = syncRequestID[SecondaryEnd[t]] + 1
             \/ /\ secondary[t].phase # "idle" /\ secondary'[t].id = secondary[t].id
                /\ secondary[t].id <= syncRequestID[SecondaryEnd[t]]
  <2>1. CASE SecondarySend(t) \/ SameRequest(t)
    <3>1. secondary[t].phase # "idle" /\ secondary'[t].id = secondary[t].id
      BY <1>5, <1>d, <2>1 DEF SameRequest
    <3>2. QED BY <3>1 DEF SecondaryNumbered
  <2>2. QED BY <1>5, <1>k, <1>r, <2>1, SecondaryStep
<1>6. SecondaryApart'
  <2>1. ASSUME NEW t \in SecondaryThreads, NEW u \in SecondaryThreads, u # t, secondary'[t].phase # "idle",
               secondary'[u].phase # "idle", SecondaryEnd[u] = SecondaryEnd[t]
        PROVE  secondary'[u].id # secondary'[t].id
    <3> DEFINE e == SecondaryEnd[t]
    <3>0. e \in Ends /\ syncRequestID[e] \in Nat /\ secondary[t].id \in Nat /\ secondary[u].id \in Nat
      BY <1>t
    <3>1. ~(SecondaryRegister(t) /\ SecondaryRegister(u))
      <4> SUFFICES ASSUME SecondaryRegister(t), SecondaryRegister(u) PROVE FALSE
        OBVIOUS
      <4>1. secondary'[u] = secondary[u]
        BY <1>r, <2>1
      <4>2. QED BY <1>r, <2>1, <4>1
    <3>2. \/ SecondaryRegister(t) /\ secondary'[t].id = syncRequestID[e] + 1
          \/ /\ secondary[t].phase # "idle" /\ secondary'[t].id = secondary[t].id
             /\ secondary[t].id <= syncRequestID[e]
      BY <1>5, <2>1
    <3>3. \/ SecondaryRegister(u) /\ secondary'[u].id = syncRequestID[e] + 1
          \/ /\ secondary[u].phase # "idle" /\ secondary'[u].id = secondary[u].id
             /\ secondary[u].id <= syncRequestID[e]
      BY <1>5, <2>1
    <3>4. CASE secondary[t].phase # "idle" /\ secondary'[t].id = secondary[t].id /\
               secondary[u].phase # "idle" /\ secondary'[u].id = secondary[u].id
      BY <2>1, <3>4 DEF SecondaryApart
    <3>5. QED BY <3>0, <3>1, <3>2, <3>3, <3>4
  <2>2. ASSUME NEW t \in SecondaryThreads, secondary'[t].phase # "idle", NEW l \in RunLoops,
               NEW i \in DOMAIN stack'[l], Waits(stack'[l][i]), stack'[l][i].conn = SecondaryEnd[t]
        PROVE  stack'[l][i].msg.id # secondary'[t].id
    <3> DEFINE e == SecondaryEnd[t]
    <3>0. e \in Ends /\ syncRequestID[e] \in Nat /\ secondary[t].id \in Nat
      BY <1>t
    <3>1. \/ SecondaryRegister(t) /\ secondary'[t].id = syncRequestID[e] + 1
          \/ /\ secondary[t].phase # "idle" /\ secondary'[t].id = secondary[t].id
             /\ secondary[t].id <= syncRequestID[e]
      BY <1>5, <2>2
    <3>2. ASSUME NEW j \in DOMAIN stack[l], Waits(stack[l][j]), stack[l][j].conn = stack'[l][i].conn,
                 stack[l][j].msg = stack'[l][i].msg
          PROVE  stack'[l][i].msg.id # secondary'[t].id
      <4>1. stack[l][j].msg.id \in Nat /\ stack[l][j].msg.id <= syncRequestID[e]
        BY <2>2, <3>2, WaitBounded
      <4>2. secondary[t].phase # "idle" => stack[l][j].msg.id # secondary[t].id
        BY <2>2, <3>2 DEF SecondaryApart
      <4>3. stack[l][j].msg.id = stack'[l][i].msg.id
        BY <3>2
      <4>4. QED BY <3>0, <3>1, <4>1, <4>2, <4>3
    <3>3. CASE SendSync(e) /\ stack'[l][i].msg.id = syncRequestID[e] + 1
      <4>1. ~SecondaryRegister(t)
        BY <1>r, <1>s, <3>0, <3>3
      <4>2. QED BY <3>0, <3>1, <3>3, <4>1
    <3>4. QED BY <2>2, <3>2, <3>3, WaitOrigin
  <2>3. QED BY <2>1, <2>2 DEF SecondaryApart, Waits
<1>7. ASSUME NEW t \in SecondaryThreads, SameRequest(t), secondary'[t].reply # secondary[t].reply
      PROVE  secondary[t].phase = "waiting" /\ secondary'[t].reply = secondary[t].serial
  <2> DEFINE e == SecondaryEnd[t]
  <2>1. /\ e \in Ends /\ secondary[t].phase # "idle" /\ wire[e] # <<>> /\ Head(wire[e]).type = "reply"
        /\ Head(wire[e]).id = secondary[t].id /\ secondary'[t].reply = Head(wire[e]).serial
    BY <1>7, <1>t DEF SameRequest
  <2>2. /\ secondary[t].id \in Nat /\ Head(wire[e]).serial \in Nat
        /\ UnderWay(e, secondary[t].id, Head(wire[e]).serial)
    BY <1>t, <2>1, ReplyUnderWay DEF Wait
  <2>3. QED BY <2>1, <2>2 DEF SecondaryNumbered
<1>8. NoReplyBefore'
  <2> SUFFICES ASSUME NEW t \in SecondaryThreads, secondary'[t].phase # "waiting" PROVE secondary'[t].reply = 0
    BY DEF NoReplyBefore
  <2>1. CASE SameRequest(t)
    <3>1. secondary[t].phase # "waiting"
      BY <2>1 DEF SameRequest
    <3>2. QED BY <1>7, <2>1, <3>1 DEF NoReplyBefore
  <2>2. QED BY <1>d, <1>k, <1>r, <2>1, SecondaryStep
<1>9. ASSUME NEW t \in SecondaryThreads PROVE secondary'[t].reply \in {0, secondary'[t].serial}
  <2>1. CASE SameRequest(t)
    <3>1. secondary'[t].serial = secondary[t].serial
      BY <2>1 DEF SameRequest
    <3>2. secondary[t].reply \in {0, secondary[t].serial}
      BY DEF ReplyAnswersRequest
    <3>3. QED BY <1>7, <2>1, <3>1, <3>2
  <2>2. CASE SecondarySend(t)
    <3>1. secondary[t].reply = 0
      BY <1>d, <2>2 DEF NoReplyBefore
    <3>2. QED BY <1>d, <2>2, <3>1
  <2>3. QED BY <1>k, <1>r, <2>1, <2>2, SecondaryStep
<1>10. ASSUME NEW l \in RunLoops, NEW i \in DOMAIN stack'[l], Waits(stack'[l][i]),
              NEW j \in DOMAIN pending'[stack'[l][i].conn],
              pending'[stack'[l][i].conn][j].id = stack'[l][i].msg.id
       PROVE  pending'[stack'[l][i].conn][j].reply \in {0, stack'[l][i].msg.serial}
  <2>1. PICK e : e = stack'[l][i].conn
    OBVIOUS
  <2>2. PICK m : m = stack'[l][i].msg
    OBVIOUS
  <2>3. e \in Ends /\ m.id \in Nat
    <3>1. stack'[l] \in Seq(OwnFrame(l))
      BY <1>p DEF OwnConnections
    <3>2. stack'[l][i] \in OwnFrame(l)
      BY <1>10, <3>1
    <3>3. stack'[l][i] \in Frame /\ stack'[l][i].conn \in Ends
      BY <1>10, <3>2 DEF OwnFrame, Frame, Waits
    <3>4. stack'[l][i].msg \in Message
      BY <3>3 DEF Frame
    <3>5. QED BY <2>1, <2>2, <3>3, <3>4 DEF Message
  <2>4. j \in DOMAIN pending'[e] /\ pending'[e][j].id = m.id
    BY <1>10, <2>1, <2>2
  <2> SUFFICES pending'[e][j].reply \in {0, m.serial}
    BY <2>1, <2>2
  <2>5. syncRequestID[e] \in Nat
    BY <1>i, <2>3
  <2>6. ASSUME NEW f \in DOMAIN stack[l], Waits(stack[l][f]), stack[l][f].conn = e, stack[l][f].msg = m
        PROVE  pending'[e][j].reply \in {0, m.serial}
    <3>1. m.id <= syncRequestID[e]
      BY <2>6, WaitBounded
    <3>2. CASE \E k \in DOMAIN pending[e] : pending'[e][j] = pending[e][k]
      <4>1. PICK k \in DOMAIN pending[e] : pending'[e][j] = pending[e][k]
        BY <3>2
      <4>2. pending[e][k].reply \in {0, m.serial}
        BY <2>4, <2>6, <4>1 DEF ReplyAnswersRequest
      <4>3. QED BY <4>1, <4>2
    <3>3. CASE pending'[e][j] = [id |-> syncRequestID[e] + 1, reply |-> 0]
      BY <3>3
    <3>4. CASE /\ wire[e] # <<>> /\ Head(wire[e]).type = "reply" /\ stack' = stack
               /\ pending'[e][j].id = Head(wire[e]).id /\ pending'[e][j].reply = Head(wire[e]).serial
      <4>1. Head(wire[e]).serial \in Nat /\ UnderWay(e, m.id, Head(wire[e]).serial)
        BY <2>3, <2>4, <3>4, ReplyUnderWay
      <4>2. Head(wire[e]).serial = m.serial
        BY <2>3, <2>6, <4>1 DEF WaitNumbered
      <4>3. QED BY <3>4, <4>2
    <3>5. QED BY <2>3, <2>4, <3>2, <3>3, <3>4, PendingOrigin
  <2>7. CASE SendSync(e) /\ m.id = syncRequestID[e] + 1
    <3>1. CASE \E k \in DOMAIN pending[e] : pending'[e][j] = pending[e][k]
      <4>1. PICK k \in DOMAIN pending[e] : pending'[e][j] = pending[e][k]
        BY <3>1
      <4>2. pending[e][k].id <= syncRequestID[e]
        BY <2>3 DEF PendingMatchesStack, PendingIncrease
      <4>3. QED BY <2>4, <2>5, <2>7, <4>1, <4>2
    <3>2. CASE pending'[e][j] = [id |-> syncRequestID[e] + 1, reply |-> 0]
      BY <3>2
    <3>3. CASE stack' = stack
      <4>1. i \in DOMAIN stack[l] /\ Waits(stack[l][i]) /\ stack[l][i].conn = e /\ stack[l][i].msg = m
        BY <1>10, <2>1, <2>2, <3>3
      <4>2. QED BY <2>6, <4>1
    <3>4. QED BY <2>3, <2>4, <3>1, <3>2, <3>3, PendingOrigin
  <2>8. QED BY <1>10, <2>1, <2>2, <2>6, <2>7, WaitOrigin
<1>11. ReplyAnswersRequest'
  BY <1>9, <1>10 DEF ReplyAnswersRequest, Waits
<1>12. QED
  BY <1>1, <1>3, <1>4, <1>6, <1>8, <1>11

(* Initially nothing is under way.                                           *)
LEMMA InitRequests == Init => PendingMatchesStack /\ RequestsNumbered
<1> SUFFICES ASSUME Init PROVE PendingMatchesStack /\ RequestsNumbered
  OBVIOUS
<1>1. PendingMatchesStack
  BY EmptyFacts, LoopAssumption
     DEF Init, PendingMatchesStack, PendingIncrease, WaitsIncrease, WaitHasPending, PendingHasWait
<1>2. ASSUME NEW e \in Ends, NEW id \in Nat, NEW n \in Nat PROVE ~UnderWay(e, id, n)
  BY HasEmpty, PeerAssumption, LoopAssumption DEF Init, UnderWay
<1>3. \A t \in SecondaryThreads : secondary[t].phase = "idle" /\ secondary[t].reply = 0
  BY DEF Init, Idle
<1>4. \A l \in RunLoops : DOMAIN stack[l] = {}
  BY EmptyFacts DEF Init
<1>5. QED
  BY <1>1, <1>2, <1>3, <1>4 DEF RequestsNumbered, UnderWayBounded, WaitNumbered, SecondaryNumbered,
     SecondaryApart, NoReplyBefore, ReplyAnswersRequest

(* A reply reaches the request it answers and no other: not the next request *)
(* of the same thread after one that timed out, not one nested inside it,    *)
(* and not that of another thread of the same connection.                    *)
THEOREM RepliesAnswer == Spec => []ReplyAnswersRequest
<1> DEFINE Inv == Types /\ OwnConnections /\ MarkedIsCount /\ PendingMatchesStack /\ RequestsNumbered
<1>1. Init => Inv
  BY InitTypes, InitRequests
<1>2. Inv /\ [Next]_vars => Inv'
  BY TypesStep, OwnStep, MarkedStep, PendingStep, NumberedStep
<1>3. Inv => ReplyAnswersRequest
  BY DEF RequestsNumbered
<1>4. QED
  BY <1>1, <1>2, <1>3, PTL DEF Spec

-----------------------------------------------------------------------------
(* Wakeups, in processes whose handlers spin no event loop of their own: the *)
(* run loop runs functions on an empty stack only, so that messages kept for *)
(* another connection are put back on an empty stack too.                    *)
ShallowStack(s) ==
    \A k \in DOMAIN s :
        /\ s[k].at # "nested"
        /\ s[k].at = "sleep" => k = Len(s)
        /\ s[k].at \in {"swap", "dispatch"} /\ s[k].conn # NoEnd => k = 1
Waitless(s) == \A k \in DOMAIN s : ~Waits(s[k])

Shallow == \A l \in RunLoops : ShallowStack(stack[l])

(* The last frame of a shallow stack and the rest of it.                     *)
LEMMA ShallowFront ==
  ASSUME NEW s \in Seq(Frame), s # <<>>, ShallowStack(s)
  PROVE  /\ ShallowStack(Front(s)) /\ (Waitless(s) => Waitless(Front(s)))
         /\ \A k \in DOMAIN Front(s) : Front(s)[k].at # "sleep"
         /\ s[Len(s)].at # "nested"
         /\ s[Len(s)].at \in {"swap", "dispatch"} /\ s[Len(s)].conn # NoEnd => Front(s) = <<>>
<1> DEFINE r == Front(s)
<1>1. /\ r \in Seq(Frame) /\ Len(r) = Len(s) - 1 /\ DOMAIN r = 1 .. Len(s) - 1 /\ DOMAIN s = 1 .. Len(s)
      /\ Len(s) \in Nat /\ Len(s) > 0 /\ \A i \in 1 .. Len(s) - 1 : r[i] = s[i]
  BY FrontFacts
<1> HIDE DEF r
<1>2. \A k \in DOMAIN r : k \in DOMAIN s /\ r[k] = s[k] /\ k # Len(s)
  BY <1>1
<1>3. \A k \in DOMAIN r : r[k].at # "sleep"
  BY <1>2 DEF ShallowStack
<1>4. ShallowStack(r)
  BY <1>2, <1>3 DEF ShallowStack
<1>5. Waitless(s) => Waitless(r)
  BY <1>2 DEF Waitless
<1>6. Len(s) \in DOMAIN s
  BY <1>1
<1>7. s[Len(s)].at # "nested"
  BY <1>6 DEF ShallowStack
<1>8. ASSUME s[Len(s)].at \in {"swap", "dispatch"}, s[Len(s)].conn # NoEnd PROVE r = <<>>
  <2>1. Len(s) = 1
    BY <1>6, <1>8 DEF ShallowStack
  <2>2. Len(r) = 0
    BY <1>1, <2>1
  <2>3. QED BY <1>1, <2>2, EmptySeq
<1>9. QED BY <1>3, <1>4, <1>5, <1>7, <1>8 DEF r

(* Pushing a frame on one that does not sleep.                               *)
LEMMA ShallowPush ==
  ASSUME NEW s \in Seq(Frame), NEW f \in Frame, ShallowStack(s), \A k \in DOMAIN s : s[k].at # "sleep",
         f.at # "nested", f.at \in {"swap", "dispatch"} /\ f.conn # NoEnd => s = <<>>
  PROVE  /\ ShallowStack(Append(s, f)) /\ Append(s, f) \in Seq(Frame) /\ Append(s, f) # <<>>
         /\ Append(s, f)[Len(Append(s, f))] = f
         /\ ~Waits(f) /\ Waitless(s) => Waitless(Append(s, f))
         /\ f.at # "sleep" => \A k \in DOMAIN Append(s, f) : Append(s, f)[k].at # "sleep"
<1> DEFINE t == Append(s, f)
<1>1. /\ t \in Seq(Frame) /\ Len(t) = Len(s) + 1 /\ DOMAIN t = 1 .. Len(s) + 1 /\ DOMAIN s = 1 .. Len(s)
      /\ Len(s) \in Nat /\ \A i \in 1 .. Len(s) : t[i] = s[i]
      /\ t[Len(s) + 1] = f
  BY AppendFacts
<1>2. s = <<>> => Len(s) = 0
  BY EmptyFacts
<1>3. t # <<>>
  BY <1>1, EmptyFacts
<1> HIDE DEF t
<1>4. \A k \in DOMAIN t : (k \in DOMAIN s /\ t[k] = s[k]) \/ (k = Len(t) /\ t[k] = f)
  BY <1>1
<1>5. t[Len(t)] = f
  BY <1>1
<1>6. f.at \in {"swap", "dispatch"} /\ f.conn # NoEnd => Len(t) = 1
  BY <1>1, <1>2
<1>7. ShallowStack(t)
  BY <1>4, <1>6 DEF ShallowStack
<1>8. ~Waits(f) /\ Waitless(s) => Waitless(t)
  BY <1>4 DEF Waitless
<1>9. f.at # "sleep" => \A k \in DOMAIN t : t[k].at # "sleep"
  BY <1>4
<1>10. QED BY <1>1, <1>3, <1>5, <1>7, <1>8, <1>9 DEF t

(* No frame sleeps below one that does not.                                  *)
LEMMA NoneSleeps ==
  ASSUME NEW s \in Seq(Frame), ShallowStack(s), s # <<>> => s[Len(s)].at # "sleep"
  PROVE  \A k \in DOMAIN s : s[k].at # "sleep"
<1>1. s # <<>> => DOMAIN s # {}
  OBVIOUS
<1>2. QED BY <1>1 DEF ShallowStack

(* Somebody is about to signal the semaphore of run loop l.                  *)
WakingSome(l) == \E d \in Ends : LoopOf[d] = l /\ waking[d]

(* Messages that wait to be dispatched are signalled, or taken next, or no   *)
(* frame waits; and a frame that sleeps knows all the rest.                  *)
WakeupDue(l) ==
    toDispatch[l] # <<>> => semaphore[l] \/ WakingSome(l) \/ At(l, {"swap"}) \/ Waitless(stack[l])
SleepsInformed(l) ==
    At(l, {"sleep"}) => \/ semaphore[l]
                        \/ Last(pending[Top(l).conn]).reply = 0 /\ shouldWait[Top(l).conn]

Wakeups == Shallow /\ \A l \in RunLoops : WakeupDue(l) /\ SleepsInformed(l)

(* What becomes of run loop l.                                               *)
WakeupsAt(l) == ShallowStack(stack'[l]) /\ WakeupDue(l)' /\ SleepsInformed(l)'

(* The client thread of l stands still and no signal is lost.                *)
LEMMA LoopRests ==
  ASSUME Wakeups, NEW l \in RunLoops, stack'[l] = stack[l],
         toDispatch'[l] # <<>> => toDispatch[l] # <<>> \/ semaphore'[l] \/ WakingSome(l)',
         semaphore[l] => semaphore'[l],
         WakingSome(l) => WakingSome(l)' \/ semaphore'[l],
         NEW e, At(l, {"sleep"}) => e = Top(l).conn,
         At(l, {"sleep"}) => \/ semaphore'[l]
                             \/ /\ Last(pending'[e]).reply = Last(pending[e]).reply
                                /\ shouldWait'[e] = shouldWait[e]
  PROVE  WakeupsAt(l)
<1>1. ShallowStack(stack[l]) /\ WakeupDue(l) /\ SleepsInformed(l)
  BY DEF Wakeups, Shallow
<1>2. /\ At(l, {"swap"})' <=> At(l, {"swap"})
      /\ At(l, {"sleep"})' <=> At(l, {"sleep"})
  BY DEF At, Top
<1>3. Top(l)' = Top(l)
  BY DEF Top
<1>4. WakeupDue(l)'
  BY <1>1, <1>2 DEF WakeupDue
<1>5. SleepsInformed(l)'
  <2> SUFFICES ASSUME At(l, {"sleep"}), ~semaphore'[l]
               PROVE  Last(pending'[e]).reply = 0 /\ shouldWait'[e]
    BY <1>2, <1>3 DEF SleepsInformed
  <2>1. Last(pending[e]).reply = 0 /\ shouldWait[e]
    BY <1>1 DEF SleepsInformed
  <2>2. QED BY <2>1
<1>6. QED BY <1>1, <1>4, <1>5 DEF WakeupsAt

(* A step of the client thread of k leaves the other run loops alone.        *)
LEMMA OthersRest ==
  ASSUME Types, OwnConnections, Wakeups, NEW k \in RunLoops, NEW l \in RunLoops, l # k,
         stack'[l] = stack[l], toDispatch'[l] = toDispatch[l], semaphore'[l] = semaphore[l],
         \A d \in Ends : LoopOf[d] # k =>
             waking'[d] = waking[d] /\ pending'[d] = pending[d] /\ shouldWait'[d] = shouldWait[d]
  PROVE  WakeupsAt(l)
<1>1. PICK e : e = Top(l).conn
  OBVIOUS
<1>2. At(l, {"sleep"}) => e \in Ends /\ LoopOf[e] = l
  BY <1>1, OwnTop DEF At
<1>3. WakingSome(l) => WakingSome(l)'
  BY DEF WakingSome
<1>4. At(l, {"sleep"}) => pending'[e] = pending[e] /\ shouldWait'[e] = shouldWait[e]
  BY <1>2
<1>5. QED BY <1>1, <1>3, <1>4, LoopRests

(* A step of the client thread itself: it is about to take the messages, or  *)
(* there are none, or no frame waits, or nothing about the signals changes.  *)
LEMMA LoopMoves ==
  ASSUME Wakeups, NEW k \in RunLoops, ShallowStack(stack'[k]), At(k, {"sleep"})' => SleepsInformed(k)',
         \/ At(k, {"swap"})' \/ toDispatch'[k] = <<>> \/ Waitless(stack'[k])
         \/ /\ toDispatch' = toDispatch /\ semaphore' = semaphore /\ waking' = waking
            /\ ~At(k, {"swap"}) /\ (Waitless(stack[k]) => Waitless(stack'[k]))
  PROVE  WakeupsAt(k)
<1>1. WakeupDue(k)
  BY DEF Wakeups
<1>2. WakeupDue(k)'
  BY <1>1 DEF WakeupDue, WakingSome
<1>3. SleepsInformed(k)'
  BY DEF SleepsInformed
<1>4. QED BY <1>2, <1>3 DEF WakeupsAt

(* Replacing the frame at the top of the stack, or popping it.               *)
LEMMA ShallowTurn ==
  ASSUME Types, Wakeups, NEW k \in RunLoops, stack[k] # <<>>, NEW f \in Frame, f.at # "nested",
         f.at \in {"swap", "dispatch"} /\ f.conn # NoEnd =>
             Top(k).at \in {"swap", "dispatch"} /\ Top(k).conn # NoEnd
  PROVE  LET s == Append(Front(stack[k]), f)
         IN  /\ s \in Seq(Frame) /\ s # <<>> /\ ShallowStack(s) /\ s[Len(s)] = f
             /\ ~Waits(f) /\ Waitless(stack[k]) => Waitless(s)
             /\ f.at # "sleep" => \A j \in DOMAIN s : s[j].at # "sleep"
<1>1. stack[k] \in Seq(Frame) /\ ShallowStack(stack[k])
  BY DEF Types, LoopTypes, Wakeups, Shallow
<1> DEFINE r == Front(stack[k])
<1>2. r \in Seq(Frame)
  BY <1>1, FrontFacts
<1>3. /\ ShallowStack(r) /\ (Waitless(stack[k]) => Waitless(r)) /\ \A j \in DOMAIN r : r[j].at # "sleep"
      /\ f.at \in {"swap", "dispatch"} /\ f.conn # NoEnd => r = <<>>
  BY <1>1, ShallowFront DEF Top
<1> HIDE DEF r
<1>4. QED BY <1>2, <1>3, ShallowPush DEF r

(* The stack below the last frame: nobody sleeps in it.                      *)
LEMMA ShallowPop ==
  ASSUME Types, Wakeups, NEW k \in RunLoops, stack[k] # <<>>
  PROVE  LET s == Front(stack[k])
         IN  /\ s \in Seq(Frame) /\ ShallowStack(s) /\ (Waitless(stack[k]) => Waitless(s))
             /\ \A j \in DOMAIN s : s[j].at # "sleep"
             /\ Top(k).at \in {"swap", "dispatch"} /\ Top(k).conn # NoEnd => Waitless(s)
<1>1. stack[k] \in Seq(Frame) /\ ShallowStack(stack[k])
  BY DEF Types, LoopTypes, Wakeups, Shallow
<1> DEFINE r == Front(stack[k])
<1>2. r \in Seq(Frame)
  BY <1>1, FrontFacts
<1>3. /\ ShallowStack(r) /\ (Waitless(stack[k]) => Waitless(r)) /\ \A j \in DOMAIN r : r[j].at # "sleep"
      /\ Top(k).at \in {"swap", "dispatch"} /\ Top(k).conn # NoEnd => r = <<>>
  BY <1>1, ShallowFront DEF Top
<1>4. r = <<>> => Waitless(r)
  BY EmptyFacts DEF Waitless
<1>5. QED BY <1>2, <1>3, <1>4

(* A stack without a sleeping frame.                                         *)
LEMMA Awake ==
  ASSUME NEW k \in RunLoops, NEW s \in Seq(Frame), \A j \in DOMAIN s : s[j].at # "sleep", stack'[k] = s
  PROVE  ~At(k, {"sleep"})'
<1>1. s # <<>> => Len(s) \in DOMAIN s
  OBVIOUS
<1>2. QED BY <1>1 DEF At, Top

(* dispatchMessage() on a stack without a sleeping frame.                    *)
LEMMA DispatchWakeups ==
  ASSUME Types, Wakeups, NEW k \in RunLoops, NEW e \in Ends, NEW m \in Message, NEW s \in Seq(Frame),
         dispatchMessage(k, e, m, s), ShallowStack(s), \A j \in DOMAIN s : s[j].at # "sleep",
         toDispatch' = toDispatch, semaphore' = semaphore, waking' = waking,
         ~At(k, {"swap"}), Waitless(stack[k]) => Waitless(s)
  PROVE  WakeupsAt(k) /\ \A l \in RunLoops : l # k => stack'[l] = stack[l]
<1> DEFINE f == NewFrame("handle", e, m)
<1>1. f \in Frame /\ f.at = "handle"
  <2>1. f \in Frame
    BY NewFrameType
  <2>2. QED BY <2>1 DEF NewFrame
<1>2. stack' = [stack EXCEPT ![k] = s] \/ stack' = [stack EXCEPT ![k] = Append(s, f)]
  BY DEF dispatchMessage
<1> HIDE DEF f
<1>3. /\ ShallowStack(Append(s, f)) /\ Append(s, f) \in Seq(Frame)
      /\ Waitless(s) => Waitless(Append(s, f))
      /\ \A j \in DOMAIN Append(s, f) : Append(s, f)[j].at # "sleep"
  BY <1>1, ShallowPush DEF Waits
<1>4. PICK t \in {s, Append(s, f)} : stack' = [stack EXCEPT ![k] = t]
  BY <1>2
<1>5. /\ t \in Seq(Frame) /\ ShallowStack(t) /\ (Waitless(stack[k]) => Waitless(t))
      /\ \A j \in DOMAIN t : t[j].at # "sleep"
  BY <1>3, <1>4
<1>6. stack'[k] = t /\ \A l \in RunLoops : l # k => stack'[l] = stack[l]
  BY <1>4 DEF Types, LoopTypes
<1>7. ~At(k, {"sleep"})'
  BY <1>5, <1>6, Awake
<1>8. QED BY <1>5, <1>6, <1>7, LoopMoves

(* Every step keeps the wakeups, if no handler spins a loop.                 *)
LEMMA WakeupsStep ==
  ASSUME MayNest = {}, Types, OwnConnections, PendingMatchesStack, Wakeups, [Next]_vars
  PROVE  Wakeups'
<1> SUFFICES \A l \in RunLoops : WakeupsAt(l)
  BY DEF Wakeups, WakeupsAt, Shallow
<1> USE DEF endVars, queueVars, loopVars
<1>t. /\ toDispatch \in [RunLoops -> Seq(ConnectionAndMessage)] /\ semaphore \in [RunLoops -> BOOLEAN]
      /\ stack \in [RunLoops -> Seq(Frame)] /\ pending \in [Ends -> Seq(PendingReply)]
      /\ waking \in [Ends -> BOOLEAN] /\ shouldWait \in [Ends -> BOOLEAN]
      /\ \A d \in Ends : LoopOf[d] \in RunLoops
  BY LoopAssumption DEF Types, LoopTypes, QueueTypes, FlagTypes
<1>n. \A k \in RunLoops : ~At(k, {"nested"})
  <2> SUFFICES ASSUME NEW k \in RunLoops, At(k, {"nested"}) PROVE FALSE
    OBVIOUS
  <2>1. stack[k] \in Seq(Frame) /\ stack[k] # <<>> /\ Top(k).at = "nested"
    BY <1>t DEF At
  <2>2. QED BY <2>1 DEF Top, Wakeups, Shallow, ShallowStack
<1>e. \A k \in RunLoops : InRunLoop(k) => stack[k] = <<>>
  BY <1>n DEF InRunLoop
<1>1. ASSUME UNCHANGED <<stack, toDispatch, semaphore, waking, pending, shouldWait>>
      PROVE  \A l \in RunLoops : WakeupsAt(l)
  <2>1. \A l \in RunLoops : WakingSome(l)' <=> WakingSome(l)
    BY <1>1 DEF WakingSome
  <2> TAKE l \in RunLoops
  <2>2. PICK e : e = Top(l).conn
    OBVIOUS
  <2>3. QED BY <1>1, <2>1, <2>2, LoopRests
<1>2. ASSUME NEW k \in RunLoops, ProcessExits(k) PROVE \A l \in RunLoops : WakeupsAt(l)
  <2>1. \A l \in RunLoops : l # k =>
            stack'[l] = stack[l] /\ toDispatch'[l] = toDispatch[l] /\ semaphore'[l] = semaphore[l]
    BY <1>2, <1>t DEF ProcessExits
  <2>2. \A d \in Ends : LoopOf[d] # k =>
            waking'[d] = waking[d] /\ pending'[d] = pending[d] /\ shouldWait'[d] = shouldWait[d]
    BY <1>2, <1>t DEF ProcessExits
  <2>3. \A l \in RunLoops : l # k => WakeupsAt(l)
    BY <2>1, <2>2, OthersRest
  <2>4. stack'[k] = <<>> /\ toDispatch'[k] = <<>>
    BY <1>2, <1>t DEF ProcessExits
  <2>5. ShallowStack(<<>>) /\ ~At(k, {"sleep"})'
    BY <2>4, EmptyFacts DEF ShallowStack, At
  <2>6. WakeupsAt(k)
    BY <2>4, <2>5, LoopMoves
  <2>7. QED BY <2>3, <2>6
<1>3. ASSUME NEW k \in RunLoops, UNCHANGED <<waking, shouldWait>>,
             \A l \in RunLoops : l # k =>
                 stack'[l] = stack[l] /\ toDispatch'[l] = toDispatch[l] /\ semaphore'[l] = semaphore[l],
             \A d \in Ends : LoopOf[d] # k => pending'[d] = pending[d],
             WakeupsAt(k)
      PROVE  \A l \in RunLoops : WakeupsAt(l)
  BY <1>3, OthersRest
<1>4. ASSUME NEW d \in Ends, SendSync(d) PROVE \A l \in RunLoops : WakeupsAt(l)
  <2> DEFINE k == LoopOf[d]
             m == [type |-> "sync", id |-> syncRequestID[d] + 1,
                   serial |-> serial[d] + 1, flagged |-> Flagged(d)]
             f == NewFrame("check", d, m)
             g == NewFrame("swap", NoEnd, NoMessage)
             s == Append(stack[k], f)
  <2>1. m \in Message /\ k \in RunLoops /\ stack[k] \in Seq(Frame) /\ ShallowStack(stack[k])
    BY <1>t DEF Message, Flagged, Types, CountTypes, Wakeups, Shallow
  <2>2. /\ UNCHANGED <<waking, shouldWait, toDispatch, semaphore>>
        /\ stack' = [stack EXCEPT ![k] = Append(s, g)]
        /\ \A c \in Ends : c # d => pending'[c] = pending[c]
    BY <1>4, <1>t DEF SendSync
  <2>3. f \in Frame /\ g \in Frame /\ f.at = "check" /\ g.at = "swap" /\ g.conn = NoEnd
    <3>1. f \in Frame /\ g \in Frame
      BY <2>1, NewFrameType, NoMessageType
    <3>2. QED BY <3>1 DEF NewFrame
  <2>4. \A j \in DOMAIN stack[k] : stack[k][j].at # "sleep"
    <3>1. stack[k] # <<>> => stack[k][Len(stack[k])].at # "sleep"
      BY <1>4 DEF SendSync, InClient, At, Top
    <3>2. QED BY <2>1, <3>1, NoneSleeps
  <2> HIDE DEF f, g, m, k
  <2>5. s \in Seq(Frame) /\ ShallowStack(s) /\ \A j \in DOMAIN s : s[j].at # "sleep"
    BY <2>1, <2>3, <2>4, ShallowPush
  <2> HIDE DEF s
  <2>6. Append(s, g) \in Seq(Frame) /\ ShallowStack(Append(s, g)) /\ Append(s, g) # <<>> /\ Append(s, g)[Len(Append(s, g))] = g
    BY <2>3, <2>5, ShallowPush
  <2>7. stack'[k] = Append(s, g) /\ \A l \in RunLoops : l # k => stack'[l] = stack[l]
    BY <1>t, <2>1, <2>2
  <2>8. At(k, {"swap"})' /\ ~At(k, {"sleep"})'
    BY <2>3, <2>6, <2>7 DEF At, Top
  <2>9. WakeupsAt(k)
    BY <2>1, <2>6, <2>7, <2>8, LoopMoves
  <2>10. \A c \in Ends : LoopOf[c] # k => pending'[c] = pending[c]
    BY <2>2 DEF k
  <2>11. QED BY <1>3, <2>1, <2>2, <2>7, <2>9, <2>10
<1>5. ASSUME NEW k \in RunLoops, HandlerReturns(k) PROVE \A l \in RunLoops : WakeupsAt(l)
  <2>1. UNCHANGED <<waking, shouldWait, toDispatch, semaphore, pending>> /\ At(k, {"handle"})
    BY <1>5 DEF HandlerReturns
  <2>2. stack[k] # <<>> /\ ~At(k, {"swap"})
    BY <2>1 DEF At
  <2> DEFINE s == Front(stack[k])
  <2>3. stack'[k] = s /\ \A l \in RunLoops : l # k => stack'[l] = stack[l]
    BY <1>5, <1>t DEF HandlerReturns
  <2>4. s \in Seq(Frame) /\ ShallowStack(s) /\ (Waitless(stack[k]) => Waitless(s)) /\ \A j \in DOMAIN s : s[j].at # "sleep"
    BY <2>2, ShallowPop
  <2> HIDE DEF s
  <2>5. ~At(k, {"sleep"})'
    BY <2>3, <2>4, Awake
  <2>6. WakeupsAt(k)
    BY <2>1, <2>2, <2>3, <2>4, <2>5, LoopMoves
  <2>7. QED BY <1>3, <2>1, <2>3, <2>6
<1>6. ASSUME NEW k \in RunLoops, dispatchMessagesForConnection(k) PROVE \A l \in RunLoops : WakeupsAt(l)
  <2> DEFINE d == Head(functions[k]).conn
             f == NewFrame("swap", d, NoMessage)
             s == Append(<<>>, f)
  <2>1. Head(functions[k]) \in Function
    BY <1>6, TailFacts DEF dispatchMessagesForConnection, NextFunction, Types, LoopTypes
  <2>2. f \in Frame /\ f.at = "swap"
    <3>1. d \in Ends
      BY <2>1 DEF Function
    <3>2. f \in Frame
      BY <3>1, NewFrameType, NoMessageType
    <3>3. QED BY <3>2 DEF NewFrame
  <2>3. stack[k] = <<>>
    BY <1>6, <1>e DEF dispatchMessagesForConnection, NextFunction
  <2>4. /\ UNCHANGED <<waking, shouldWait, toDispatch, semaphore, pending>>
        /\ stack'[k] = s /\ \A l \in RunLoops : l # k => stack'[l] = stack[l]
    BY <1>6, <1>t, <2>3 DEF dispatchMessagesForConnection
  <2>5. <<>> \in Seq(Frame) /\ ShallowStack(<<>>) /\ \A j \in DOMAIN <<>> : <<>>[j].at # "sleep"
    BY EmptyFacts DEF ShallowStack
  <2> HIDE DEF f
  <2>6. s \in Seq(Frame) /\ ShallowStack(s) /\ s # <<>> /\ s[Len(s)] = f
    BY <2>2, <2>5, ShallowPush
  <2> HIDE DEF s
  <2>7. At(k, {"swap"})' /\ ~At(k, {"sleep"})'
    BY <2>2, <2>4, <2>6 DEF At, Top
  <2>8. WakeupsAt(k)
    BY <2>4, <2>6, <2>7, LoopMoves
  <2>9. QED BY <1>3, <2>4, <2>8
<1>7. ASSUME NEW k \in RunLoops, dispatchOneMessage(k) PROVE \A l \in RunLoops : WakeupsAt(l)
  <2>0. PICK d : d = Head(functions[k]).conn
    OBVIOUS
  <2> DEFINE m == Head(incoming[d])
  <2>1. Head(functions[k]) \in Function
    BY <1>7, TailFacts DEF dispatchOneMessage, NextFunction, Types, LoopTypes
  <2>2. d \in Ends
    BY <2>0, <2>1 DEF Function
  <2>3. UNCHANGED <<toDispatch, waking, semaphore, pending, shouldWait>>
    BY <1>7 DEF dispatchOneMessage
  <2>4. CASE incoming[d] = <<>>
    <3>1. UNCHANGED stack
      BY <1>7, <2>0, <2>4 DEF dispatchOneMessage
    <3>2. QED BY <1>1, <2>3, <3>1
  <2>5. CASE incoming[d] # <<>>
    <3>1. dispatchMessage(k, d, m, stack[k])
      BY <1>7, <2>0, <2>5 DEF dispatchOneMessage
    <3>2. m \in Message
      BY <2>2, <2>5, TailFacts DEF Types, QueueTypes
    <3>3. stack[k] = <<>>
      BY <1>7, <1>e DEF dispatchOneMessage, NextFunction
    <3>4. /\ stack[k] \in Seq(Frame) /\ ShallowStack(stack[k]) /\ \A j \in DOMAIN stack[k] : stack[k][j].at # "sleep"
          /\ ~At(k, {"swap"})
      BY <3>3, EmptyFacts DEF ShallowStack, At
    <3> HIDE DEF m
    <3>5. WakeupsAt(k) /\ \A l \in RunLoops : l # k => stack'[l] = stack[l]
      BY <2>2, <2>3, <3>1, <3>2, <3>4, DispatchWakeups
    <3>6. QED BY <1>3, <2>3, <3>5
  <2>6. QED BY <2>4, <2>5
<1>8. ASSUME NEW k \in RunLoops, SwapMessages(k) PROVE \A l \in RunLoops : WakeupsAt(l)
  <2> DEFINE f == [Top(k) EXCEPT !.at = "dispatch", !.todo = toDispatch[k]]
             s == Append(Front(stack[k]), f)
  <2>1. stack[k] # <<>> /\ Top(k).at = "swap" /\ Top(k) \in Frame
    BY <1>8, OwnTop DEF SwapMessages, At
  <2>2. f \in Frame /\ f.at = "dispatch" /\ f.conn = Top(k).conn
    BY <1>t, <2>1 DEF Frame
  <2>3. /\ stack'[k] = s /\ toDispatch'[k] = <<>>
        /\ \A l \in RunLoops : l # k => stack'[l] = stack[l] /\ toDispatch'[l] = toDispatch[l]
        /\ UNCHANGED <<waking, semaphore, pending, shouldWait>>
    BY <1>8, <1>t DEF SwapMessages
  <2> HIDE DEF f
  <2>4. s \in Seq(Frame) /\ ShallowStack(s) /\ \A j \in DOMAIN s : s[j].at # "sleep"
    BY <2>1, <2>2, ShallowTurn
  <2> HIDE DEF s
  <2>5. ~At(k, {"sleep"})'
    BY <2>3, <2>4, Awake
  <2>6. WakeupsAt(k)
    BY <2>3, <2>4, <2>5, LoopMoves
  <2>7. QED BY <1>3, <2>3, <2>6
<1>9. ASSUME NEW k \in RunLoops, DispatchNext(k) PROVE \A l \in RunLoops : WakeupsAt(l)
  <2> DEFINE f == Top(k)
             x == Head(f.todo)
             g == [f EXCEPT !.todo = Tail(@)]
             h == [f EXCEPT !.todo = Tail(@), !.putBack = Append(@, x)]
  <2>1. stack[k] # <<>> /\ f.at = "dispatch" /\ f \in Frame /\ f.todo # <<>> /\ ~At(k, {"swap"})
    BY <1>9, OwnTop DEF DispatchNext, At
  <2>2. f.todo \in Seq(ConnectionAndMessage) /\ f.putBack \in Seq(ConnectionAndMessage)
    BY <2>1 DEF Frame
  <2>3. x \in ConnectionAndMessage /\ Tail(f.todo) \in Seq(ConnectionAndMessage)
        /\ Append(f.putBack, x) \in Seq(ConnectionAndMessage)
    BY <2>1, <2>2, TailFacts, AppendFacts
  <2>4. /\ g \in Frame /\ g.at = "dispatch" /\ g.conn = f.conn
        /\ h \in Frame /\ h.at = "dispatch" /\ h.conn = f.conn
    BY <2>1, <2>3 DEF Frame
  <2>5. UNCHANGED <<toDispatch, waking, semaphore, pending, shouldWait>>
    BY <1>9 DEF DispatchNext
  <2>6. \/ stack' = [stack EXCEPT ![k] = Append(Front(stack[k]), h)]
        \/ dispatchMessage(k, x.conn, x.msg, Append(Front(stack[k]), g))
    BY <1>9 DEF DispatchNext
  <2>7. x.conn \in Ends /\ x.msg \in Message
    BY <2>3 DEF ConnectionAndMessage
  <2> HIDE DEF g, h, x
  <2>8. CASE stack' = [stack EXCEPT ![k] = Append(Front(stack[k]), h)]
    <3> DEFINE s == Append(Front(stack[k]), h)
    <3>1. stack'[k] = s /\ \A l \in RunLoops : l # k => stack'[l] = stack[l]
      BY <2>8, <1>t
    <3>2. s \in Seq(Frame) /\ ShallowStack(s) /\ (Waitless(stack[k]) => Waitless(s)) /\ \A j \in DOMAIN s : s[j].at # "sleep"
      BY <2>1, <2>4, ShallowTurn DEF Waits
    <3> HIDE DEF s
    <3>3. ~At(k, {"sleep"})'
      BY <3>1, <3>2, Awake
    <3>4. WakeupsAt(k)
      BY <2>1, <2>5, <3>1, <3>2, <3>3, LoopMoves
    <3>5. QED BY <1>3, <2>5, <3>1, <3>4
  <2>9. CASE dispatchMessage(k, x.conn, x.msg, Append(Front(stack[k]), g))
    <3> DEFINE s == Append(Front(stack[k]), g)
    <3>1. s \in Seq(Frame) /\ ShallowStack(s) /\ (Waitless(stack[k]) => Waitless(s)) /\ \A j \in DOMAIN s : s[j].at # "sleep"
      BY <2>1, <2>4, ShallowTurn DEF Waits
    <3>2. dispatchMessage(k, x.conn, x.msg, s)
      BY <2>9
    <3> HIDE DEF s
    <3>3. WakeupsAt(k) /\ \A l \in RunLoops : l # k => stack'[l] = stack[l]
      BY <2>1, <2>5, <2>7, <3>1, <3>2, DispatchWakeups
    <3>4. QED BY <1>3, <2>5, <3>3
  <2>10. QED BY <2>6, <2>8, <2>9
<1>10. ASSUME NEW k \in RunLoops, EndDispatchMessages(k) PROVE \A l \in RunLoops : WakeupsAt(l)
  <2> DEFINE f == Top(k)
             s == Front(stack[k])
  <2>1. stack[k] # <<>> /\ f.at = "dispatch" /\ f \in OwnFrame(k) /\ ~At(k, {"swap"})
    BY <1>10, OwnTop DEF EndDispatchMessages, At
  <2>2. /\ stack'[k] = s /\ toDispatch'[k] = toDispatch[k] \o f.putBack
        /\ \A l \in RunLoops : l # k => stack'[l] = stack[l] /\ toDispatch'[l] = toDispatch[l]
        /\ UNCHANGED <<waking, semaphore, pending, shouldWait>>
    BY <1>10, <1>t DEF EndDispatchMessages
  <2>3. /\ s \in Seq(Frame) /\ ShallowStack(s) /\ (Waitless(stack[k]) => Waitless(s))
        /\ \A j \in DOMAIN s : s[j].at # "sleep"
        /\ f.conn # NoEnd => Waitless(s)
    BY <2>1, ShallowPop
  <2> HIDE DEF s
  <2>4. ~At(k, {"sleep"})'
    BY <2>2, <2>3, Awake
  <2>5. CASE f.conn # NoEnd
    <3>1. WakeupsAt(k)
      BY <2>2, <2>3, <2>4, <2>5, LoopMoves
    <3>2. QED BY <1>3, <2>2, <3>1
  <2>6. CASE f.conn = NoEnd
    <3>1. f.putBack = <<>>
      BY <2>1, <2>6 DEF OwnFrame
    <3>2. toDispatch'[k] = toDispatch[k]
      BY <2>2, <3>1, <1>t
    <3>3. toDispatch' = toDispatch
      BY <1>10, <1>t, <3>2 DEF EndDispatchMessages
    <3>4. WakeupsAt(k)
      BY <2>1, <2>2, <2>3, <2>4, <3>3, LoopMoves
    <3>5. QED BY <1>3, <2>2, <3>4
  <2>7. QED BY <2>5, <2>6
<1>11. ASSUME NEW k \in RunLoops, EndsWait(k) PROVE \A l \in RunLoops : WakeupsAt(l)
  <2> DEFINE s == Front(stack[k])
             d == Top(k).conn
  <2>1. stack[k] # <<>> /\ ~At(k, {"swap"}) /\ d \in Ends /\ LoopOf[d] = k
    BY <1>11, OwnTop DEF EndsWait, At
  <2>2. /\ stack'[k] = s /\ \A l \in RunLoops : l # k => stack'[l] = stack[l]
        /\ UNCHANGED <<waking, semaphore, toDispatch, shouldWait>>
        /\ \A c \in Ends : c # d => pending'[c] = pending[c]
    BY <1>11, <1>t, <2>1 DEF EndsWait, PopPendingReply, removeLastPendingReply
  <2>3. s \in Seq(Frame) /\ ShallowStack(s) /\ (Waitless(stack[k]) => Waitless(s)) /\ \A j \in DOMAIN s : s[j].at # "sleep"
    BY <2>1, ShallowPop
  <2> HIDE DEF s
  <2>4. ~At(k, {"sleep"})'
    BY <2>2, <2>3, Awake
  <2>5. WakeupsAt(k)
    BY <2>1, <2>2, <2>3, <2>4, LoopMoves
  <2>6. \A c \in Ends : LoopOf[c] # k => pending'[c] = pending[c]
    BY <2>1, <2>2
  <2>7. QED BY <1>3, <2>2, <2>5, <2>6
<1>12. ASSUME NEW k \in RunLoops, Sleep(k) PROVE \A l \in RunLoops : WakeupsAt(l)
  <2>0. PICK d : d = Top(k).conn
    OBVIOUS
  <2> DEFINE f == [Top(k) EXCEPT !.at = "sleep"]
             s == Append(Front(stack[k]), f)
  <2>1. stack[k] # <<>> /\ Top(k).at = "check" /\ Top(k) \in Frame /\ ~At(k, {"swap"})
    BY <1>12, OwnTop DEF Sleep, At
  <2>2. f \in Frame /\ f.at = "sleep" /\ f.conn = d
    BY <2>0, <2>1 DEF Frame
  <2>3. /\ stack'[k] = s /\ \A l \in RunLoops : l # k => stack'[l] = stack[l]
        /\ UNCHANGED <<waking, semaphore, toDispatch, shouldWait, pending>>
        /\ Last(pending[d]).reply = 0 /\ shouldWait[d]
    BY <1>12, <1>t, <2>0 DEF Sleep
  <2> HIDE DEF f
  <2>4. s \in Seq(Frame) /\ ShallowStack(s) /\ s # <<>> /\ s[Len(s)] = f
    BY <2>1, <2>2, ShallowTurn
  <2> HIDE DEF s
  <2>5. Top(k)' = f
    BY <2>3, <2>4 DEF Top
  <2>6. SleepsInformed(k)'
    BY <2>2, <2>3, <2>5 DEF SleepsInformed
  <2>7. ~Waitless(stack[k])
    <3>1. stack[k] \in Seq(Frame)
      BY <1>t
    <3>2. QED BY <2>1, <3>1 DEF Waitless, Waits, Top
  <2>8. WakeupsAt(k)
    BY <2>1, <2>3, <2>4, <2>6, <2>7, LoopMoves
  <2>9. QED BY <1>3, <2>3, <2>8
<1>13. ASSUME NEW k \in RunLoops, WakeUp(k) PROVE \A l \in RunLoops : WakeupsAt(l)
  <2> DEFINE f == [Top(k) EXCEPT !.at = "check"]
             g == NewFrame("swap", NoEnd, NoMessage)
             s == Append(Front(stack[k]), f)
  <2>1. stack[k] # <<>> /\ Top(k).at = "sleep" /\ Top(k) \in Frame
    BY <1>13, OwnTop DEF WakeUp, At
  <2>2. f \in Frame /\ f.at = "check" /\ g \in Frame /\ g.at = "swap" /\ g.conn = NoEnd
    <3>1. f \in Frame /\ f.at = "check"
      BY <2>1 DEF Frame
    <3>2. g \in Frame
      BY NewFrameType, NoMessageType
    <3>3. QED BY <3>1, <3>2 DEF NewFrame
  <2>3. /\ stack'[k] = Append(s, g)
        /\ \A l \in RunLoops : l # k => stack'[l] = stack[l] /\ semaphore'[l] = semaphore[l]
        /\ UNCHANGED <<waking, toDispatch, shouldWait, pending>>
    BY <1>13, <1>t DEF WakeUp
  <2> HIDE DEF f, g
  <2>4. s \in Seq(Frame) /\ ShallowStack(s) /\ \A j \in DOMAIN s : s[j].at # "sleep"
    BY <2>1, <2>2, ShallowTurn
  <2> HIDE DEF s
  <2>5. ShallowStack(Append(s, g)) /\ Append(s, g) # <<>> /\ Append(s, g)[Len(Append(s, g))] = g
    BY <2>2, <2>4, ShallowPush
  <2>6. At(k, {"swap"})' /\ ~At(k, {"sleep"})'
    BY <2>2, <2>3, <2>5 DEF At, Top
  <2>7. WakeupsAt(k)
    BY <2>3, <2>5, <2>6, LoopMoves
  <2>8. QED BY <1>3, <2>3, <2>7
<1>14. ASSUME NEW d \in Ends, ReceiveReply(d) PROVE \A l \in RunLoops : WakeupsAt(l)
  <2> TAKE l \in RunLoops
  <2>0. PICK c : c = Top(l).conn
    OBVIOUS
  <2>1. PICK i \in DOMAIN pending[d] :
            /\ SetReply(d, i, Head(wire[d]))
            /\ semaphore' = [semaphore EXCEPT ![LoopOf[d]] = @ \/ WakesClient(d, i)]
    BY <1>14 DEF ReceiveReply
  <2>2. UNCHANGED <<stack, toDispatch, waking, shouldWait>>
    BY <1>14 DEF ReceiveReply
  <2>3. (semaphore[l] => semaphore'[l]) /\ (i = Len(pending[d]) => semaphore'[LoopOf[d]])
    BY <1>t, <2>1 DEF WakesClient
  <2>4. ASSUME At(l, {"sleep"}), ~semaphore'[l] PROVE Last(pending'[c]).reply = Last(pending[c]).reply
    <3>1. At(l, {"check", "sleep"})
      BY <2>4 DEF At
    <3>2. c \in Ends /\ LoopOf[c] = l /\ Len(pending[c]) \in DOMAIN pending[c]
      BY <2>0, <3>1, LastIsOurs
    <3>3. CASE c # d
      BY <1>t, <2>1, <3>2, <3>3 DEF SetReply
    <3>4. CASE c = d
      <4>1. i # Len(pending[d])
        BY <2>3, <2>4, <3>2, <3>4
      <4>2. pending[d] \in Seq(PendingReply) /\ pending'[d] = [pending[d] EXCEPT ![i].reply = Head(wire[d]).serial]
        BY <1>t, <2>1 DEF SetReply
      <4>3. Len(pending'[d]) = Len(pending[d]) /\ pending'[d][Len(pending[d])] = pending[d][Len(pending[d])]
        BY <3>2, <3>4, <4>1, <4>2
      <4>4. QED BY <3>4, <4>3 DEF Last
    <3>5. QED BY <3>3, <3>4
  <2>5. WakingSome(l) => WakingSome(l)'
    BY <2>2 DEF WakingSome
  <2>6. QED BY <2>0, <2>2, <2>3, <2>4, <2>5, LoopRests
<1>15. ASSUME NEW d \in Ends, ReceiveFlagged(d) PROVE \A l \in RunLoops : WakeupsAt(l)
  <2> TAKE l \in RunLoops
  <2>0. PICK c : c = Top(l).conn
    OBVIOUS
  <2>1. /\ UNCHANGED <<stack, semaphore, pending, shouldWait>>
        /\ \A k \in RunLoops : k # LoopOf[d] => toDispatch'[k] = toDispatch[k]
        /\ waking'[d] /\ \A p \in Ends : waking[p] => waking'[p]
    BY <1>15, <1>t DEF ReceiveFlagged
  <2>2. WakingSome(l) => WakingSome(l)'
    BY <2>1 DEF WakingSome
  <2>3. l = LoopOf[d] => WakingSome(l)'
    BY <2>1 DEF WakingSome
  <2>4. QED BY <2>0, <2>1, <2>2, <2>3, LoopRests
<1>16. ASSUME NEW d \in Ends, wakeUpClientRunLoop(d) PROVE \A l \in RunLoops : WakeupsAt(l)
  <2> TAKE l \in RunLoops
  <2>0. PICK c : c = Top(l).conn
    OBVIOUS
  <2>1. /\ UNCHANGED <<stack, toDispatch, pending, shouldWait>>
        /\ semaphore'[LoopOf[d]] /\ (semaphore[l] => semaphore'[l])
        /\ \A p \in Ends : p # d => waking'[p] = waking[p]
    BY <1>16, <1>t DEF wakeUpClientRunLoop
  <2>2. WakingSome(l) => WakingSome(l)' \/ semaphore'[l]
    BY <2>1 DEF WakingSome
  <2>3. QED BY <2>0, <2>1, <2>2, LoopRests
<1>17. ASSUME NEW d \in Ends, connectionDidClose(d) PROVE \A l \in RunLoops : WakeupsAt(l)
  <2> TAKE l \in RunLoops
  <2>0. PICK c : c = Top(l).conn
    OBVIOUS
  <2>1. /\ UNCHANGED <<stack, toDispatch, pending, waking>>
        /\ (semaphore[l] => semaphore'[l]) /\ (pending[d] # <<>> => semaphore'[LoopOf[d]])
        /\ \A p \in Ends : p # d => shouldWait'[p] = shouldWait[p]
    BY <1>17, <1>t DEF connectionDidClose, SomeoneWaits
  <2>2. ASSUME At(l, {"sleep"}), ~semaphore'[l] PROVE shouldWait'[c] = shouldWait[c]
    <3>1. At(l, {"check", "sleep"})
      BY <2>2 DEF At
    <3>2. c \in Ends /\ LoopOf[c] = l /\ pending[c] # <<>>
      BY <2>0, <3>1, LastIsOurs
    <3>3. QED BY <2>1, <2>2, <3>2
  <2>3. WakingSome(l) => WakingSome(l)'
    BY <2>1 DEF WakingSome
  <2>4. QED BY <2>0, <2>1, <2>2, <2>3, LoopRests
<1>18. ASSUME NEW k \in RunLoops, SyncSendFails(k, Top(k).conn), At(k, {"check", "sleep"})
       PROVE  \A l \in RunLoops : WakeupsAt(l)
  BY <1>2, <1>11, <1>18 DEF SyncSendFails, EndsWait
<1>19. ASSUME NEW k \in RunLoops, ClientThread(k) \/ EnterNestedLoop(k) \/ TimeOut(k) \/ Crash(k)
       PROVE  \A l \in RunLoops : WakeupsAt(l)
  <2>1. CASE performWork(k)
    <3>1. CASE dispatchConnectionDidClose(k)
      BY <1>1, <3>1 DEF dispatchConnectionDidClose
    <3>2. QED BY <1>6, <1>7, <2>1, <3>1 DEF performWork
  <2>2. CASE ReturnReply(k)
    <3>1. EndsWait(k)
      BY <2>2 DEF ReturnReply, EndsWait, At
    <3>2. QED BY <1>11, <3>1
  <2>3. CASE GiveUp(k)
    <3>1. SyncSendFails(k, Top(k).conn) /\ At(k, {"check", "sleep"})
      BY <2>3 DEF GiveUp, At
    <3>2. QED BY <1>18, <3>1
  <2>4. CASE TimeOut(k)
    <3>1. SyncSendFails(k, Top(k).conn) /\ At(k, {"check", "sleep"})
      BY <2>4 DEF TimeOut, At
    <3>2. QED BY <1>18, <3>1
  <2>5. CASE ExitNestedLoop(k)
    BY <1>n, <2>5 DEF ExitNestedLoop
  <2>6. CASE EnterNestedLoop(k)
    BY <2>6 DEF EnterNestedLoop
  <2>7. CASE Crash(k)
    BY <1>2, <2>7 DEF Crash
  <2>8. QED
    BY <1>5, <1>8, <1>9, <1>10, <1>12, <1>13, <1>19, <2>1, <2>2, <2>3, <2>4, <2>5, <2>6, <2>7 DEF ClientThread
<1>20. ASSUME NEW d \in Ends, ConnectionQueue(d) \/ ClientDecides(d) PROVE \A l \in RunLoops : WakeupsAt(l)
  <2>1. CASE sendOutgoingMessages(d)
    BY <1>1, <2>1 DEF sendOutgoingMessages
  <2>2. CASE PlatformInvalidate(d)
    BY <1>1, <2>2 DEF PlatformInvalidate
  <2>3. CASE ReceiveOtherReply(d)
    BY <1>1, <2>3 DEF ReceiveOtherReply
  <2>4. CASE ReceiveUnflagged(d)
    BY <1>1, <2>4 DEF ReceiveUnflagged
  <2>5. CASE Invalidate(d)
    BY <1>1, <2>5 DEF Invalidate
  <2>6. ASSUME NEW ask \in BOOLEAN, SendAsync(d, ask) PROVE \A l \in RunLoops : WakeupsAt(l)
    BY <1>1, <2>6 DEF SendAsync
  <2>7. CASE SendSyncFails(d)
    BY <1>2, <1>t, <2>7 DEF SendSyncFails
  <2>8. QED
    BY <1>4, <1>14, <1>15, <1>16, <1>17, <1>20, <2>1, <2>2, <2>3, <2>4, <2>5, <2>6, <2>7
       DEF ConnectionQueue, ClientDecides
<1>21. ASSUME NEW t \in SecondaryThreads, SecondaryRegister(t) \/ SecondarySend(t) \/ SecondaryReturn(t)
       PROVE  \A l \in RunLoops : WakeupsAt(l)
  BY <1>1, <1>21 DEF SecondaryRegister, SecondarySend, SecondaryReturn
<1>22. CASE UNCHANGED vars
  BY <1>1, <1>22 DEF vars
<1>23. QED BY <1>19, <1>20, <1>21, <1>22 DEF Next

(* Without nested event loops no wakeup is lost: a client thread that sleeps *)
(* in waitForSyncReply with a message to dispatch, a reply or a closed       *)
(* connection to look at has been signalled, or a work queue is about to.    *)
THEOREM WakeupsArrive == ASSUME MayNest = {} PROVE Spec => []NoLostWakeup
<1> DEFINE Inv == Types /\ OwnConnections /\ PendingMatchesStack /\ Wakeups
<1>1. Init => Inv
  <2>1. Init => Wakeups
    BY EmptyFacts DEF Init, Wakeups, Shallow, ShallowStack, WakeupDue, SleepsInformed, At
  <2>2. QED BY <2>1, InitTypes, InitRequests
<1>2. Inv /\ [Next]_vars => Inv'
  BY TypesStep, OwnStep, PendingStep, WakeupsStep
<1>3. Inv => NoLostWakeup
  <2> SUFFICES ASSUME Inv, NEW l \in RunLoops, At(l, {"sleep"})
               PROVE  \/ toDispatch[l] = <<>> /\ Last(pending[Top(l).conn]).reply = 0 /\ shouldWait[Top(l).conn]
                      \/ semaphore[l] \/ WakingSome(l)
    BY DEF NoLostWakeup, WakingSome
  <2>1. stack[l] \in Seq(Frame) /\ stack[l] # <<>> /\ Top(l).at = "sleep"
    BY DEF Types, LoopTypes, At
  <2>2. ~Waitless(stack[l]) /\ ~At(l, {"swap"})
    BY <2>1 DEF Waitless, Waits, Top, At
  <2>3. WakeupDue(l) /\ SleepsInformed(l)
    BY DEF Wakeups
  <2>4. QED BY <2>2, <2>3 DEF WakeupDue, SleepsInformed
<1>4. QED
  BY <1>1, <1>2, <1>3, PTL DEF Spec
=============================================================================
