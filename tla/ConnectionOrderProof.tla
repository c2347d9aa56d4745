------------------------ MODULE ConnectionOrderProof ------------------------
(***************************************************************************)
(* Proofs about Connection: a message reaches its handler at most once;    *)
(* and, where no handler spins an event loop, what is received is          *)
(* scheduled, the close of a connection is reported last, and only a       *)
(* flagged message is handled before one that was sent earlier. So each    *)
(* direction of a connection is a MessageChannel. Where besides nobody     *)
(* invalidates and processes form a hierarchy, client threads that wait    *)
(* for replies do not deadlock.                                            *)
(***************************************************************************)
EXTENDS ConnectionReplyProof

-----------------------------------------------------------------------------
(* A vector of messages: what it holds, and that it holds it once.           *)
Key(x) == <<x.conn, x.msg.serial>>
Keys(v) == {Key(v[i]) : i \in DOMAIN v}
Distinct(v) == \A i, j \in DOMAIN v : Key(v[i]) = Key(v[j]) => i = j

(* An empty vector holds nothing.                                            *)
LEMMA KeysEmpty == Keys(<<>>) = {} /\ Distinct(<<>>)
BY EmptyFacts DEF Keys, Distinct

(* Append adds the key of the new item, which must be new.                   *)
LEMMA KeysAppend ==
  ASSUME NEW T, NEW v \in Seq(T), NEW x \in T
  PROVE  /\ Keys(Append(v, x)) = Keys(v) \cup {Key(x)}
         /\ Distinct(v) /\ Key(x) \notin Keys(v) => Distinct(Append(v, x))
<1> DEFINE w == Append(v, x)
<1>1. /\ DOMAIN w = 1 .. Len(v) + 1 /\ DOMAIN v = 1 .. Len(v) /\ Len(v) \in Nat
      /\ \A i \in 1 .. Len(v) : w[i] = v[i]
      /\ w[Len(v) + 1] = x
  BY AppendFacts
<1> HIDE DEF w
<1>2. \A i \in DOMAIN w : (i \in DOMAIN v /\ w[i] = v[i]) \/ (i = Len(v) + 1 /\ w[i] = x)
  BY <1>1
<1>3. DOMAIN v \subseteq DOMAIN w /\ Len(v) + 1 \in DOMAIN w
  BY <1>1
<1>4. Keys(w) \subseteq Keys(v) \cup {Key(x)}
  BY <1>2 DEF Keys
<1>5. Keys(v) \cup {Key(x)} \subseteq Keys(w)
  BY <1>1, <1>3 DEF Keys
<1>6. ASSUME Distinct(v), Key(x) \notin Keys(v) PROVE Distinct(w)
  <2> SUFFICES ASSUME NEW i \in DOMAIN w, NEW j \in DOMAIN w, Key(w[i]) = Key(w[j]) PROVE i = j
    BY DEF Distinct
  <2>1. CASE i \in DOMAIN v /\ j \in DOMAIN v /\ w[i] = v[i] /\ w[j] = v[j]
    BY <1>6, <2>1 DEF Distinct
  <2>2. CASE i \in DOMAIN v /\ w[i] = v[i] /\ w[j] = x
    BY <1>6, <2>2 DEF Keys
  <2>3. CASE j \in DOMAIN v /\ w[j] = v[j] /\ w[i] = x
    BY <1>6, <2>3 DEF Keys
  <2>4. QED BY <1>2, <2>1, <2>2, <2>3
<1>7. QED BY <1>4, <1>5, <1>6 DEF w

(* Tail removes the key of the first item.                                   *)
LEMMA KeysTail ==
  ASSUME NEW T, NEW v \in Seq(T), v # <<>>
  PROVE  /\ Keys(v) = Keys(Tail(v)) \cup {Key(Head(v))}
         /\ Distinct(v) => Distinct(Tail(v)) /\ Key(Head(v)) \notin Keys(Tail(v))
<1> DEFINE w == Tail(v)
           x == Head(v)
<1>1. /\ DOMAIN w = 1 .. Len(v) - 1 /\ DOMAIN v = 1 .. Len(v) /\ Len(v) \in Nat /\ Len(v) > 0
      /\ \A i \in 1 .. Len(v) - 1 : w[i] = v[i + 1]
      /\ x = v[1]
  BY TailFacts
<1> HIDE DEF w, x
<1>2. \A i \in DOMAIN w : i + 1 \in DOMAIN v /\ i + 1 # 1 /\ w[i] = v[i + 1]
  BY <1>1
<1>3. \A i \in DOMAIN v : (i = 1 /\ v[i] = x) \/ (i - 1 \in DOMAIN w /\ w[i - 1] = v[i])
  BY <1>1
<1>4. 1 \in DOMAIN v
  BY <1>1
<1>5. Keys(w) \cup {Key(x)} \subseteq Keys(v)
  BY <1>1, <1>2, <1>4 DEF Keys
<1>6. Keys(v) \subseteq Keys(w) \cup {Key(x)}
  BY <1>3 DEF Keys
<1>7. ASSUME Distinct(v) PROVE Distinct(w)
  <2> SUFFICES ASSUME NEW i \in DOMAIN w, NEW j \in DOMAIN w, Key(w[i]) = Key(w[j]) PROVE i = j
    BY DEF Distinct
  <2>1. i + 1 = j + 1
    BY <1>2, <1>7 DEF Distinct
  <2>2. QED BY <1>1, <2>1
<1>8. ASSUME Distinct(v), Key(x) \in Keys(w) PROVE FALSE
  <2>1. PICK i \in DOMAIN w : Key(w[i]) = Key(x)
    BY <1>8 DEF Keys
  <2>2. i + 1 \in DOMAIN v /\ Key(v[i + 1]) = Key(v[1])
    BY <1>1, <1>2, <2>1
  <2>3. i + 1 = 1
    BY <1>4, <1>8, <2>2 DEF Distinct
  <2>4. QED BY <1>2, <2>1, <2>3
<1>9. QED BY <1>5, <1>6, <1>7, <1>8 DEF w, x

(* Concatenation unites what two vectors hold.                               *)
LEMMA KeysConcat ==
  ASSUME NEW T, NEW v \in Seq(T), NEW w \in Seq(T)
  PROVE  /\ Keys(v \o w) \subseteq Keys(v) \cup Keys(w)
         /\ Distinct(v) /\ Distinct(w) /\ Keys(v) \cap Keys(w) = {} => Distinct(v \o w)
<1> DEFINE u == v \o w
<1>1. /\ DOMAIN u = 1 .. Len(v) + Len(w) /\ DOMAIN v = 1 .. Len(v) /\ Len(v) \in Nat
      /\ DOMAIN w = 1 .. Len(w) /\ Len(w) \in Nat
      /\ \A i \in 1 .. Len(v) : u[i] = v[i]
      /\ \A i \in 1 .. Len(w) : u[Len(v) + i] = w[i]
  BY ConcatFacts
<1> HIDE DEF u
<1>2. ASSUME NEW i \in DOMAIN u
      PROVE  (i \in DOMAIN v /\ u[i] = v[i]) \/ (i - Len(v) \in DOMAIN w /\ u[i] = w[i - Len(v)])
  <2>1. CASE i <= Len(v)
    BY <1>1, <2>1
  <2>2. CASE ~(i <= Len(v))
    <3>1. i - Len(v) \in 1 .. Len(w) /\ Len(v) + (i - Len(v)) = i
      BY <1>1, <2>2
    <3>2. QED BY <1>1, <3>1
  <2>3. QED BY <2>1, <2>2
<1>3. Keys(u) \subseteq Keys(v) \cup Keys(w)
  BY <1>2 DEF Keys
<1>4. ASSUME Distinct(v), Distinct(w), Keys(v) \cap Keys(w) = {} PROVE Distinct(u)
  <2> SUFFICES ASSUME NEW i \in DOMAIN u, NEW j \in DOMAIN u, Key(u[i]) = Key(u[j]) PROVE i = j
    BY DEF Distinct
  <2>1. CASE i \in DOMAIN v /\ u[i] = v[i] /\ j \in DOMAIN v /\ u[j] = v[j]
    BY <1>4, <2>1 DEF Distinct
  <2>2. CASE /\ i - Len(v) \in DOMAIN w /\ u[i] = w[i - Len(v)]
             /\ j - Len(v) \in DOMAIN w /\ u[j] = w[j - Len(v)]
    <3>1. i - Len(v) = j - Len(v)
      BY <1>4, <2>2 DEF Distinct
    <3>2. QED BY <1>1, <3>1
  <2>3. CASE i \in DOMAIN v /\ u[i] = v[i] /\ j - Len(v) \in DOMAIN w /\ u[j] = w[j - Len(v)]
    BY <1>4, <2>3 DEF Keys
  <2>4. CASE j \in DOMAIN v /\ u[j] = v[j] /\ i - Len(v) \in DOMAIN w /\ u[i] = w[i - Len(v)]
    BY <1>4, <2>4 DEF Keys
  <2>5. QED BY <1>2, <2>1, <2>2, <2>3, <2>4
<1>5. QED BY <1>3, <1>4 DEF u

-----------------------------------------------------------------------------
(* The vectors of the frames of a stack.                                     *)
FrameKeys(f) == Keys(f.todo) \cup Keys(f.putBack)
DistinctFrame(f) == Distinct(f.todo) /\ Distinct(f.putBack) /\ Keys(f.todo) \cap Keys(f.putBack) = {}

StackKeys(s) == UNION {FrameKeys(s[i]) : i \in DOMAIN s}
ApartStack(s) ==
    /\ \A i \in DOMAIN s : DistinctFrame(s[i])
    /\ \A i, j \in DOMAIN s : i # j => FrameKeys(s[i]) \cap FrameKeys(s[j]) = {}

(* A stack with one more frame holds what that frame holds besides.          *)
LEMMA StackAppend ==
  ASSUME NEW s \in Seq(Frame), NEW f \in Frame
  PROVE  /\ StackKeys(Append(s, f)) = StackKeys(s) \cup FrameKeys(f)
         /\ ApartStack(Append(s, f)) <=>
                ApartStack(s) /\ DistinctFrame(f) /\ FrameKeys(f) \cap StackKeys(s) = {}
<1> DEFINE t == Append(s, f)
           n == Len(s) + 1
<1>1. /\ DOMAIN t = 1 .. Len(s) + 1 /\ DOMAIN s = 1 .. Len(s) /\ Len(s) \in Nat
      /\ \A i \in 1 .. Len(s) : t[i] = s[i]
      /\ t[Len(s) + 1] = f
  BY AppendFacts
<1>2. /\ \A i \in DOMAIN t : (i \in DOMAIN s /\ t[i] = s[i]) \/ (i = n /\ t[i] = f)
      /\ \A i \in DOMAIN s : i \in DOMAIN t /\ t[i] = s[i] /\ i # n
      /\ n \in DOMAIN t /\ t[n] = f
  BY <1>1
<1> HIDE DEF t, n
<1>3. StackKeys(t) = StackKeys(s) \cup FrameKeys(f)
  BY <1>2 DEF StackKeys
<1>4. ASSUME ApartStack(t) PROVE ApartStack(s) /\ DistinctFrame(f) /\ FrameKeys(f) \cap StackKeys(s) = {}
  <2>1. \A i \in DOMAIN s : DistinctFrame(s[i])
    BY <1>2, <1>4 DEF ApartStack
  <2>2. \A i, j \in DOMAIN s : i # j => FrameKeys(s[i]) \cap FrameKeys(s[j]) = {}
    BY <1>2, <1>4 DEF ApartStack
  <2>3. DistinctFrame(f)
    BY <1>2, <1>4 DEF ApartStack
  <2>4. \A i \in DOMAIN s : FrameKeys(f) \cap FrameKeys(s[i]) = {}
    BY <1>2, <1>4 DEF ApartStack
  <2>5. FrameKeys(f) \cap StackKeys(s) = {}
    BY <2>4 DEF StackKeys
  <2>6. QED BY <2>1, <2>2, <2>3, <2>5 DEF ApartStack
<1>5. ASSUME ApartStack(s), DistinctFrame(f), FrameKeys(f) \cap StackKeys(s) = {} PROVE ApartStack(t)
  <2>1. \A i \in DOMAIN t : DistinctFrame(t[i])
    BY <1>2, <1>5 DEF ApartStack
  <2>2. \A i \in DOMAIN s : FrameKeys(f) \cap FrameKeys(s[i]) = {}
    BY <1>5 DEF StackKeys
  <2>3. ASSUME NEW i \in DOMAIN t, NEW j \in DOMAIN t, i # j PROVE FrameKeys(t[i]) \cap FrameKeys(t[j]) = {}
    <3>1. CASE i \in DOMAIN s /\ j \in DOMAIN s
      BY <1>2, <1>5, <2>3, <3>1 DEF ApartStack
    <3>2. CASE i \in DOMAIN s /\ t[j] = f
      BY <1>2, <2>2, <3>2
    <3>3. CASE t[i] = f /\ j \in DOMAIN s
      BY <1>2, <2>2, <3>3
    <3>4. QED BY <1>2, <2>3, <3>1, <3>2, <3>3
  <2>4. QED BY <2>1, <2>3 DEF ApartStack
<1>6. QED BY <1>3, <1>4, <1>5 DEF t

(* A stack is its front and its last frame.                                  *)
LEMMA FrontAndLast ==
  ASSUME NEW s \in Seq(Frame), s # <<>>
  PROVE  /\ Front(s) \in Seq(Frame) /\ s[Len(s)] \in Frame
         /\ s = Append(Front(s), s[Len(s)])
<1>1. /\ Front(s) \in Seq(Frame) /\ s[Len(s)] \in Frame /\ Len(Front(s)) = Len(s) - 1
      /\ Len(s) \in Nat /\ Len(s) > 0
      /\ \A i \in 1 .. Len(s) - 1 : Front(s)[i] = s[i]
  BY FrontFacts
<1> DEFINE t == Append(Front(s), s[Len(s)])
<1>2. /\ t \in Seq(Frame) /\ Len(t) = Len(Front(s)) + 1
      /\ \A i \in 1 .. Len(Front(s)) : t[i] = Front(s)[i]
      /\ t[Len(Front(s)) + 1] = s[Len(s)]
  BY <1>1, AppendFacts
<1> HIDE DEF t
<1>3. Len(t) = Len(s) /\ t[Len(s)] = s[Len(s)] /\ \A i \in 1 .. Len(s) - 1 : t[i] = s[i]
  BY <1>1, <1>2
<1>4. \A i \in 1 .. Len(s) : t[i] = s[i]
  BY <1>1, <1>3
<1>5. t = s
  BY <1>1, <1>2, <1>3, <1>4, SeqEqual
<1>6. QED BY <1>1, <1>5 DEF t

(* The shared queue q and the vectors on stack s of one run loop.            *)
HeldIn(q, s) == Keys(q) \cup StackKeys(s)
ApartIn(q, s) == Distinct(q) /\ ApartStack(s) /\ Keys(q) \cap StackKeys(s) = {}

(* The last frame of a stack and the rest of it.                             *)
LEMMA SplitHeld ==
  ASSUME NEW s \in Seq(Frame), s # <<>>, NEW q, ApartIn(q, s), NEW f, f = s[Len(s)]
  PROVE  /\ Front(s) \in Seq(Frame) /\ f \in Frame
         /\ StackKeys(s) = StackKeys(Front(s)) \cup FrameKeys(f)
         /\ ApartStack(Front(s)) /\ DistinctFrame(f) /\ FrameKeys(f) \cap StackKeys(Front(s)) = {}
         /\ Distinct(q) /\ Keys(q) \cap StackKeys(Front(s)) = {} /\ Keys(q) \cap FrameKeys(f) = {}
<1>1. Front(s) \in Seq(Frame) /\ f \in Frame /\ s = Append(Front(s), f)
  BY FrontAndLast
<1> DEFINE r == Front(s)
<1> HIDE DEF r
<1>2. r \in Seq(Frame) /\ s = Append(r, f)
  BY <1>1 DEF r
<1>3. /\ StackKeys(s) = StackKeys(r) \cup FrameKeys(f)
      /\ ApartStack(s) <=> ApartStack(r) /\ DistinctFrame(f) /\ FrameKeys(f) \cap StackKeys(r) = {}
  BY <1>1, <1>2, StackAppend
<1>4. ApartStack(s) /\ Distinct(q) /\ Keys(q) \cap StackKeys(s) = {}
  BY DEF ApartIn
<1>5. QED BY <1>1, <1>3, <1>4 DEF r

(* A frame that is just pushed holds nothing.                                *)
LEMMA EmptyFrameKeys ==
  ASSUME NEW f, f.todo = <<>>, f.putBack = <<>>
  PROVE  FrameKeys(f) = {} /\ DistinctFrame(f)
BY KeysEmpty DEF FrameKeys, DistinctFrame

(* Pushing a frame without vectors changes nothing.                          *)
LEMMA PushHeld ==
  ASSUME NEW q, NEW s \in Seq(Frame), ApartIn(q, s), NEW f \in Frame, f.todo = <<>>, f.putBack = <<>>
  PROVE  ApartIn(q, Append(s, f)) /\ HeldIn(q, Append(s, f)) = HeldIn(q, s)
BY EmptyFrameKeys, StackAppend DEF ApartIn, HeldIn

(* Popping one loses what it holds.                                          *)
LEMMA PopHeld ==
  ASSUME NEW q, NEW s \in Seq(Frame), s # <<>>, ApartIn(q, s)
  PROVE  ApartIn(q, Front(s)) /\ HeldIn(q, Front(s)) \subseteq HeldIn(q, s)
<1>1. PICK f : f = s[Len(s)]
  OBVIOUS
<1>2. QED BY <1>1, SplitHeld DEF ApartIn, HeldIn

(* The last frame may keep less.                                             *)
LEMMA TurnHeld ==
  ASSUME NEW q, NEW s \in Seq(Frame), s # <<>>, ApartIn(q, s), NEW f \in Frame, DistinctFrame(f),
         FrameKeys(f) \subseteq FrameKeys(s[Len(s)])
  PROVE  ApartIn(q, Append(Front(s), f)) /\ HeldIn(q, Append(Front(s), f)) \subseteq HeldIn(q, s)
<1>1. PICK g : g = s[Len(s)]
  OBVIOUS
<1> DEFINE r == Front(s)
<1>2. /\ r \in Seq(Frame) /\ StackKeys(s) = StackKeys(r) \cup FrameKeys(g) /\ ApartStack(r)
      /\ FrameKeys(g) \cap StackKeys(r) = {} /\ Distinct(q) /\ Keys(q) \cap StackKeys(r) = {}
      /\ Keys(q) \cap FrameKeys(g) = {} /\ FrameKeys(f) \subseteq FrameKeys(g)
  BY <1>1, SplitHeld
<1> HIDE DEF r
<1>3. /\ StackKeys(Append(r, f)) = StackKeys(r) \cup FrameKeys(f)
      /\ ApartStack(Append(r, f)) <=> ApartStack(r) /\ DistinctFrame(f) /\ FrameKeys(f) \cap StackKeys(r) = {}
  BY <1>2, StackAppend
<1>4. QED BY <1>2, <1>3 DEF ApartIn, HeldIn, r

(* SwapMessages: the queue becomes the vector of the last frame.             *)
LEMMA SwapHeld ==
  ASSUME NEW q, NEW s \in Seq(Frame), s # <<>>, ApartIn(q, s), NEW f \in Frame, f.todo = q, f.putBack = <<>>
  PROVE  ApartIn(<<>>, Append(Front(s), f)) /\ HeldIn(<<>>, Append(Front(s), f)) \subseteq HeldIn(q, s)
<1>1. PICK g : g = s[Len(s)]
  OBVIOUS
<1> DEFINE r == Front(s)
<1>2. /\ r \in Seq(Frame) /\ StackKeys(s) = StackKeys(r) \cup FrameKeys(g) /\ ApartStack(r)
      /\ Distinct(q) /\ Keys(q) \cap StackKeys(r) = {}
  BY <1>1, SplitHeld
<1> HIDE DEF r
<1>3. /\ StackKeys(Append(r, f)) = StackKeys(r) \cup FrameKeys(f)
      /\ ApartStack(Append(r, f)) <=> ApartStack(r) /\ DistinctFrame(f) /\ FrameKeys(f) \cap StackKeys(r) = {}
  BY <1>2, StackAppend
<1>4. FrameKeys(f) = Keys(q) /\ DistinctFrame(f)
  BY <1>2, KeysEmpty DEF FrameKeys, DistinctFrame
<1>5. QED BY <1>2, <1>3, <1>4, KeysEmpty DEF ApartIn, HeldIn, r

(* EndDispatchMessages: what was kept goes back to the queue.                *)
LEMMA EndHeld ==
  ASSUME NEW q \in Seq(ConnectionAndMessage), NEW s \in Seq(Frame), s # <<>>, ApartIn(q, s), NEW f, f = s[Len(s)]
  PROVE  /\ ApartIn(q \o f.putBack, Front(s))
         /\ HeldIn(q \o f.putBack, Front(s)) \subseteq HeldIn(q, s)
<1> DEFINE r == Front(s)
           b == f.putBack
<1>2. /\ r \in Seq(Frame) /\ StackKeys(s) = StackKeys(r) \cup FrameKeys(f) /\ ApartStack(r) /\ f \in Frame
      /\ FrameKeys(f) \cap StackKeys(r) = {} /\ Distinct(q) /\ Keys(q) \cap StackKeys(r) = {}
      /\ Keys(q) \cap FrameKeys(f) = {} /\ DistinctFrame(f)
  BY SplitHeld
<1>3. b \in Seq(ConnectionAndMessage) /\ Distinct(b) /\ Keys(b) \subseteq FrameKeys(f)
  BY <1>2 DEF Frame, FrameKeys, DistinctFrame
<1> HIDE DEF r, b
<1>4. Keys(q \o b) \subseteq Keys(q) \cup Keys(b) /\ Distinct(q \o b)
  <2>1. Keys(q) \cap Keys(b) = {}
    BY <1>2, <1>3
  <2>2. QED BY <1>2, <1>3, <2>1, KeysConcat
<1>5. QED BY <1>2, <1>3, <1>4 DEF ApartIn, HeldIn, r, b

(* ReceiveFlagged: a new item is appended to the queue.                      *)
LEMMA ReceiveHeld ==
  ASSUME NEW q \in Seq(ConnectionAndMessage), NEW s, ApartIn(q, s), NEW x \in ConnectionAndMessage,
         Key(x) \notin HeldIn(q, s)
  PROVE  ApartIn(Append(q, x), s) /\ HeldIn(Append(q, x), s) = HeldIn(q, s) \cup {Key(x)}
BY KeysAppend DEF ApartIn, HeldIn

(* DispatchNext takes the next item out of the last frame ...                *)
LEMMA TakeHeld ==
  ASSUME NEW q, NEW s \in Seq(Frame), s # <<>>, ApartIn(q, s), NEW f \in Frame, NEW g, g = s[Len(s)],
         g.todo # <<>>, f.todo = Tail(g.todo), f.putBack = g.putBack
  PROVE  /\ ApartIn(q, Append(Front(s), f)) /\ HeldIn(q, Append(Front(s), f)) \subseteq HeldIn(q, s)
         /\ Key(Head(g.todo)) \in HeldIn(q, s) /\ Key(Head(g.todo)) \notin HeldIn(q, Append(Front(s), f))
<1> DEFINE r == Front(s)
           k == Key(Head(g.todo))
<1>2. /\ r \in Seq(Frame) /\ StackKeys(s) = StackKeys(r) \cup FrameKeys(g) /\ ApartStack(r) /\ g \in Frame
      /\ FrameKeys(g) \cap StackKeys(r) = {} /\ Distinct(q) /\ Keys(q) \cap StackKeys(r) = {}
      /\ Keys(q) \cap FrameKeys(g) = {} /\ DistinctFrame(g)
  BY SplitHeld
<1>3. g.todo \in Seq(ConnectionAndMessage)
  BY <1>2 DEF Frame
<1>4. /\ Keys(g.todo) = Keys(f.todo) \cup {k}
      /\ Distinct(g.todo) => Distinct(f.todo) /\ k \notin Keys(f.todo)
  BY <1>3, KeysTail
<1> HIDE DEF r, k
<1>5. DistinctFrame(f) /\ FrameKeys(f) \subseteq FrameKeys(g) /\ k \in FrameKeys(g) /\ k \notin FrameKeys(f)
  BY <1>2, <1>4 DEF FrameKeys, DistinctFrame
<1>6. /\ StackKeys(Append(r, f)) = StackKeys(r) \cup FrameKeys(f)
      /\ ApartStack(Append(r, f)) <=> ApartStack(r) /\ DistinctFrame(f) /\ FrameKeys(f) \cap StackKeys(r) = {}
  BY <1>2, StackAppend
<1>7. QED BY <1>2, <1>5, <1>6 DEF ApartIn, HeldIn, r, k

(* ... or moves it to the vector of what is kept.                            *)
LEMMA KeepHeld ==
  ASSUME NEW q, NEW s \in Seq(Frame), s # <<>>, ApartIn(q, s), NEW f \in Frame, NEW g, g = s[Len(s)],
         g.todo # <<>>, f.todo = Tail(g.todo), f.putBack = Append(g.putBack, Head(g.todo))
  PROVE  ApartIn(q, Append(Front(s), f)) /\ HeldIn(q, Append(Front(s), f)) \subseteq HeldIn(q, s)
<1> DEFINE x == Head(g.todo)
<1>2. g \in Frame /\ DistinctFrame(g)
  BY SplitHeld
<1>3. g.todo \in Seq(ConnectionAndMessage) /\ g.putBack \in Seq(ConnectionAndMessage)
  BY <1>2 DEF Frame
<1>4. /\ Keys(g.todo) = Keys(f.todo) \cup {Key(x)} /\ x \in ConnectionAndMessage
      /\ Distinct(g.todo) => Distinct(f.todo) /\ Key(x) \notin Keys(f.todo)
  BY <1>3, KeysTail, TailFacts
<1> HIDE DEF x
<1>5. /\ Keys(f.putBack) = Keys(g.putBack) \cup {Key(x)}
      /\ Distinct(g.putBack) /\ Key(x) \notin Keys(g.putBack) => Distinct(f.putBack)
  BY <1>3, <1>4, KeysAppend DEF x
<1>6. DistinctFrame(f) /\ FrameKeys(f) \subseteq FrameKeys(g)
  BY <1>2, <1>4, <1>5 DEF FrameKeys, DistinctFrame
<1>7. QED BY <1>6, TurnHeld

-----------------------------------------------------------------------------
(* The serials of the elements of a sequence that belong to S.               *)
Numbers(s, S) == {s[i].serial : i \in Positions(s, S)}
Rising(s, S) == \A i, j \in Positions(s, S) : i < j => s[i].serial < s[j].serial
Once(s, S) == \A i, j \in Positions(s, S) : i # j => s[i].serial # s[j].serial

(* An empty sequence has none.                                               *)
LEMMA NumbersEmpty == \A S : Numbers(<<>>, S) = {} /\ Rising(<<>>, S) /\ Once(<<>>, S)
BY EmptyFacts DEF Numbers, Rising, Once, Positions

(* Append adds the serial of the new element.                                *)
LEMMA NumbersAppend ==
  ASSUME NEW T, NEW s \in Seq(T), NEW x \in T, NEW S
  PROVE  /\ \A n : n \in Numbers(Append(s, x), S) <=> n \in Numbers(s, S) \/ (x \in S /\ n = x.serial)
         /\ Rising(s, S) /\ (x \in S => \A n \in Numbers(s, S) : n < x.serial) => Rising(Append(s, x), S)
         /\ Once(s, S) /\ (x \in S => x.serial \notin Numbers(s, S)) => Once(Append(s, x), S)
<1> DEFINE t == Append(s, x)
           P == Positions(s, S)
           Q == Positions(t, S)
           n == Len(s) + 1
<1>1. /\ DOMAIN t = 1 .. Len(s) + 1 /\ DOMAIN s = 1 .. Len(s) /\ Len(s) \in Nat
      /\ \A i \in 1 .. Len(s) : t[i] = s[i]
      /\ t[Len(s) + 1] = x
  BY AppendFacts
<1>2. /\ \A i \in Q : (i \in P /\ t[i] = s[i] /\ i < n) \/ (i = n /\ t[i] = x /\ x \in S)
      /\ \A i \in P : i \in Q /\ t[i] = s[i] /\ i < n
      /\ x \in S => n \in Q
      /\ t[n] = x /\ n \in Nat /\ \A i \in Q : i \in Nat
  BY <1>1 DEF Positions
<1> HIDE DEF t, P, Q, n
<1>3. \A k : k \in Numbers(t, S) <=> k \in Numbers(s, S) \/ (x \in S /\ k = x.serial)
  BY <1>2 DEF Numbers, P, Q
<1>4. ASSUME Rising(s, S), x \in S => \A k \in Numbers(s, S) : k < x.serial PROVE Rising(t, S)
  <2> SUFFICES ASSUME NEW i \in Q, NEW j \in Q, i < j PROVE t[i].serial < t[j].serial
    BY DEF Rising, Q
  <2>1. CASE j \in P /\ t[j] = s[j] /\ j < n
    <3>1. i \in P /\ t[i] = s[i]
      BY <1>2, <2>1
    <3>2. QED BY <1>4, <2>1, <3>1 DEF Rising, P
  <2>2. CASE j = n /\ t[j] = x /\ x \in S
    <3>0. i # n
      BY <1>2, <2>2
    <3>1. i \in P /\ t[i] = s[i]
      BY <1>2, <3>0
    <3>2. s[i].serial \in Numbers(s, S)
      BY <3>1 DEF Numbers, P
    <3>3. QED BY <1>4, <2>2, <3>1, <3>2
  <2>3. QED BY <1>2, <2>1, <2>2
<1>5. ASSUME Once(s, S), x \in S => x.serial \notin Numbers(s, S) PROVE Once(t, S)
  <2> SUFFICES ASSUME NEW i \in Q, NEW j \in Q, i # j PROVE t[i].serial # t[j].serial
    BY DEF Once, Q
  <2>1. CASE i \in P /\ t[i] = s[i] /\ j \in P /\ t[j] = s[j]
    BY <1>5, <2>1 DEF Once, P
  <2>2. CASE i \in P /\ t[i] = s[i] /\ t[j] = x /\ x \in S
    BY <1>5, <2>2 DEF Numbers, P
  <2>3. CASE j \in P /\ t[j] = s[j] /\ t[i] = x /\ x \in S
    BY <1>5, <2>3 DEF Numbers, P
  <2>4. QED BY <1>2, <2>1, <2>2, <2>3
<1>6. QED BY <1>3, <1>4, <1>5 DEF t

(* Tail removes the first element, the lowest if they rise.                  *)
LEMMA NumbersTail ==
  ASSUME NEW T, NEW s \in Seq(T), s # <<>>, NEW S
  PROVE  /\ Numbers(Tail(s), S) \subseteq Numbers(s, S)
         /\ Head(s) \in S => Head(s).serial \in Numbers(s, S)
         /\ Rising(s, S) => Rising(Tail(s), S)
         /\ Rising(s, S) /\ Head(s) \in S => \A n \in Numbers(Tail(s), S) : Head(s).serial < n
<1> DEFINE t == Tail(s)
           x == Head(s)
           P == Positions(s, S)
           Q == Positions(t, S)
<1>1. /\ DOMAIN t = 1 .. Len(s) - 1 /\ DOMAIN s = 1 .. Len(s) /\ Len(s) \in Nat /\ Len(s) > 0
      /\ \A i \in 1 .. Len(s) - 1 : t[i] = s[i + 1]
      /\ x = s[1]
  BY TailFacts
<1>2. /\ \A i \in Q : i + 1 \in P /\ t[i] = s[i + 1] /\ i \in Nat /\ 1 < i + 1
      /\ x = s[1] /\ (x \in S => 1 \in P)
  BY <1>1 DEF Positions
<1> HIDE DEF t, x, P, Q
<1>3. Numbers(t, S) \subseteq Numbers(s, S)
  BY <1>2 DEF Numbers, P, Q
<1>4. x \in S => x.serial \in Numbers(s, S)
  BY <1>2 DEF Numbers, P
<1>5. ASSUME Rising(s, S) PROVE Rising(t, S)
  <2> SUFFICES ASSUME NEW i \in Q, NEW j \in Q, i < j PROVE t[i].serial < t[j].serial
    BY DEF Rising, Q
  <2>1. i + 1 < j + 1 /\ i + 1 \in P /\ j + 1 \in P
    BY <1>2
  <2>2. s[i + 1].serial < s[j + 1].serial
    BY <1>5, <2>1 DEF Rising, P
  <2>3. QED BY <1>2, <2>2
<1>6. ASSUME Rising(s, S), x \in S, NEW n \in Numbers(t, S) PROVE x.serial < n
  <2>1. PICK i \in Q : n = t[i].serial
    BY <1>6 DEF Numbers, Q
  <2>2. i + 1 \in P /\ 1 \in P /\ 1 < i + 1
    BY <1>2, <1>6
  <2>3. s[1].serial < s[i + 1].serial
    BY <1>6, <2>2 DEF Rising, P
  <2>4. QED BY <1>2, <2>1, <2>3
<1>7. QED BY <1>3, <1>4, <1>5, <1>6 DEF t, x

(* Serials are numbers.                                                      *)
LEMMA NumbersType ==
  ASSUME NEW T, NEW s \in Seq(T), NEW S, \A x \in T : x.serial \in Nat
  PROVE  Numbers(s, S) \subseteq Nat
<1>1. \A i \in Positions(s, S) : s[i] \in T
  BY DEF Positions
<1>2. QED BY <1>1 DEF Numbers

-----------------------------------------------------------------------------
(* Where the messages from one end to another are: O not yet written, W in   *)
(* the socket buffer, I received, H held for dispatchMessages, D handled;    *)
(* n of them have been sent, with the numbers from 1.                        *)
Ordered(O, W, I, H, D, n) ==
    /\ 0 \notin O \cup W \cup I \cup H \cup D
    /\ \A o \in O : o <= n
    /\ \A w \in W : w <= n /\ \A o \in O : w < o
    /\ \A a \in I \cup H \cup D : a <= n /\ (\A w \in W : a < w) /\ \A o \in O : a < o
    /\ I \cap H = {} /\ I \cap D = {} /\ H \cap D = {}

(* A message with the next number is sent.                                   *)
LEMMA OrderedSend ==
  ASSUME NEW O \in SUBSET Nat, NEW W \in SUBSET Nat, NEW I \in SUBSET Nat, NEW H \in SUBSET Nat,
         NEW D \in SUBSET Nat, NEW n \in Nat, Ordered(O, W, I, H, D, n),
         NEW P, P \subseteq O \cup {n + 1}
  PROVE  Ordered(P, W, I, H, D, n + 1)
<1>1. \A o \in P : o \in Nat /\ (o \in O \/ o = n + 1)
  OBVIOUS
<1>2. \A a \in I \cup H \cup D \cup W : a \in Nat /\ a <= n
  BY DEF Ordered
<1>3. QED BY <1>1, <1>2 DEF Ordered

(* The first message not yet written is written.                             *)
LEMMA OrderedWrite ==
  ASSUME NEW O \in SUBSET Nat, NEW W \in SUBSET Nat, NEW I \in SUBSET Nat, NEW H \in SUBSET Nat,
         NEW D \in SUBSET Nat, NEW n \in Nat, Ordered(O, W, I, H, D, n),
         NEW x \in O, NEW P, P \subseteq O, \A o \in P : x < o, NEW V, V \subseteq W \cup {x}
  PROVE  Ordered(P, V, I, H, D, n)
BY DEF Ordered

-----------------------------------------------------------------------------
(* The messages of every connection, in the order they are sent.             *)
Plain == {m \in Message : m.type # "reply"}
HeldAt(p) == {n \in Nat : <<p, n>> \in HeldIn(toDispatch[LoopOf[p]], stack[LoopOf[p]])}

VectorsApart == \A l \in RunLoops : ApartIn(toDispatch[l], stack[l])
QueuesRise ==
    \A p \in Ends : /\ Rising(outgoing[p], Plain) /\ Rising(wire[p], Plain)
                    /\ Rising(incoming[p], Message) /\ Once(handled[p], Handled)
OrderAt(p) ==
    Ordered(Numbers(outgoing[PeerOf[p]], Plain), Numbers(wire[p], Plain), Numbers(incoming[p], Message),
            HeldAt(p), Numbers(handled[p], Handled), serial[PeerOf[p]])
InOrder == \A p \in Ends : OrderAt(p)
Order == VectorsApart /\ QueuesRise /\ InOrder

(* The vectors of every run loop hold no more than before.                   *)
HeldLess ==
    \A l \in RunLoops : /\ ApartIn(toDispatch'[l], stack'[l])
                        /\ HeldIn(toDispatch'[l], stack'[l]) \subseteq HeldIn(toDispatch[l], stack[l])

(* One run loop changes.                                                     *)
LEMMA OneLess ==
  ASSUME Types, VectorsApart, NEW k \in RunLoops, NEW q, NEW s,
         ApartIn(q, s), HeldIn(q, s) \subseteq HeldIn(toDispatch[k], stack[k]),
         toDispatch' = [toDispatch EXCEPT ![k] = q], stack' = [stack EXCEPT ![k] = s]
  PROVE  HeldLess
<1>1. toDispatch \in [RunLoops -> Seq(ConnectionAndMessage)] /\ stack \in [RunLoops -> Seq(Frame)]
  BY DEF Types, LoopTypes
<1> SUFFICES ASSUME NEW l \in RunLoops
             PROVE  /\ ApartIn(toDispatch'[l], stack'[l])
                    /\ HeldIn(toDispatch'[l], stack'[l]) \subseteq HeldIn(toDispatch[l], stack[l])
  BY DEF HeldLess
<1>2. CASE l = k
  <2>1. toDispatch'[l] = q /\ stack'[l] = s
    BY <1>1, <1>2
  <2>2. QED BY <1>2, <2>1
<1>3. CASE l # k
  <2>1. toDispatch'[l] = toDispatch[l] /\ stack'[l] = stack[l]
    BY <1>1, <1>3
  <2>2. QED BY <2>1 DEF VectorsApart
<1>4. QED BY <1>2, <1>3

(* Only the stack of one run loop changes.                                   *)
LEMMA StackLess ==
  ASSUME Types, VectorsApart, NEW k \in RunLoops, NEW s, stack' = [stack EXCEPT ![k] = s],
         UNCHANGED toDispatch,
         ApartIn(toDispatch[k], s), HeldIn(toDispatch[k], s) \subseteq HeldIn(toDispatch[k], stack[k])
  PROVE  HeldLess
<1>1. toDispatch' = [toDispatch EXCEPT ![k] = toDispatch[k]]
  BY DEF Types, LoopTypes
<1>2. QED BY <1>1, OneLess

(* Pushing a frame, popping one and turning one from waiting to checking.    *)
LEMMA PushLess ==
  ASSUME Types, VectorsApart, NEW k \in RunLoops, NEW f \in Frame, f.todo = <<>>, f.putBack = <<>>,
         stack' = [stack EXCEPT ![k] = Append(stack[k], f)], UNCHANGED toDispatch
  PROVE  HeldLess
<1>1. stack[k] \in Seq(Frame)
  BY DEF Types, LoopTypes
<1>2. ApartIn(toDispatch[k], stack[k])
  BY DEF VectorsApart
<1>3. /\ ApartIn(toDispatch[k], Append(stack[k], f))
      /\ HeldIn(toDispatch[k], Append(stack[k], f)) \subseteq HeldIn(toDispatch[k], stack[k])
  BY <1>1, <1>2, PushHeld
<1>4. QED BY <1>3, StackLess

(* A frame is popped, and what it held with it.                              *)
LEMMA PopLess ==
  ASSUME Types, VectorsApart, NEW k \in RunLoops, stack[k] # <<>>,
         stack' = [stack EXCEPT ![k] = Front(stack[k])], UNCHANGED toDispatch
  PROVE  HeldLess
<1>1. stack[k] \in Seq(Frame)
  BY DEF Types, LoopTypes
<1>2. ApartIn(toDispatch[k], stack[k])
  BY DEF VectorsApart
<1>3. /\ ApartIn(toDispatch[k], Front(stack[k]))
      /\ HeldIn(toDispatch[k], Front(stack[k])) \subseteq HeldIn(toDispatch[k], stack[k])
  BY <1>1, <1>2, PopHeld
<1>4. QED BY <1>3, StackLess

(* A wait falls asleep or wakes up: the vectors of its frame stay as they    *)
(* are.                                                                      *)
LEMMA WaitingFrame ==
  ASSUME Types, OwnConnections, VectorsApart, NEW k \in RunLoops, At(k, {"check", "sleep"}),
         NEW at \in {"check", "sleep"}
  PROVE  LET f == [Top(k) EXCEPT !.at = at]
             s == Append(Front(stack[k]), f)
         IN  /\ stack[k] # <<>> /\ s \in Seq(Frame)
             /\ ApartIn(toDispatch[k], s)
             /\ HeldIn(toDispatch[k], s) \subseteq HeldIn(toDispatch[k], stack[k])
<1> DEFINE f == [Top(k) EXCEPT !.at = at]
           s == Append(Front(stack[k]), f)
<1>1. /\ stack[k] # <<>> /\ stack[k] \in Seq(Frame) /\ Top(k) = stack[k][Len(stack[k])]
      /\ Top(k) \in Frame /\ Top(k) \in OwnFrame(k) /\ Top(k).at \in {"check", "sleep"}
  BY OwnTop DEF At, Top, Types, LoopTypes
<1>2. f \in Frame /\ f.todo = Top(k).todo /\ f.putBack = Top(k).putBack
  BY <1>1 DEF Frame
<1>3. f.todo = <<>> /\ f.putBack = <<>>
  BY <1>1, <1>2 DEF OwnFrame
<1>4. ApartIn(toDispatch[k], stack[k])
  BY DEF VectorsApart
<1> HIDE DEF f
<1>5. FrameKeys(f) = {} /\ DistinctFrame(f)
  BY <1>3, EmptyFrameKeys
<1>6. ApartIn(toDispatch[k], s) /\ HeldIn(toDispatch[k], s) \subseteq HeldIn(toDispatch[k], stack[k])
  BY <1>1, <1>2, <1>4, <1>5, TurnHeld
<1>7. s \in Seq(Frame)
  BY <1>1, <1>2, FrontFacts, AppendFacts
<1>8. QED BY <1>1, <1>6, <1>7 DEF f

(* dispatchMessage() runs the handler on a stack without vectors of its own. *)
LEMMA DispatchLess ==
  ASSUME Types, VectorsApart, NEW k \in RunLoops, NEW e \in Ends, NEW m \in Message, NEW below \in Seq(Frame),
         dispatchMessage(k, e, m, below), UNCHANGED toDispatch,
         ApartIn(toDispatch[k], below),
         HeldIn(toDispatch[k], below) \subseteq HeldIn(toDispatch[k], stack[k])
  PROVE  /\ HeldLess
         /\ HeldIn(toDispatch'[k], stack'[k]) \subseteq HeldIn(toDispatch[k], below)
<1> DEFINE f == NewFrame("handle", e, m)
<1>1. f \in Frame
  BY NewFrameType
<1>2. f.todo = <<>> /\ f.putBack = <<>>
  BY DEF NewFrame
<1>3. stack' = [stack EXCEPT ![k] = below] \/ stack' = [stack EXCEPT ![k] = Append(below, f)]
  BY DEF dispatchMessage
<1>4. stack \in [RunLoops -> Seq(Frame)]
  BY DEF Types, LoopTypes
<1> HIDE DEF f
<1>5. PICK s : /\ stack' = [stack EXCEPT ![k] = s] /\ ApartIn(toDispatch[k], s)
               /\ HeldIn(toDispatch[k], s) \subseteq HeldIn(toDispatch[k], below)
  <2>1. ApartIn(toDispatch[k], Append(below, f)) /\ HeldIn(toDispatch[k], Append(below, f)) = HeldIn(toDispatch[k], below)
    BY <1>1, <1>2, PushHeld
  <2>2. QED BY <1>3, <2>1
<1>6. HeldLess
  BY <1>5, StackLess
<1>7. stack'[k] = s /\ toDispatch'[k] = toDispatch[k]
  BY <1>4, <1>5
<1>8. QED BY <1>5, <1>6, <1>7

(* The sets of serials are sets of numbers.                                  *)
LEMMA NumberSets ==
  ASSUME Types, NEW p \in Ends
  PROVE  /\ Numbers(outgoing[PeerOf[p]], Plain) \in SUBSET Nat /\ Numbers(wire[p], Plain) \in SUBSET Nat
         /\ Numbers(incoming[p], Message) \in SUBSET Nat /\ Numbers(handled[p], Handled) \in SUBSET Nat
         /\ HeldAt(p) \in SUBSET Nat /\ PeerOf[p] \in Ends /\ LoopOf[p] \in RunLoops /\ serial[PeerOf[p]] \in Nat
         /\ outgoing[p] \in Seq(Message) /\ wire[p] \in Seq(Message) /\ incoming[p] \in Seq(Message)
         /\ handled[p] \in Seq(Handled) /\ PeerOf[PeerOf[p]] = p /\ serial[p] \in Nat
<1>1. \A x \in Message : x.serial \in Nat
  BY DEF Message
<1>2. \A x \in Handled : x.serial \in Nat
  BY DEF Handled
<1>3. /\ outgoing[PeerOf[p]] \in Seq(Message) /\ wire[p] \in Seq(Message) /\ incoming[p] \in Seq(Message)
      /\ handled[p] \in Seq(Handled) /\ PeerOf[p] \in Ends /\ LoopOf[p] \in RunLoops /\ serial[PeerOf[p]] \in Nat
      /\ outgoing[p] \in Seq(Message) /\ PeerOf[PeerOf[p]] = p /\ serial[p] \in Nat
  BY PeerAssumption, LoopAssumption DEF Types, QueueTypes, CountTypes, HistoryTypes
<1>4. Numbers(outgoing[PeerOf[p]], Plain) \subseteq Nat
  BY <1>1, <1>3, NumbersType
<1>5. Numbers(wire[p], Plain) \subseteq Nat
  BY <1>1, <1>3, NumbersType
<1>6. Numbers(incoming[p], Message) \subseteq Nat
  BY <1>1, <1>3, NumbersType
<1>7. Numbers(handled[p], Handled) \subseteq Nat
  BY <1>2, <1>3, NumbersType
<1>8. QED BY <1>3, <1>4, <1>5, <1>6, <1>7 DEF HeldAt

(* The serials held for an end, before and after a step.                     *)
LEMMA HeldAtLess ==
  ASSUME HeldLess, NEW p \in Ends
  PROVE  HeldAt(p)' \subseteq HeldAt(p)
<1>1. LoopOf[p] \in RunLoops
  BY LoopAssumption
<1>2. HeldIn(toDispatch'[LoopOf[p]], stack'[LoopOf[p]]) \subseteq HeldIn(toDispatch[LoopOf[p]], stack[LoopOf[p]])
  BY <1>1 DEF HeldLess
<1>3. QED BY <1>2 DEF HeldAt

(* Losing messages keeps the order of the others.                            *)
LEMMA LoseAt ==
  ASSUME Types, Order, NEW p \in Ends,
         Numbers(outgoing'[PeerOf[p]], Plain) \subseteq Numbers(outgoing[PeerOf[p]], Plain),
         Numbers(wire'[p], Plain) \subseteq Numbers(wire[p], Plain),
         Numbers(incoming'[p], Message) \subseteq Numbers(incoming[p], Message),
         HeldAt(p)' \subseteq HeldAt(p),
         handled'[p] = handled[p], serial'[PeerOf[p]] = serial[PeerOf[p]]
  PROVE  OrderAt(p)'
<1> DEFINE O == Numbers(outgoing[PeerOf[p]], Plain)
           W == Numbers(wire[p], Plain)
           I == Numbers(incoming[p], Message)
           H == HeldAt(p)
           D == Numbers(handled[p], Handled)
           n == serial[PeerOf[p]]
           P == Numbers(outgoing'[PeerOf[p]], Plain)
           V == Numbers(wire'[p], Plain)
           J == Numbers(incoming'[p], Message)
           G == HeldAt(p)'
<1>1. Ordered(O, W, I, H, D, n)
  BY DEF Order, InOrder, OrderAt
<1>2. /\ O \in SUBSET Nat /\ W \in SUBSET Nat /\ I \in SUBSET Nat /\ H \in SUBSET Nat /\ D \in SUBSET Nat
      /\ n \in Nat /\ P \subseteq O /\ V \subseteq W /\ J \subseteq I /\ G \subseteq H
  BY NumberSets
<1>3. Ordered(P, V, J, G, D, n) => OrderAt(p)'
  BY DEF OrderAt
<1> HIDE DEF O, W, I, H, D, n, P, V, J, G
<1>4. Ordered(P, V, J, G, D, n)
  BY <1>1, <1>2 DEF Ordered
<1>5. QED BY <1>3, <1>4

(* A step that only loses messages keeps the order.                          *)
LEMMA LoseOrder ==
  ASSUME Types, Order, HeldLess, UNCHANGED <<handled, serial>>,
         \A d \in Ends : /\ Numbers(outgoing'[d], Plain) \subseteq Numbers(outgoing[d], Plain)
                         /\ Numbers(wire'[d], Plain) \subseteq Numbers(wire[d], Plain)
                         /\ Numbers(incoming'[d], Message) \subseteq Numbers(incoming[d], Message)
                         /\ Rising(outgoing'[d], Plain) /\ Rising(wire'[d], Plain)
                         /\ Rising(incoming'[d], Message)
  PROVE  Order'
<1>1. VectorsApart'
  BY DEF VectorsApart, HeldLess
<1>2. QueuesRise'
  BY DEF Order, QueuesRise
<1>3. InOrder'
  <2> SUFFICES ASSUME NEW p \in Ends PROVE OrderAt(p)'
    BY DEF InOrder
  <2>1. PeerOf[p] \in Ends
    BY NumberSets
  <2>2. HeldAt(p)' \subseteq HeldAt(p)
    BY HeldAtLess
  <2>3. QED BY <2>1, <2>2, LoseAt
<1>4. QED BY <1>1, <1>2, <1>3 DEF Order

(* Only the vectors change.                                                  *)
LEMMA SameOrder ==
  ASSUME Types, Order, HeldLess, UNCHANGED <<outgoing, wire, incoming, handled, serial>>
  PROVE  Order'
BY LoseOrder DEF Order, QueuesRise

(* An end sends: a message with the next number, or a reply.                 *)
LEMMA SendOrder ==
  ASSUME Types, Order, HeldLess, UNCHANGED <<wire, incoming, handled>>,
         NEW d \in Ends, NEW m \in Message, sendMessage(d, m),
         \/ m \notin Plain /\ serial' = serial
         \/ m.serial = serial[d] + 1 /\ serial' = [serial EXCEPT ![d] = @ + 1]
  PROVE  Order'
<1>t. outgoing \in [Ends -> Seq(Message)] /\ serial \in [Ends -> Nat]
  BY DEF Types, QueueTypes, CountTypes
<1>1. outgoing'[d] = Append(outgoing[d], m) /\ \A c \in Ends : c # d => outgoing'[c] = outgoing[c]
  BY <1>t DEF sendMessage
<1>2. PeerOf[d] \in Ends /\ PeerOf[PeerOf[d]] = d /\ \A c \in Ends : PeerOf[c] = d => c = PeerOf[d]
  BY PeerAssumption
<1>3. VectorsApart'
  BY DEF VectorsApart, HeldLess
<1>4. OrderAt(PeerOf[d])
  BY <1>2 DEF Order, InOrder
<1>5. \A o \in Numbers(outgoing[d], Plain) : o \in Nat /\ o <= serial[d]
  BY <1>2, <1>4, NumberSets DEF OrderAt, Ordered
<1>6. m \in Plain => m.serial = serial[d] + 1 /\ serial'[d] = serial[d] + 1
  BY <1>t
<1>7. Rising(outgoing'[d], Plain)
  <2>1. m \in Plain => \A o \in Numbers(outgoing[d], Plain) : o < m.serial
    BY <1>5, <1>6, <1>t
  <2>2. QED BY <1>1, <1>t, <2>1, NumbersAppend DEF Order, QueuesRise
<1>8. QueuesRise'
  BY <1>1, <1>7 DEF Order, QueuesRise
<1>9. InOrder'
  <2> SUFFICES ASSUME NEW p \in Ends PROVE OrderAt(p)'
    BY DEF InOrder
  <2>1. HeldAt(p)' \subseteq HeldAt(p)
    BY HeldAtLess
  <2>2. CASE p # PeerOf[d]
    <3>1. PeerOf[p] # d /\ PeerOf[p] \in Ends
      BY <1>2, <2>2, PeerAssumption
    <3>2. outgoing'[PeerOf[p]] = outgoing[PeerOf[p]] /\ serial'[PeerOf[p]] = serial[PeerOf[p]]
      BY <1>1, <1>t, <3>1
    <3>3. QED BY <2>1, <3>2, LoseAt
  <2>3. CASE p = PeerOf[d]
    <3>1. PeerOf[p] = d
      BY <1>2, <2>3
    <3>2. \A o : o \in Numbers(outgoing'[d], Plain) <=> o \in Numbers(outgoing[d], Plain) \/ (m \in Plain /\ o = m.serial)
      BY <1>1, <1>t, NumbersAppend
    <3>3. CASE m \notin Plain /\ serial' = serial
      <4>1. Numbers(outgoing'[d], Plain) \subseteq Numbers(outgoing[d], Plain)
        BY <3>2, <3>3
      <4>2. QED BY <2>1, <3>1, <3>3, <4>1, LoseAt
    <3>4. CASE m.serial = serial[d] + 1 /\ serial' = [serial EXCEPT ![d] = @ + 1]
      <4> DEFINE O == Numbers(outgoing[d], Plain)
                 W == Numbers(wire[p], Plain)
                 I == Numbers(incoming[p], Message)
                 H == HeldAt(p)
                 D == Numbers(handled[p], Handled)
                 n == serial[d]
                 P == Numbers(outgoing'[d], Plain)
                 G == HeldAt(p)'
      <4>1. Ordered(O, W, I, H, D, n)
        BY <3>1 DEF Order, InOrder, OrderAt
      <4>2. /\ O \in SUBSET Nat /\ W \in SUBSET Nat /\ I \in SUBSET Nat /\ H \in SUBSET Nat /\ D \in SUBSET Nat
            /\ n \in Nat /\ G \subseteq H
        BY <2>1, <3>1, NumberSets
      <4>3. P \subseteq O \cup {n + 1}
        BY <3>2, <3>4
      <4>4. serial'[d] = n + 1
        BY <1>t, <3>4
      <4>5. Ordered(P, W, I, G, D, n + 1) => OrderAt(p)'
        BY <3>1, <4>4 DEF OrderAt
      <4> HIDE DEF O, W, I, H, D, n, P, G
      <4>6. Ordered(P, W, I, H, D, n + 1)
        BY <4>1, <4>2, <4>3, OrderedSend
      <4>7. Ordered(P, W, I, G, D, n + 1)
        BY <4>2, <4>6 DEF Ordered
      <4>8. QED BY <4>5, <4>7
    <3>5. QED BY <3>3, <3>4
  <2>4. QED BY <2>2, <2>3
<1>10. QED BY <1>3, <1>8, <1>9 DEF Order

(* sendOutgoingMessages() moves the first message to the socket, or loses it.*)
LEMMA WriteOrder ==
  ASSUME Types, Order, NEW d \in Ends, sendOutgoingMessages(d)
  PROVE  Order'
<1> USE DEF endVars, queueVars, loopVars
<1> DEFINE q == PeerOf[d]
           sends == connected[d] /\ outgoing[d] # <<>>
           sent == sends /\ SocketTakes(q)
           x == Head(outgoing[d])
<1>t. outgoing \in [Ends -> Seq(Message)] /\ wire \in [Ends -> Seq(Message)] /\ serial \in [Ends -> Nat]
  BY DEF Types, QueueTypes, CountTypes
<1>1. /\ outgoing' = [outgoing EXCEPT ![d] = IF sends THEN Tail(@) ELSE @]
      /\ wire' = [wire EXCEPT ![q] = IF sent THEN Append(@, Head(outgoing[d])) ELSE @]
      /\ UNCHANGED <<incoming, toDispatch, stack, handled, serial>>
  BY DEF sendOutgoingMessages
<1>2. q \in Ends /\ PeerOf[q] = d /\ \A c \in Ends : PeerOf[c] = d => c = q
  BY PeerAssumption
<1>3. HeldLess
  BY <1>1 DEF HeldLess, Order, VectorsApart
<1>4. QueuesRise
  BY DEF Order
<1>5. CASE ~sends
  <2>1. outgoing' = outgoing /\ wire' = wire
    BY <1>1, <1>5, <1>t
  <2>2. QED BY <1>1, <1>3, <2>1, SameOrder
<1>6. CASE sends /\ ~sent
  <2>1. wire' = wire /\ outgoing[d] # <<>> /\ outgoing[d] \in Seq(Message)
    BY <1>1, <1>6, <1>t
  <2>2. outgoing' = [outgoing EXCEPT ![d] = Tail(outgoing[d])]
    BY <1>1, <1>6
  <2>3. \A c \in Ends : /\ Numbers(outgoing'[c], Plain) \subseteq Numbers(outgoing[c], Plain)
                        /\ Rising(outgoing'[c], Plain)
    <3> SUFFICES ASSUME NEW c \in Ends
                 PROVE  Numbers(outgoing'[c], Plain) \subseteq Numbers(outgoing[c], Plain) /\ Rising(outgoing'[c], Plain)
      OBVIOUS
    <3>1. Rising(outgoing[c], Plain)
      BY <1>4 DEF QueuesRise
    <3>2. CASE c = d
      <4>1. outgoing'[c] = Tail(outgoing[c])
        BY <1>t, <2>2, <3>2
      <4>2. QED BY <2>1, <3>1, <3>2, <4>1, NumbersTail
    <3>3. CASE c # d
      BY <1>t, <2>2, <3>1, <3>3
    <3>4. QED BY <3>2, <3>3
  <2>4. \A c \in Ends : Rising(wire[c], Plain) /\ Rising(incoming[c], Message)
    BY <1>4 DEF QueuesRise
  <2>5. QED BY <1>1, <1>3, <2>1, <2>3, <2>4, LoseOrder
<1>7. CASE sent
  <2>1. outgoing[d] # <<>> /\ outgoing[d] \in Seq(Message) /\ x \in Message /\ wire[q] \in Seq(Message)
    BY <1>2, <1>7, <1>t, TailFacts
  <2>2. outgoing'[d] = Tail(outgoing[d]) /\ \A c \in Ends : c # d => outgoing'[c] = outgoing[c]
    BY <1>1, <1>7, <1>t
  <2>3. wire'[q] = Append(wire[q], x) /\ \A c \in Ends : c # q => wire'[c] = wire[c]
    BY <1>1, <1>2, <1>7, <1>t
  <2> DEFINE O == Numbers(outgoing[d], Plain)
             P == Numbers(Tail(outgoing[d]), Plain)
             W == Numbers(wire[q], Plain)
             V == Numbers(Append(wire[q], x), Plain)
             I == Numbers(incoming[q], Message)
             H == HeldAt(q)
             D == Numbers(handled[q], Handled)
             n == serial[d]
  <2>4. /\ O \in SUBSET Nat /\ W \in SUBSET Nat /\ I \in SUBSET Nat /\ H \in SUBSET Nat /\ D \in SUBSET Nat
        /\ n \in Nat
    BY <1>2, NumberSets
  <2>5. Ordered(O, W, I, H, D, n)
    BY <1>2 DEF Order, InOrder, OrderAt
  <2>6. Rising(outgoing[d], Plain) /\ Rising(wire[q], Plain)
    BY <1>2, <1>4 DEF QueuesRise
  <2>7. /\ P \subseteq O /\ Rising(Tail(outgoing[d]), Plain)
        /\ x \in Plain => x.serial \in O /\ \A o \in P : x.serial < o
    BY <2>1, <2>6, NumbersTail
  <2>8. /\ \A w : w \in V <=> w \in W \/ (x \in Plain /\ w = x.serial)
        /\ (x \in Plain => \A w \in W : w < x.serial) => Rising(Append(wire[q], x), Plain)
    BY <2>1, <2>6, NumbersAppend
  <2>9. Ordered(P, V, I, H, D, n) => OrderAt(q)'
    <3>1. HeldAt(q)' = HeldAt(q)
      BY <1>1 DEF HeldAt
    <3>2. QED BY <1>1, <1>2, <2>2, <2>3, <3>1 DEF OrderAt
  <2> HIDE DEF O, P, W, V, I, H, D, n, x
  <2>10. Ordered(P, V, I, H, D, n)
    <3>1. CASE x \in Plain
      <4>1. x.serial \in O /\ (\A o \in P : x.serial < o) /\ V \subseteq W \cup {x.serial}
        BY <2>7, <2>8, <3>1
      <4>2. PICK y \in O : y = x.serial
        BY <4>1
      <4>3. QED BY <2>4, <2>5, <2>7, <4>1, <4>2, OrderedWrite
    <3>2. CASE x \notin Plain
      <4>1. V \subseteq W
        BY <2>8, <3>2
      <4>2. QED BY <2>5, <2>7, <4>1 DEF Ordered
    <3>3. QED BY <3>1, <3>2
  <2>11. Rising(Append(wire[q], x), Plain)
    BY <2>5, <2>7, <2>8 DEF Ordered
  <2>12. QueuesRise'
    BY <1>1, <1>4, <2>2, <2>3, <2>7, <2>11 DEF QueuesRise
  <2>13. VectorsApart'
    BY <1>1 DEF Order, VectorsApart
  <2>14. InOrder'
    <3> SUFFICES ASSUME NEW p \in Ends, p # q PROVE OrderAt(p)'
      BY <2>9, <2>10 DEF InOrder
    <3>1. PeerOf[p] # d /\ PeerOf[p] \in Ends
      BY <1>2, PeerAssumption
    <3>2. outgoing'[PeerOf[p]] = outgoing[PeerOf[p]] /\ wire'[p] = wire[p]
      BY <2>2, <2>3, <3>1
    <3>3. HeldAt(p)' \subseteq HeldAt(p)
      BY <1>3, HeldAtLess
    <3>4. QED BY <1>1, <3>2, <3>3, LoseAt
  <2>15. QED BY <2>12, <2>13, <2>14 DEF Order
<1>8. QED BY <1>5, <1>6, <1>7

(* The head of the socket buffer is taken: what is left, and what it was.    *)
LEMMA HeadOrder ==
  ASSUME Types, Order, NEW d \in Ends, Receive(d)
  PROVE  /\ wire[d] # <<>> /\ Head(wire[d]) \in Message /\ wire'[d] = Tail(wire[d])
         /\ \A c \in Ends : c # d => wire'[c] = wire[c]
         /\ \A c \in Ends : Rising(wire'[c], Plain) /\ Numbers(wire'[c], Plain) \subseteq Numbers(wire[c], Plain)
         /\ Head(wire[d]) \in Plain =>
                /\ Head(wire[d]).serial \in Numbers(wire[d], Plain)
                /\ \A w \in Numbers(wire'[d], Plain) : Head(wire[d]).serial < w
<1>t. wire \in [Ends -> Seq(Message)]
  BY DEF Types, QueueTypes
<1>1. wire' = [wire EXCEPT ![d] = Tail(wire[d])] /\ wire[d] # <<>>
  BY DEF Receive
<1>2. wire[d] \in Seq(Message) /\ Head(wire[d]) \in Message
  BY <1>1, <1>t, TailFacts
<1>3. wire'[d] = Tail(wire[d]) /\ \A c \in Ends : c # d => wire'[c] = wire[c]
  BY <1>1, <1>t
<1>4. \A c \in Ends : Rising(wire[c], Plain)
  BY DEF Order, QueuesRise
<1>5. /\ Rising(wire'[d], Plain) /\ Numbers(wire'[d], Plain) \subseteq Numbers(wire[d], Plain)
      /\ Head(wire[d]) \in Plain =>
             /\ Head(wire[d]).serial \in Numbers(wire[d], Plain)
             /\ \A w \in Numbers(wire'[d], Plain) : Head(wire[d]).serial < w
  BY <1>1, <1>2, <1>3, <1>4, NumbersTail
<1>6. ASSUME NEW c \in Ends PROVE Rising(wire'[c], Plain) /\ Numbers(wire'[c], Plain) \subseteq Numbers(wire[c], Plain)
  <2>1. CASE c = d
    BY <1>5, <2>1
  <2>2. CASE c # d
    BY <1>3, <1>4, <2>2
  <2>3. QED BY <2>1, <2>2
<1>7. QED BY <1>1, <1>2, <1>3, <1>5, <1>6

(* What is received comes after all that was received before.                *)
LEMMA ReceivedLast ==
  ASSUME Types, Order, NEW d \in Ends, Receive(d), Head(wire[d]).type # "reply"
  PROVE  LET n == Head(wire[d]).serial
         IN  /\ n \in Nat /\ Head(wire[d]) \in Plain
             /\ n \notin Numbers(incoming[d], Message) /\ n \notin HeldAt(d)
             /\ n \notin Numbers(handled[d], Handled)
             /\ \A a \in Numbers(incoming[d], Message) \cup HeldAt(d) \cup Numbers(handled[d], Handled) : a < n
             /\ Ordered(Numbers(outgoing[PeerOf[d]], Plain), Numbers(wire'[d], Plain),
                        Numbers(incoming[d], Message) \cup {n}, HeldAt(d), Numbers(handled[d], Handled),
                        serial[PeerOf[d]])
             /\ Ordered(Numbers(outgoing[PeerOf[d]], Plain), Numbers(wire'[d], Plain),
                        Numbers(incoming[d], Message), HeldAt(d) \cup {n}, Numbers(handled[d], Handled),
                        serial[PeerOf[d]])
<1> DEFINE O == Numbers(outgoing[PeerOf[d]], Plain)
           W == Numbers(wire[d], Plain)
           V == Numbers(wire'[d], Plain)
           I == Numbers(incoming[d], Message)
           H == HeldAt(d)
           D == Numbers(handled[d], Handled)
           k == serial[PeerOf[d]]
           x == Head(wire[d]).serial
<1>1. Head(wire[d]) \in Plain
  BY HeadOrder DEF Plain
<1>2. x \in W /\ V \subseteq W /\ \A w \in V : x < w
  BY <1>1, HeadOrder
<1>3. /\ O \in SUBSET Nat /\ W \in SUBSET Nat /\ I \in SUBSET Nat /\ H \in SUBSET Nat /\ D \in SUBSET Nat
      /\ k \in Nat
  BY NumberSets
<1>4. Ordered(O, W, I, H, D, k)
  BY DEF Order, InOrder, OrderAt
<1> HIDE DEF O, W, V, I, H, D, k, x
<1>5. /\ x \notin I /\ x \notin H /\ x \notin D /\ \A a \in I \cup H \cup D : a < x
      /\ Ordered(O, V, I \cup {x}, H, D, k)
      /\ Ordered(O, V, I, H \cup {x}, D, k)
  <2>1. \A a \in I \cup H \cup D : a < x /\ a \in Nat
    BY <1>2, <1>3, <1>4 DEF Ordered
  <2>2. x \notin I /\ x \notin H /\ x \notin D
    BY <2>1
  <2>3. QED BY <1>2, <1>3, <1>4, <2>1, <2>2 DEF Ordered
<1>6. x \in Nat
  BY <1>2, <1>3
<1>7. QED BY <1>1, <1>5, <1>6 DEF O, W, V, I, H, D, k, x

(* A flagged message is received.                                            *)
LEMMA FlaggedOrder ==
  ASSUME Types, Order, NEW d \in Ends, ReceiveFlagged(d)
  PROVE  Order'
<1> USE DEF endVars, queueVars, loopVars
<1> DEFINE l == LoopOf[d]
           x == [conn |-> d, msg |-> Head(wire[d])]
           n == Head(wire[d]).serial
<1>t. toDispatch \in [RunLoops -> Seq(ConnectionAndMessage)] /\ l \in RunLoops
  BY LoopAssumption DEF Types, LoopTypes
<1>1. Receive(d) /\ Head(wire[d]).type # "reply" /\ UNCHANGED <<incoming, outgoing, stack, handled, serial>>
  BY DEF ReceiveFlagged
<1>2. toDispatch' = [toDispatch EXCEPT ![l] = Append(toDispatch[l], x)]
  BY DEF ReceiveFlagged
<1>3. x \in ConnectionAndMessage /\ Key(x) = <<d, n>>
  BY <1>1, HeadOrder DEF ConnectionAndMessage, Key
<1>4. n \in Nat /\ n \notin HeldAt(d)
  BY <1>1, ReceivedLast
<1>5. Key(x) \notin HeldIn(toDispatch[l], stack[l])
  BY <1>3, <1>4 DEF HeldAt
<1>6. VectorsApart
  BY DEF Order
<1>7. toDispatch'[l] = Append(toDispatch[l], x) /\ \A k \in RunLoops : k # l => toDispatch'[k] = toDispatch[k]
  BY <1>2, <1>t
<1> HIDE DEF x
<1>8. /\ ApartIn(toDispatch'[l], stack'[l])
      /\ HeldIn(toDispatch'[l], stack'[l]) = HeldIn(toDispatch[l], stack[l]) \cup {<<d, n>>}
  BY <1>1, <1>3, <1>5, <1>6, <1>7, <1>t, ReceiveHeld, SMTT(30) DEF VectorsApart
<1>9. VectorsApart'
  BY <1>1, <1>6, <1>7, <1>8 DEF VectorsApart
<1>10. QueuesRise'
  BY <1>1, HeadOrder DEF Order, QueuesRise
<1>11. OrderAt(d)'
  <2>1. HeldAt(d)' = HeldAt(d) \cup {n}
    BY <1>4, <1>8 DEF HeldAt
  <2>2. Ordered(Numbers(outgoing[PeerOf[d]], Plain), Numbers(wire'[d], Plain),
                Numbers(incoming[d], Message), HeldAt(d) \cup {n}, Numbers(handled[d], Handled),
                serial[PeerOf[d]])
    BY <1>1, ReceivedLast
  <2>3. QED BY <1>1, <2>1, <2>2 DEF OrderAt
<1>12. ASSUME NEW p \in Ends, p # d PROVE OrderAt(p)'
  <2>1. HeldAt(p)' \subseteq HeldAt(p)
    <3>1. LoopOf[p] \in RunLoops
      BY LoopAssumption
    <3>2. CASE LoopOf[p] = l
      <4>1. \A k : <<p, k>> # <<d, n>>
        BY <1>12
      <4>2. QED BY <1>8, <3>2, <4>1 DEF HeldAt
    <3>3. CASE LoopOf[p] # l
      BY <1>1, <1>7, <3>1, <3>3 DEF HeldAt
    <3>4. QED BY <3>2, <3>3
  <2>2. Numbers(wire'[p], Plain) \subseteq Numbers(wire[p], Plain)
    BY <1>1, HeadOrder
  <2>3. QED BY <1>1, <2>1, <2>2, LoseAt
<1>13. QED BY <1>9, <1>10, <1>11, <1>12 DEF Order, InOrder

(* An unflagged message is received.                                         *)
LEMMA UnflaggedOrder ==
  ASSUME Types, Order, NEW d \in Ends, ReceiveUnflagged(d)
  PROVE  Order'
<1> USE DEF endVars, queueVars, loopVars
<1> DEFINE m == Head(wire[d])
<1>t. incoming \in [Ends -> Seq(Message)]
  BY DEF Types, QueueTypes
<1>1. Receive(d) /\ m.type # "reply" /\ UNCHANGED <<outgoing, toDispatch, stack, handled, serial>>
  BY DEF ReceiveUnflagged
<1>2. incoming' = [incoming EXCEPT ![d] = Append(incoming[d], m)]
  BY DEF ReceiveUnflagged, AppendIncoming
<1>3. m \in Message /\ m.serial \in Nat /\ \A a \in Numbers(incoming[d], Message) : a < m.serial
  BY <1>1, HeadOrder, ReceivedLast
<1>4. incoming'[d] = Append(incoming[d], m) /\ \A c \in Ends : c # d => incoming'[c] = incoming[c]
  BY <1>2, <1>t
<1>5. Numbers(incoming'[d], Message) = Numbers(incoming[d], Message) \cup {m.serial} /\ Rising(incoming'[d], Message)
  <2>1. Rising(incoming[d], Message)
    BY DEF Order, QueuesRise
  <2>2. \A k : k \in Numbers(Append(incoming[d], m), Message) <=> k \in Numbers(incoming[d], Message) \/ (m \in Message /\ k = m.serial)
    BY <1>3, <1>t, NumbersAppend
  <2>3. Rising(Append(incoming[d], m), Message)
    BY <1>3, <1>t, <2>1, NumbersAppend
  <2>4. QED BY <1>3, <1>4, <2>2, <2>3
<1>6. HeldLess
  BY <1>1 DEF Order, VectorsApart, HeldLess
<1>7. VectorsApart'
  BY <1>1 DEF Order, VectorsApart
<1>8. QueuesRise'
  BY <1>1, <1>4, <1>5, HeadOrder DEF Order, QueuesRise
<1>9. OrderAt(d)'
  <2>1. HeldAt(d)' = HeldAt(d)
    BY <1>1 DEF HeldAt
  <2>2. Ordered(Numbers(outgoing[PeerOf[d]], Plain), Numbers(wire'[d], Plain),
                Numbers(incoming[d], Message) \cup {m.serial}, HeldAt(d), Numbers(handled[d], Handled),
                serial[PeerOf[d]])
    BY <1>1, ReceivedLast
  <2>3. QED BY <1>1, <1>5, <2>1, <2>2 DEF OrderAt
<1>10. ASSUME NEW p \in Ends, p # d PROVE OrderAt(p)'
  <2>1. HeldAt(p)' \subseteq HeldAt(p)
    BY <1>6, HeldAtLess
  <2>2. Numbers(wire'[p], Plain) \subseteq Numbers(wire[p], Plain)
    BY <1>1, HeadOrder
  <2>3. QED BY <1>1, <1>4, <1>10, <2>1, <2>2, LoseAt
<1>11. QED BY <1>7, <1>8, <1>9, <1>10 DEF Order, InOrder

(* dispatchMessage() of a message that was received or held.                 *)
LEMMA HandleOrder ==
  ASSUME Types, Order, HeldLess, NEW k \in RunLoops, NEW d \in Ends, NEW m \in Message, NEW below,
         dispatchMessage(k, d, m, below), UNCHANGED <<outgoing, wire, serial>>,
         \A c \in Ends : c # d => incoming'[c] = incoming[c],
         Rising(incoming'[d], Message), Numbers(incoming'[d], Message) \subseteq Numbers(incoming[d], Message),
         m.serial \in Numbers(incoming[d], Message) \cup HeldAt(d),
         m.serial \notin Numbers(incoming'[d], Message), m.serial \notin HeldAt(d)'
  PROVE  Order'
<1> DEFINE h == [serial |-> m.serial, flagged |-> m.flagged]
           O == Numbers(outgoing[PeerOf[d]], Plain)
           W == Numbers(wire[d], Plain)
           I == Numbers(incoming[d], Message)
           J == Numbers(incoming'[d], Message)
           H == HeldAt(d)
           G == HeldAt(d)'
           D == Numbers(handled[d], Handled)
           n == serial[PeerOf[d]]
           x == m.serial
<1>t. handled \in [Ends -> Seq(Handled)]
  BY DEF Types, HistoryTypes
<1>1. CASE handled' = handled
  BY <1>1, LoseOrder DEF Order, QueuesRise
<1>2. CASE handled' = [handled EXCEPT ![d] = Append(handled[d], h)]
  <2>1. h \in Handled /\ h.serial = x
    BY DEF Handled, Message
  <2>2. handled'[d] = Append(handled[d], h) /\ \A c \in Ends : c # d => handled'[c] = handled[c]
    BY <1>2, <1>t
  <2>3. Ordered(O, W, I, H, D, n)
    BY DEF Order, InOrder, OrderAt
  <2>4. /\ O \in SUBSET Nat /\ W \in SUBSET Nat /\ I \in SUBSET Nat /\ H \in SUBSET Nat /\ D \in SUBSET Nat
        /\ n \in Nat /\ J \subseteq I /\ x \in I \cup H /\ x \notin J /\ x \notin G
    BY NumberSets
  <2>5. G \subseteq H
    BY HeldAtLess
  <2> HIDE DEF h
  <2>6. \A y : y \in Numbers(handled'[d], Handled) <=> y \in D \/ y = x
    BY <1>t, <2>1, <2>2, NumbersAppend
  <2>7. Numbers(handled'[d], Handled) = D \cup {x}
    BY <2>6
  <2>8. Ordered(O, W, J, G, D \cup {x}, n) => OrderAt(d)'
    BY <2>7 DEF OrderAt
  <2> HIDE DEF O, W, I, J, H, G, D, n, x
  <2>9. x \notin D /\ Ordered(O, W, J, G, D \cup {x}, n)
    BY <2>3, <2>4, <2>5 DEF Ordered
  <2>10. Once(handled'[d], Handled)
    <3>1. Once(handled[d], Handled)
      BY DEF Order, QueuesRise
    <3>2. h.serial \notin Numbers(handled[d], Handled)
      BY <2>1, <2>9 DEF D
    <3>3. QED BY <1>t, <2>1, <2>2, <3>1, <3>2, NumbersAppend
  <2>11. QueuesRise'
    BY <2>2, <2>10 DEF Order, QueuesRise
  <2>12. VectorsApart'
    BY DEF VectorsApart, HeldLess
  <2>13. ASSUME NEW p \in Ends, p # d PROVE OrderAt(p)'
    <3>1. HeldAt(p)' \subseteq HeldAt(p)
      BY HeldAtLess
    <3>2. handled'[p] = handled[p] /\ incoming'[p] = incoming[p]
      BY <2>2, <2>13
    <3>3. QED BY <3>1, <3>2, LoseAt
  <2>14. QED BY <2>8, <2>9, <2>11, <2>12, <2>13 DEF Order, InOrder
<1>3. QED BY <1>1, <1>2 DEF dispatchMessage

(* Every step keeps the order.                                               *)
LEMMA OrderStep == Types /\ OwnConnections /\ Order /\ [Next]_vars => Order'
<1> SUFFICES ASSUME Types, OwnConnections, Order, [Next]_vars PROVE Order'
  OBVIOUS
<1> USE DEF endVars, queueVars, loopVars
<1>t. /\ outgoing \in [Ends -> Seq(Message)] /\ wire \in [Ends -> Seq(Message)]
      /\ incoming \in [Ends -> Seq(Message)] /\ toDispatch \in [RunLoops -> Seq(ConnectionAndMessage)]
      /\ stack \in [RunLoops -> Seq(Frame)] /\ serial \in [Ends -> Nat]
  BY DEF Types, QueueTypes, LoopTypes, CountTypes
<1>v. VectorsApart /\ QueuesRise
  BY DEF Order
<1>u. UNCHANGED <<toDispatch, stack>> => HeldLess
  BY <1>v DEF VectorsApart, HeldLess
<1>1. ASSUME NEW d \in Ends, NEW ask \in BOOLEAN, SendAsync(d, ask) PROVE Order'
  <2> DEFINE m == [type |-> "async", id |-> 0, serial |-> serial[d] + 1, flagged |-> ask /\ Flagged(d)]
  <2>1. m \in Message /\ m.serial = serial[d] + 1
    BY <1>t DEF Message
  <2>2. sendMessage(d, m) /\ UNCHANGED <<wire, incoming, handled, toDispatch, stack>>
        /\ serial' = [serial EXCEPT ![d] = @ + 1]
    BY <1>1 DEF SendAsync
  <2> HIDE DEF m
  <2>3. QED BY <1>u, <2>1, <2>2, SendOrder
<1>2. ASSUME NEW d \in Ends, SendSync(d) PROVE Order'
  <2> DEFINE k == LoopOf[d]
             m == [type |-> "sync", id |-> syncRequestID[d] + 1,
                   serial |-> serial[d] + 1, flagged |-> Flagged(d)]
             f == NewFrame("check", d, m)
             g == NewFrame("swap", NoEnd, NoMessage)
             s == Append(stack[k], f)
  <2>1. m \in Message /\ m.serial = serial[d] + 1 /\ k \in RunLoops
    BY <1>t, LoopAssumption DEF Message, Flagged, Types, CountTypes
  <2>2. /\ sendMessage(d, m) /\ UNCHANGED <<wire, incoming, handled, toDispatch>>
        /\ serial' = [serial EXCEPT ![d] = @ + 1]
        /\ stack' = [stack EXCEPT ![k] = Append(s, g)]
    BY <1>2 DEF SendSync
  <2>3. /\ f \in Frame /\ g \in Frame /\ f.todo = <<>> /\ f.putBack = <<>> /\ g.todo = <<>> /\ g.putBack = <<>>
    <3>1. f \in Frame /\ g \in Frame
      BY <2>1, NewFrameType, NoMessageType
    <3>2. QED BY <3>1 DEF NewFrame
  <2>4. stack[k] \in Seq(Frame) /\ ApartIn(toDispatch[k], stack[k])
    BY <1>t, <1>v, <2>1 DEF VectorsApart
  <2> HIDE DEF f, g, m
  <2>5. s \in Seq(Frame) /\ ApartIn(toDispatch[k], s) /\ HeldIn(toDispatch[k], s) = HeldIn(toDispatch[k], stack[k])
    BY <2>3, <2>4, AppendFacts, PushHeld
  <2> HIDE DEF s
  <2>6. /\ ApartIn(toDispatch[k], Append(s, g))
        /\ HeldIn(toDispatch[k], Append(s, g)) = HeldIn(toDispatch[k], stack[k])
    BY <2>3, <2>5, PushHeld
  <2>7. HeldLess
    BY <1>v, <2>1, <2>2, <2>6, StackLess
  <2>8. QED BY <2>1, <2>2, <2>7, SendOrder
<1>3. ASSUME NEW k \in RunLoops, ProcessExits(k) PROVE Order'
  <2>1. /\ \A d \in Ends : outgoing'[d] \in {<<>>, outgoing[d]} /\ wire'[d] \in {<<>>, wire[d]}
        /\ \A d \in Ends : incoming'[d] \in {<<>>, incoming[d]}
        /\ UNCHANGED <<handled, serial>>
        /\ toDispatch' = [toDispatch EXCEPT ![k] = <<>>] /\ stack' = [stack EXCEPT ![k] = <<>>]
    BY <1>3, <1>t DEF ProcessExits
  <2>2. ApartIn(<<>>, <<>>) /\ HeldIn(<<>>, <<>>) = {}
    BY KeysEmpty, EmptyFacts DEF ApartIn, HeldIn, StackKeys, ApartStack
  <2>3. HeldLess
    BY <1>v, <2>1, <2>2, OneLess
  <2>4. \A d \in Ends : /\ Numbers(outgoing'[d], Plain) \subseteq Numbers(outgoing[d], Plain)
                        /\ Rising(outgoing'[d], Plain)
    BY <1>v, <2>1, NumbersEmpty DEF QueuesRise
  <2>5. \A d \in Ends : /\ Numbers(wire'[d], Plain) \subseteq Numbers(wire[d], Plain)
                        /\ Rising(wire'[d], Plain)
    BY <1>v, <2>1, NumbersEmpty DEF QueuesRise
  <2>6. \A d \in Ends : /\ Numbers(incoming'[d], Message) \subseteq Numbers(incoming[d], Message)
                        /\ Rising(incoming'[d], Message)
    BY <1>v, <2>1, NumbersEmpty DEF QueuesRise
  <2>7. QED BY <2>1, <2>3, <2>4, <2>5, <2>6, LoseOrder
<1>5. ASSUME NEW k \in RunLoops, HandlerReturns(k) PROVE Order'
  <2> DEFINE d == Top(k).conn
             m == Top(k).msg
             r == [m EXCEPT !.type = "reply", !.flagged = FALSE]
  <2>1. Top(k) \in Frame /\ d \in Ends /\ stack[k] # <<>>
    BY <1>5, OwnTop DEF HandlerReturns, At
  <2>2. m \in Message
    BY <2>1 DEF Frame
  <2>3. r \in Message /\ r.type = "reply"
    BY <2>2 DEF Message
  <2>4. HeldLess
    BY <1>5, <1>v, <2>1, PopLess DEF HandlerReturns
  <2>5. UNCHANGED <<wire, incoming, handled, serial>>
    BY <1>5 DEF HandlerReturns
  <2>6. CASE m.type = "sync" /\ client[d]
    <3>1. sendMessage(d, r)
      BY <1>5, <2>6 DEF HandlerReturns
    <3>2. r \notin Plain
      BY <2>3 DEF Plain
    <3>3. QED BY <2>1, <2>3, <2>4, <2>5, <3>1, <3>2, SendOrder
  <2>7. CASE ~(m.type = "sync" /\ client[d])
    <3>1. UNCHANGED outgoing
      BY <1>5, <2>7 DEF HandlerReturns
    <3>2. QED BY <2>4, <2>5, <3>1, SameOrder
  <2>8. QED BY <2>6, <2>7
<1>6. ASSUME NEW k \in RunLoops, ExitNestedLoop(k) PROVE Order'
  <2>1. HeldLess
    BY <1>6, <1>v, PopLess DEF ExitNestedLoop, At
  <2>2. UNCHANGED <<outgoing, wire, incoming, handled, serial>>
    BY <1>6 DEF ExitNestedLoop
  <2>3. QED BY <2>1, <2>2, SameOrder
<1>8. ASSUME NEW k \in RunLoops, EnterNestedLoop(k) PROVE Order'
  <2> DEFINE f == NewFrame("nested", NoEnd, NoMessage)
  <2>1. f \in Frame
    BY NewFrameType, NoMessageType
  <2>2. f.todo = <<>> /\ f.putBack = <<>>
    BY DEF NewFrame
  <2>3. /\ stack' = [stack EXCEPT ![k] = Append(stack[k], f)]
        /\ UNCHANGED <<outgoing, wire, incoming, handled, serial, toDispatch>>
    BY <1>8 DEF EnterNestedLoop
  <2> HIDE DEF f
  <2>4. HeldLess
    BY <1>v, <2>1, <2>2, <2>3, PushLess
  <2>5. QED BY <2>3, <2>4, SameOrder
<1>9. ASSUME NEW k \in RunLoops, dispatchMessagesForConnection(k) PROVE Order'
  <2> DEFINE d == Head(functions[k]).conn
             f == NewFrame("swap", d, NoMessage)
  <2>1. Head(functions[k]) \in Function
    BY <1>9, TailFacts DEF dispatchMessagesForConnection, NextFunction, Types, LoopTypes
  <2>2. d \in Ends
    BY <2>1 DEF Function
  <2>3. f \in Frame
    BY <2>2, NewFrameType, NoMessageType
  <2>4. f.todo = <<>> /\ f.putBack = <<>>
    BY DEF NewFrame
  <2>5. /\ stack' = [stack EXCEPT ![k] = Append(stack[k], f)]
        /\ UNCHANGED <<outgoing, wire, incoming, handled, serial, toDispatch>>
    BY <1>9 DEF dispatchMessagesForConnection
  <2> HIDE DEF f
  <2>6. HeldLess
    BY <1>v, <2>3, <2>4, <2>5, PushLess
  <2>7. QED BY <2>5, <2>6, SameOrder
<1>10. ASSUME NEW k \in RunLoops, dispatchOneMessage(k) PROVE Order'
  <2>0. PICK d : d = Head(functions[k]).conn
    OBVIOUS
  <2> DEFINE m == Head(incoming[d])
  <2>1. Head(functions[k]) \in OwnFunction(k)
    BY <1>10, TailFacts DEF dispatchOneMessage, NextFunction, OwnConnections
  <2>2. d \in Ends /\ LoopOf[d] = k
    BY <2>0, <2>1 DEF OwnFunction, Function
  <2>3. UNCHANGED <<outgoing, wire, toDispatch, serial>>
    BY <1>10 DEF dispatchOneMessage
  <2>4. CASE incoming[d] = <<>>
    <3>1. UNCHANGED <<incoming, stack, handled>>
      BY <1>10, <2>0, <2>4 DEF dispatchOneMessage
    <3>2. QED BY <1>u, <2>3, <3>1, SameOrder
  <2>5. CASE incoming[d] # <<>>
    <3>1. incoming[d] \in Seq(Message) /\ m \in Message /\ stack[k] \in Seq(Frame)
      BY <1>t, <2>2, <2>5, TailFacts
    <3>2. incoming' = [incoming EXCEPT ![d] = Tail(incoming[d])] /\ dispatchMessage(k, d, m, stack[k])
      BY <1>10, <2>0, <2>5 DEF dispatchOneMessage
    <3> HIDE DEF m
    <3>3. ApartIn(toDispatch[k], stack[k])
      BY <1>v DEF VectorsApart
    <3>4. HeldLess
      BY <1>v, <2>2, <2>3, <3>1, <3>2, <3>3, DispatchLess
    <3>5. incoming'[d] = Tail(incoming[d]) /\ \A c \in Ends : c # d => incoming'[c] = incoming[c]
      BY <1>t, <2>2, <3>2
    <3>6. /\ Rising(incoming'[d], Message) /\ Numbers(incoming'[d], Message) \subseteq Numbers(incoming[d], Message)
          /\ m.serial \in Numbers(incoming[d], Message) /\ \A n \in Numbers(incoming'[d], Message) : m.serial < n
      BY <1>v, <2>2, <2>5, <3>1, <3>5, NumbersTail DEF QueuesRise, m
    <3>7. m.serial \notin Numbers(incoming'[d], Message)
      <4>1. m.serial \in Nat
        BY <3>1 DEF Message
      <4>2. QED BY <3>6, <4>1
    <3>8. m.serial \notin HeldAt(d)'
      <4>1. HeldAt(d)' \subseteq HeldAt(d)
        BY <2>2, <3>4, HeldAtLess
      <4>2. OrderAt(d)
        BY <2>2 DEF Order, InOrder
      <4>3. m.serial \notin HeldAt(d)
        BY <3>6, <4>2 DEF OrderAt, Ordered
      <4>4. QED BY <4>1, <4>3
    <3>9. QED BY <2>2, <2>3, <3>1, <3>2, <3>4, <3>5, <3>6, <3>7, <3>8, HandleOrder
  <2>6. QED BY <2>4, <2>5
<1>13. ASSUME NEW k \in RunLoops, SwapMessages(k) PROVE Order'
  <2> DEFINE f == [Top(k) EXCEPT !.at = "dispatch", !.todo = toDispatch[k]]
  <2>1. /\ Top(k) \in Frame /\ Top(k) \in OwnFrame(k) /\ stack[k] # <<>>
        /\ toDispatch[k] \in Seq(ConnectionAndMessage) /\ Top(k).at = "swap" /\ stack[k] \in Seq(Frame)
    BY <1>13, <1>t, OwnTop DEF SwapMessages, At
  <2>2. f \in Frame /\ f.todo = toDispatch[k] /\ f.putBack = Top(k).putBack
    BY <2>1 DEF Frame
  <2>3. f.putBack = <<>>
    BY <2>1, <2>2 DEF OwnFrame
  <2>4. /\ stack' = [stack EXCEPT ![k] = Append(Front(stack[k]), f)]
        /\ toDispatch' = [toDispatch EXCEPT ![k] = <<>>]
        /\ UNCHANGED <<outgoing, wire, incoming, handled, serial>>
    BY <1>13 DEF SwapMessages
  <2> HIDE DEF f
  <2>5. ApartIn(toDispatch[k], stack[k])
    BY <1>v DEF VectorsApart
  <2>6. /\ ApartIn(<<>>, Append(Front(stack[k]), f))
        /\ HeldIn(<<>>, Append(Front(stack[k]), f)) \subseteq HeldIn(toDispatch[k], stack[k])
    BY <2>1, <2>2, <2>3, <2>5, SwapHeld
  <2>7. HeldLess
    BY <1>v, <2>4, <2>6, OneLess
  <2>8. QED BY <2>4, <2>7, SameOrder
<1>14. ASSUME NEW k \in RunLoops, DispatchNext(k) PROVE Order'
  <2> DEFINE f == Top(k)
             next == Head(f.todo)
             kept == [f EXCEPT !.todo = Tail(f.todo), !.putBack = Append(f.putBack, next)]
             taken == [f EXCEPT !.todo = Tail(f.todo)]
  <2>1. /\ f \in Frame /\ f \in OwnFrame(k) /\ stack[k] # <<>> /\ f.todo # <<>> /\ f = stack[k][Len(stack[k])]
        /\ f.todo \in Seq(ConnectionAndMessage) /\ f.putBack \in Seq(ConnectionAndMessage)
        /\ f.todo \in Seq(OwnItem(k)) /\ stack[k] \in Seq(Frame)
    <3>1. f \in Frame /\ f \in OwnFrame(k) /\ stack[k] # <<>> /\ f.todo # <<>> /\ f = stack[k][Len(stack[k])]
      BY <1>14, OwnTop DEF DispatchNext, At, Top
    <3>2. QED BY <1>t, <3>1 DEF Frame, OwnFrame
  <2>2. next \in ConnectionAndMessage /\ next \in OwnItem(k) /\ Tail(f.todo) \in Seq(ConnectionAndMessage)
    BY <2>1, TailFacts
  <2>3. next.conn \in Ends /\ next.msg \in Message /\ LoopOf[next.conn] = k /\ next.msg.serial \in Nat
    BY <2>2 DEF ConnectionAndMessage, OwnItem, Message
  <2>4. UNCHANGED <<outgoing, incoming, wire, toDispatch, serial>>
    BY <1>14 DEF DispatchNext
  <2>5. ApartIn(toDispatch[k], stack[k])
    BY <1>v DEF VectorsApart
  <2>7. CASE f.conn \notin {NoEnd, next.conn}
    <3>1. Append(f.putBack, next) \in Seq(ConnectionAndMessage)
      BY <2>1, <2>2, AppendFacts
    <3>2. kept \in Frame /\ kept.todo = Tail(f.todo) /\ kept.putBack = Append(f.putBack, next)
      BY <2>1, <2>2, <3>1 DEF Frame
    <3>3. stack' = [stack EXCEPT ![k] = Append(Front(stack[k]), kept)] /\ UNCHANGED handled
      BY <1>14, <2>7 DEF DispatchNext
    <3> HIDE DEF kept, f
    <3>4. /\ ApartIn(toDispatch[k], Append(Front(stack[k]), kept))
          /\ HeldIn(toDispatch[k], Append(Front(stack[k]), kept)) \subseteq HeldIn(toDispatch[k], stack[k])
      BY <2>1, <2>5, <3>2, KeepHeld
    <3>5. HeldLess
      BY <1>v, <2>4, <3>3, <3>4, StackLess
    <3>6. QED BY <2>4, <3>3, <3>5, SameOrder
  <2>8. CASE f.conn \in {NoEnd, next.conn}
    <3>0. PICK d, m : d = next.conn /\ m = next.msg
      OBVIOUS
    <3> DEFINE below == Append(Front(stack[k]), taken)
    <3>1. taken \in Frame /\ taken.todo = Tail(f.todo) /\ taken.putBack = f.putBack
      BY <2>1, <2>2 DEF Frame
    <3>2. dispatchMessage(k, d, m, below)
      BY <1>14, <2>8, <3>0 DEF DispatchNext
    <3> HIDE DEF taken, f
    <3>3. below \in Seq(Frame)
      BY <2>1, <3>1, FrontFacts, AppendFacts
    <3>4. /\ ApartIn(toDispatch[k], below)
          /\ HeldIn(toDispatch[k], below) \subseteq HeldIn(toDispatch[k], stack[k])
          /\ Key(next) \in HeldIn(toDispatch[k], stack[k]) /\ Key(next) \notin HeldIn(toDispatch[k], below)
      BY <2>1, <2>5, <3>1, TakeHeld
    <3>5. d \in Ends /\ m \in Message /\ LoopOf[d] = k /\ m.serial \in Nat /\ Key(next) = <<d, m.serial>>
      BY <2>3, <3>0 DEF Key
    <3> HIDE DEF below, next
    <3>6. HeldLess /\ HeldIn(toDispatch'[k], stack'[k]) \subseteq HeldIn(toDispatch[k], below)
      BY <1>v, <2>4, <3>2, <3>3, <3>4, <3>5, DispatchLess
    <3>7. m.serial \in HeldAt(d)
      BY <3>4, <3>5 DEF HeldAt
    <3>8. m.serial \notin HeldAt(d)'
      BY <3>4, <3>5, <3>6 DEF HeldAt
    <3>9. m.serial \notin Numbers(incoming[d], Message)
      <4>1. OrderAt(d)
        BY <3>5 DEF Order, InOrder
      <4>2. QED BY <3>7, <4>1 DEF OrderAt, Ordered
    <3>10. Rising(incoming[d], Message)
      BY <1>v, <3>5 DEF QueuesRise
    <3>11. QED BY <2>4, <3>2, <3>5, <3>6, <3>7, <3>8, <3>9, <3>10, HandleOrder
  <2>9. QED BY <2>7, <2>8
<1>15. ASSUME NEW k \in RunLoops, EndDispatchMessages(k) PROVE Order'
  <2>1. stack[k] # <<>> /\ stack[k] \in Seq(Frame) /\ toDispatch[k] \in Seq(ConnectionAndMessage)
        /\ Top(k) = stack[k][Len(stack[k])]
    BY <1>15, <1>t DEF EndDispatchMessages, At, Top
  <2>2. /\ stack' = [stack EXCEPT ![k] = Front(stack[k])]
        /\ toDispatch' = [toDispatch EXCEPT ![k] = toDispatch[k] \o Top(k).putBack]
        /\ UNCHANGED <<outgoing, wire, incoming, handled, serial>>
    BY <1>15 DEF EndDispatchMessages
  <2>3. ApartIn(toDispatch[k], stack[k])
    BY <1>v DEF VectorsApart
  <2>4. /\ ApartIn(toDispatch[k] \o Top(k).putBack, Front(stack[k]))
        /\ HeldIn(toDispatch[k] \o Top(k).putBack, Front(stack[k])) \subseteq HeldIn(toDispatch[k], stack[k])
    BY <2>1, <2>3, EndHeld
  <2>5. HeldLess
    BY <1>v, <2>2, <2>4, OneLess
  <2>6. QED BY <2>2, <2>5, SameOrder
<1>16. ASSUME NEW k \in RunLoops, ReturnReply(k) \/ GiveUp(k) \/ TimeOut(k) PROVE Order'
  <2>1. stack[k] # <<>>
    BY <1>16 DEF ReturnReply, GiveUp, TimeOut, At
  <2>2. ASSUME NEW d, PopPendingReply(k, d) PROVE Order'
    <3>1. HeldLess
      BY <1>v, <2>1, <2>2, PopLess DEF PopPendingReply
    <3>2. UNCHANGED <<outgoing, wire, incoming, handled, serial>>
      BY <2>2 DEF PopPendingReply
    <3>3. QED BY <3>1, <3>2, SameOrder
  <2>3. QED
    BY <1>3, <1>16, <2>2 DEF ReturnReply, GiveUp, TimeOut, SyncSendFails
<1>18. ASSUME NEW k \in RunLoops, Sleep(k) PROVE Order'
  <2> DEFINE s == Append(Front(stack[k]), [Top(k) EXCEPT !.at = "sleep"])
  <2>1. ApartIn(toDispatch[k], s) /\ HeldIn(toDispatch[k], s) \subseteq HeldIn(toDispatch[k], stack[k])
    BY <1>18, <1>v, WaitingFrame DEF Sleep, At
  <2>2. stack' = [stack EXCEPT ![k] = s] /\ UNCHANGED <<outgoing, wire, incoming, handled, serial, toDispatch>>
    BY <1>18 DEF Sleep
  <2> HIDE DEF s
  <2>3. HeldLess
    BY <1>v, <2>1, <2>2, StackLess
  <2>4. QED BY <2>2, <2>3, SameOrder
<1>19. ASSUME NEW k \in RunLoops, WakeUp(k) PROVE Order'
  <2> DEFINE s == Append(Front(stack[k]), [Top(k) EXCEPT !.at = "check"])
             g == NewFrame("swap", NoEnd, NoMessage)
  <2>1. /\ ApartIn(toDispatch[k], s) /\ HeldIn(toDispatch[k], s) \subseteq HeldIn(toDispatch[k], stack[k])
        /\ s \in Seq(Frame)
    BY <1>19, <1>v, WaitingFrame DEF WakeUp, At
  <2>2. /\ stack' = [stack EXCEPT ![k] = Append(s, g)]
        /\ UNCHANGED <<outgoing, wire, incoming, handled, serial, toDispatch>>
    BY <1>19 DEF WakeUp
  <2>3. g \in Frame
    BY NewFrameType, NoMessageType
  <2>4. g.todo = <<>> /\ g.putBack = <<>>
    BY DEF NewFrame
  <2> HIDE DEF s, g
  <2>5. ApartIn(toDispatch[k], Append(s, g)) /\ HeldIn(toDispatch[k], Append(s, g)) = HeldIn(toDispatch[k], s)
    BY <2>1, <2>3, <2>4, PushHeld
  <2>6. HeldLess
    BY <1>v, <2>1, <2>2, <2>5, StackLess
  <2>7. QED BY <2>2, <2>6, SameOrder
<1>21. ASSUME NEW d \in Ends, PlatformInvalidate(d) \/ connectionDidClose(d) PROVE Order'
  <2>1. wire' = [wire EXCEPT ![d] = <<>>] /\ UNCHANGED <<outgoing, incoming, toDispatch, stack, handled, serial>>
    BY <1>21 DEF PlatformInvalidate, connectionDidClose
  <2>2. \A c \in Ends : wire'[c] \in {<<>>, wire[c]}
    BY <1>t, <2>1
  <2>3. \A c \in Ends : Numbers(wire'[c], Plain) \subseteq Numbers(wire[c], Plain) /\ Rising(wire'[c], Plain)
    BY <1>v, <2>2, NumbersEmpty DEF QueuesRise
  <2>4. QED BY <1>u, <1>v, <2>1, <2>3, LoseOrder DEF QueuesRise
<1>23. ASSUME NEW d \in Ends, ReceiveReply(d) \/ ReceiveOtherReply(d) PROVE Order'
  <2>1. Receive(d) /\ UNCHANGED <<outgoing, incoming, toDispatch, stack, handled, serial>>
    BY <1>23 DEF ReceiveReply, ReceiveOtherReply
  <2>2. QED BY <1>u, <1>v, <2>1, HeadOrder, LoseOrder DEF QueuesRise
<1>26. ASSUME UNCHANGED <<outgoing, incoming, wire, toDispatch, stack, handled, serial>> PROVE Order'
  BY <1>26, <1>u, SameOrder
<1>27. ASSUME NEW d \in Ends, Invalidate(d) \/ wakeUpClientRunLoop(d) PROVE Order'
  BY <1>26, <1>27 DEF Invalidate, wakeUpClientRunLoop
<1>28. ASSUME NEW k \in RunLoops, dispatchConnectionDidClose(k) PROVE Order'
  BY <1>26, <1>28 DEF dispatchConnectionDidClose
<1>29. ASSUME NEW t \in SecondaryThreads, SecondaryRegister(t) \/ SecondaryReturn(t) PROVE Order'
  BY <1>26, <1>29 DEF SecondaryRegister, SecondaryReturn
<1>30. ASSUME NEW t \in SecondaryThreads, SecondarySend(t) PROVE Order'
  <2> DEFINE d == SecondaryEnd[t]
             m == [type |-> "sync", id |-> secondary[t].id, serial |-> serial[d] + 1, flagged |-> FALSE]
  <2>1. d \in Ends /\ UNCHANGED <<incoming, wire, toDispatch, stack, handled>>
    BY <1>30, SecondaryAssumption DEF SecondarySend
  <2>2. m \in Message /\ m.serial = serial[d] + 1
    BY <2>1 DEF Message, Types, CountTypes, HistoryTypes, Wait
  <2>3. CASE ~client[d]
    BY <1>26, <1>30, <2>1, <2>3 DEF SecondarySend
  <2>4. CASE client[d]
    <3>1. sendMessage(d, m) /\ serial' = [serial EXCEPT ![d] = @ + 1]
      BY <1>30, <2>4 DEF SecondarySend
    <3> HIDE DEF m, d
    <3>2. QED BY <1>u, <2>1, <2>2, <3>1, SendOrder
  <2>5. QED BY <2>3, <2>4
<1>31. ASSUME UNCHANGED vars PROVE Order'
  BY <1>26, <1>31 DEF vars
<1>32. ASSUME NEW d \in Ends, SendSyncFails(d) PROVE Order'
  BY <1>3, <1>32, LoopAssumption DEF SendSyncFails
<1>33. QED
  BY <1>1, <1>2, <1>3, <1>5, <1>6, <1>8, <1>9, <1>10, <1>13, <1>14, <1>15, <1>16, <1>18, <1>19, <1>21, <1>23,
     <1>27, <1>28, <1>29, <1>30, <1>31, <1>32, WriteOrder, FlaggedOrder, UnflaggedOrder
     DEF Next, ClientThread, performWork, ConnectionQueue, ClientDecides, Crash

(* Initially there are no messages.                                          *)
LEMMA InitOrder == Init => Order
<1> SUFFICES ASSUME Init PROVE Order
  OBVIOUS
<1>1. /\ \A e \in Ends : outgoing[e] = <<>> /\ wire[e] = <<>> /\ incoming[e] = <<>> /\ handled[e] = <<>> /\ serial[e] = 0
      /\ \A l \in RunLoops : toDispatch[l] = <<>> /\ stack[l] = <<>>
  BY DEF Init
<1>2. ApartIn(<<>>, <<>>) /\ HeldIn(<<>>, <<>>) = {}
  BY KeysEmpty, EmptyFacts DEF ApartIn, HeldIn, StackKeys, ApartStack
<1>3. VectorsApart
  BY <1>1, <1>2 DEF VectorsApart
<1>4. QueuesRise
  BY <1>1, NumbersEmpty DEF QueuesRise
<1>5. ASSUME NEW p \in Ends PROVE OrderAt(p)
  <2>1. PeerOf[p] \in Ends /\ LoopOf[p] \in RunLoops
    BY PeerAssumption, LoopAssumption
  <2>2. HeldAt(p) = {}
    BY <1>1, <1>2, <2>1 DEF HeldAt
  <2>3. QED BY <1>1, <2>1, <2>2, NumbersEmpty DEF OrderAt, Ordered
<1>6. QED BY <1>3, <1>4, <1>5 DEF Order, InOrder

(* The invariant of the order of messages.                                   *)
LEMMA OrderInvariant == Spec => [](Types /\ OwnConnections /\ Order)
<1>1. Init => Types /\ OwnConnections /\ Order
  BY InitTypes, InitOrder
<1>2. Types /\ OwnConnections /\ Order /\ [Next]_vars => (Types /\ OwnConnections /\ Order)'
  BY TypesStep, OwnStep, OrderStep
<1>3. QED BY <1>1, <1>2, PTL DEF Spec

(* A message reaches its handler at most once, whatever moves it between     *)
(* the queues of the run loop and the vectors of nested dispatchMessages().  *)
THEOREM MessagesHandledOnce == Spec => []HandledOnce
<1>1. Types /\ Order => HandledOnce
  <2> SUFFICES ASSUME Types, Order PROVE HandledOnce
    OBVIOUS
  <2>1. \A e \in Ends : handled[e] \in Seq(Handled) /\ Once(handled[e], Handled)
    BY DEF Order, QueuesRise, Types, HistoryTypes
  <2>2. \A e \in Ends : \A i \in DOMAIN handled[e] : i \in Positions(handled[e], Handled)
    BY <2>1 DEF Positions
  <2>3. QED BY <2>1, <2>2 DEF HandledOnce, Once
<1>2. QED BY <1>1, OrderInvariant, PTL

-----------------------------------------------------------------------------
(* The messages a run loop holds for dispatchMessages, and those of them     *)
(* that will be left when its client thread is back in the run loop: a       *)
(* dispatchMessages(c) takes only those of c, one with NoEnd takes all.      *)
Items(v) == {v[i] : i \in DOMAIN v}
FrameItems(f) == Items(f.todo) \cup Items(f.putBack)
FrameLeft(f) == {x \in FrameItems(f) : f.conn \notin {NoEnd, x.conn}}
StackItems(s) == UNION {FrameItems(s[k]) : k \in DOMAIN s}
StackLeft(s) == UNION {FrameLeft(s[k]) : k \in DOMAIN s}
Swaps(s) == s # <<>> /\ s[Len(s)].at = "swap"
Takes(s, e) == Swaps(s) /\ s[Len(s)].conn \in {NoEnd, e}
AllItems(q, s) == Items(q) \cup StackItems(s)
LeftItems(q, s) == {x \in Items(q) : ~Takes(s, x.conn)} \cup StackLeft(s)
Fewer(q, s, r, t) == AllItems(r, t) \subseteq AllItems(q, s) /\ LeftItems(r, t) \subseteq LeftItems(q, s)

(* What the operations on vectors do to their items.                         *)
LEMMA ItemsEmpty == Items(<<>>) = {}
BY EmptyFacts DEF Items

(* Append adds its element.                                                  *)
LEMMA ItemsAppend ==
  ASSUME NEW T, NEW v \in Seq(T), NEW x \in T
  PROVE  Items(Append(v, x)) = Items(v) \cup {x}
<1> DEFINE w == Append(v, x)
<1>1. /\ DOMAIN w = 1 .. Len(v) + 1 /\ DOMAIN v = 1 .. Len(v) /\ Len(v) \in Nat
      /\ \A i \in 1 .. Len(v) : w[i] = v[i]
      /\ w[Len(v) + 1] = x
  BY AppendFacts
<1> HIDE DEF w
<1>2. \A i \in DOMAIN w : (i \in DOMAIN v /\ w[i] = v[i]) \/ w[i] = x
  BY <1>1
<1>3. DOMAIN v \subseteq DOMAIN w /\ Len(v) + 1 \in DOMAIN w
  BY <1>1
<1>4. QED BY <1>1, <1>2, <1>3 DEF Items, w

(* A vector is its first item and its tail.                                  *)
LEMMA ItemsTail ==
  ASSUME NEW T, NEW v \in Seq(T), v # <<>>
  PROVE  Items(v) = Items(Tail(v)) \cup {Head(v)}
<1> DEFINE w == Tail(v)
           x == Head(v)
<1>1. /\ DOMAIN w = 1 .. Len(v) - 1 /\ DOMAIN v = 1 .. Len(v) /\ Len(v) \in Nat /\ Len(v) > 0
      /\ \A i \in 1 .. Len(v) - 1 : w[i] = v[i + 1]
      /\ x = v[1]
  BY TailFacts
<1> HIDE DEF w, x
<1>2. \A i \in DOMAIN w : i + 1 \in DOMAIN v /\ w[i] = v[i + 1]
  BY <1>1
<1>3. \A i \in DOMAIN v : v[i] = x \/ (i - 1 \in DOMAIN w /\ w[i - 1] = v[i])
  BY <1>1
<1>4. 1 \in DOMAIN v
  BY <1>1
<1>5. QED BY <1>1, <1>2, <1>3, <1>4 DEF Items, w, x

(* A concatenation has no item of its own.                                   *)
LEMMA ItemsConcat ==
  ASSUME NEW T, NEW v \in Seq(T), NEW w \in Seq(T)
  PROVE  Items(v \o w) \subseteq Items(v) \cup Items(w)
<1> DEFINE u == v \o w
<1>1. /\ DOMAIN u = 1 .. Len(v) + Len(w) /\ DOMAIN v = 1 .. Len(v) /\ Len(v) \in Nat
      /\ DOMAIN w = 1 .. Len(w) /\ Len(w) \in Nat
      /\ \A i \in 1 .. Len(v) : u[i] = v[i]
      /\ \A i \in 1 .. Len(w) : u[Len(v) + i] = w[i]
  BY ConcatFacts
<1> HIDE DEF u
<1>2. ASSUME NEW i \in DOMAIN u
      PROVE  (i \in DOMAIN v /\ u[i] = v[i]) \/ (i - Len(v) \in DOMAIN w /\ u[i] = w[i - Len(v)])
  <2>1. CASE i <= Len(v)
    BY <1>1, <2>1
  <2>2. CASE ~(i <= Len(v))
    <3>1. i - Len(v) \in 1 .. Len(w) /\ Len(v) + (i - Len(v)) = i
      BY <1>1, <2>2
    <3>2. QED BY <1>1, <3>1
  <2>3. QED BY <2>1, <2>2
<1>3. QED BY <1>2 DEF Items, u

(* What pushing and popping a frame does to the items on a stack.            *)
LEMMA PushItems ==
  ASSUME NEW s \in Seq(Frame), NEW f \in Frame
  PROVE  LET t == Append(s, f)
         IN  /\ StackItems(t) = StackItems(s) \cup FrameItems(f) /\ StackLeft(t) = StackLeft(s) \cup FrameLeft(f)
             /\ t \in Seq(Frame) /\ t # <<>> /\ t[Len(t)] = f
<1> DEFINE t == Append(s, f)
<1>1. /\ DOMAIN t = 1 .. Len(s) + 1 /\ DOMAIN s = 1 .. Len(s) /\ Len(s) \in Nat /\ t \in Seq(Frame)
      /\ \A i \in 1 .. Len(s) : t[i] = s[i]
      /\ t[Len(s) + 1] = f /\ Len(t) = Len(s) + 1
  BY AppendFacts
<1> HIDE DEF t
<1>2. \A i \in DOMAIN t : (i \in DOMAIN s /\ t[i] = s[i]) \/ t[i] = f
  BY <1>1
<1>3. DOMAIN s \subseteq DOMAIN t /\ Len(s) + 1 \in DOMAIN t
  BY <1>1
<1>4. StackItems(t) = StackItems(s) \cup FrameItems(f)
  BY <1>1, <1>2, <1>3 DEF StackItems
<1>5. StackLeft(t) = StackLeft(s) \cup FrameLeft(f)
  BY <1>1, <1>2, <1>3 DEF StackLeft
<1>6. t # <<>>
  BY <1>1
<1>7. QED BY <1>1, <1>4, <1>5, <1>6 DEF t

(* The items of a stack are those of its last frame and those below it.      *)
LEMMA PopItems ==
  ASSUME NEW s \in Seq(Frame), s # <<>>
  PROVE  /\ StackItems(s) = StackItems(Front(s)) \cup FrameItems(s[Len(s)])
         /\ StackLeft(s) = StackLeft(Front(s)) \cup FrameLeft(s[Len(s)])
         /\ Front(s) \in Seq(Frame) /\ s[Len(s)] \in Frame
<1>1. Front(s) \in Seq(Frame) /\ s[Len(s)] \in Frame /\ s = Append(Front(s), s[Len(s)])
  <2>1. /\ Front(s) \in Seq(Frame) /\ s[Len(s)] \in Frame /\ Len(Front(s)) = Len(s) - 1
        /\ Len(s) \in Nat /\ Len(s) > 0 /\ \A i \in 1 .. Len(s) - 1 : Front(s)[i] = s[i]
    BY FrontFacts
  <2> DEFINE t == Append(Front(s), s[Len(s)])
  <2>2. t \in Seq(Frame) /\ Len(t) = Len(s)
    BY <2>1, AppendFacts
  <2>3. \A i \in 1 .. Len(s) : t[i] = s[i]
    BY <2>1, AppendFacts
  <2>4. s = t
    BY <2>2, <2>3, SeqEqual
  <2>5. QED BY <2>1, <2>4
<1> DEFINE r == Front(s)
           f == s[Len(s)]
<1>2. StackItems(Append(r, f)) = StackItems(r) \cup FrameItems(f) /\ StackLeft(Append(r, f)) = StackLeft(r) \cup FrameLeft(f)
  BY <1>1, PushItems
<1>3. QED BY <1>1, <1>2

(* A frame without vectors is pushed on one that is not about to swap.       *)
LEMMA PushFewer ==
  ASSUME NEW q, NEW s \in Seq(Frame), NEW f \in Frame, ~Swaps(s), f.todo = <<>>, f.putBack = <<>>
  PROVE  Fewer(q, s, q, Append(s, f))
<1>1. FrameItems(f) = {} /\ FrameLeft(f) = {}
  BY ItemsEmpty DEF FrameItems, FrameLeft
<1>2. StackItems(Append(s, f)) = StackItems(s) /\ StackLeft(Append(s, f)) = StackLeft(s)
  <2>1. /\ StackItems(Append(s, f)) = StackItems(s) \cup FrameItems(f)
        /\ StackLeft(Append(s, f)) = StackLeft(s) \cup FrameLeft(f)
    BY PushItems
  <2>2. QED BY <1>1, <2>1
<1>3. QED BY <1>2 DEF Fewer, AllItems, LeftItems, Takes

(* The frame at the top, which is not about to swap, is replaced ...         *)
LEMMA TurnFewer ==
  ASSUME NEW q, NEW s \in Seq(Frame), s # <<>>, NEW f \in Frame, ~Swaps(s), f.conn = s[Len(s)].conn,
         FrameItems(f) \subseteq FrameItems(s[Len(s)])
  PROVE  Fewer(q, s, q, Append(Front(s), f)) /\ Append(Front(s), f) \in Seq(Frame)
<1> DEFINE r == Front(s)
           g == s[Len(s)]
<1>1. /\ StackItems(s) = StackItems(r) \cup FrameItems(g) /\ StackLeft(s) = StackLeft(r) \cup FrameLeft(g)
      /\ r \in Seq(Frame)
  BY PopItems
<1>2. FrameLeft(f) \subseteq FrameLeft(g)
  BY DEF FrameLeft
<1> HIDE DEF r
<1>3. /\ StackItems(Append(r, f)) = StackItems(r) \cup FrameItems(f)
      /\ StackLeft(Append(r, f)) = StackLeft(r) \cup FrameLeft(f) /\ Append(r, f) \in Seq(Frame)
  BY <1>1, PushItems
<1>4. StackItems(Append(r, f)) \subseteq StackItems(s) /\ StackLeft(Append(r, f)) \subseteq StackLeft(s)
  BY <1>1, <1>2, <1>3
<1>5. QED BY <1>3, <1>4 DEF Fewer, AllItems, LeftItems, Takes, r

(* ... or popped.                                                            *)
LEMMA PopFewer ==
  ASSUME NEW q, NEW s \in Seq(Frame), s # <<>>, ~Swaps(s)
  PROVE  Fewer(q, s, q, Front(s))
<1>1. StackItems(Front(s)) \subseteq StackItems(s) /\ StackLeft(Front(s)) \subseteq StackLeft(s)
  BY PopItems
<1>2. QED BY <1>1 DEF Fewer, AllItems, LeftItems, Takes

(* dispatchMessages() moves the queue to its frame: what it takes is not     *)
(* left, ...                                                                 *)
LEMMA SwapFewer ==
  ASSUME NEW q, NEW s \in Seq(Frame), Swaps(s), NEW f \in Frame, f.conn = s[Len(s)].conn,
         f.todo = q, f.putBack = <<>>
  PROVE  Fewer(q, s, <<>>, Append(Front(s), f))
<1> DEFINE r == Front(s)
<1>1. s # <<>>
  BY DEF Swaps
<1>2. r \in Seq(Frame) /\ StackItems(r) \subseteq StackItems(s) /\ StackLeft(r) \subseteq StackLeft(s)
  BY <1>1, PopItems
<1>3. FrameItems(f) = Items(q)
  BY ItemsEmpty DEF FrameItems
<1>4. FrameLeft(f) = {x \in Items(q) : ~Takes(s, x.conn)}
  BY <1>3 DEF FrameLeft, Takes
<1> HIDE DEF r
<1>5. /\ StackItems(Append(r, f)) = StackItems(r) \cup FrameItems(f)
      /\ StackLeft(Append(r, f)) = StackLeft(r) \cup FrameLeft(f)
  BY <1>2, PushItems
<1>6. QED BY <1>2, <1>3, <1>4, <1>5, ItemsEmpty DEF Fewer, AllItems, LeftItems, r

(* ... and what it puts back was.                                            *)
LEMMA EndFewer ==
  ASSUME NEW q \in Seq(ConnectionAndMessage), NEW s \in Seq(Frame), s # <<>>, ~Swaps(s),
         NEW b \in Seq(ConnectionAndMessage), b = s[Len(s)].putBack,
         \A x \in Items(b) : s[Len(s)].conn \notin {NoEnd, x.conn}
  PROVE  Fewer(q, s, q \o b, Front(s))
<1>1. /\ StackItems(s) = StackItems(Front(s)) \cup FrameItems(s[Len(s)])
      /\ StackLeft(s) = StackLeft(Front(s)) \cup FrameLeft(s[Len(s)])
  BY PopItems
<1>2. Items(b) \subseteq FrameItems(s[Len(s)]) /\ Items(b) \subseteq FrameLeft(s[Len(s)])
  BY DEF FrameItems, FrameLeft
<1>3. Items(q \o b) \subseteq Items(q) \cup Items(b)
  BY ItemsConcat
<1>4. QED BY <1>1, <1>2, <1>3 DEF Fewer, AllItems, LeftItems, Takes

(* Having fewer items is transitive.                                         *)
LEMMA FewerTransitive ==
  ASSUME NEW q, NEW s, NEW r, NEW t, NEW u, NEW v, Fewer(q, s, r, t), Fewer(r, t, u, v)
  PROVE  Fewer(q, s, u, v)
BY DEF Fewer

(* A step other than the arrival of a flagged message brings no new item.    *)
ItemsLess == \A l \in RunLoops : Fewer(toDispatch[l], stack[l], toDispatch'[l], stack'[l])

(* It is enough to look at the run loop that moves.                          *)
LEMMA OneLoopLess ==
  ASSUME Types, NEW k \in RunLoops,
         \A l \in RunLoops : l # k => stack'[l] = stack[l] /\ toDispatch'[l] = toDispatch[l],
         Fewer(toDispatch[k], stack[k], toDispatch'[k], stack'[k])
  PROVE  ItemsLess
<1>1. \A l \in RunLoops : l # k => Fewer(toDispatch[l], stack[l], toDispatch'[l], stack'[l])
  BY DEF Fewer
<1>2. QED BY <1>1 DEF ItemsLess

(* dispatchMessage() pushes a handler, which holds no item.                  *)
LEMMA DispatchFewer ==
  ASSUME Types, NEW k \in RunLoops, NEW e \in Ends, NEW m \in Message, NEW s \in Seq(Frame),
         dispatchMessage(k, e, m, s), toDispatch' = toDispatch, ~Swaps(s),
         Fewer(toDispatch[k], stack[k], toDispatch[k], s)
  PROVE  /\ Fewer(toDispatch[k], s, toDispatch'[k], stack'[k]) /\ ItemsLess
<1> DEFINE f == NewFrame("handle", e, m)
           q == toDispatch[k]
<1>1. f \in Frame /\ f.todo = <<>> /\ f.putBack = <<>>
  <2>1. f \in Frame
    BY NewFrameType
  <2>2. QED BY <2>1 DEF NewFrame
<1>2. stack' = [stack EXCEPT ![k] = s] \/ stack' = [stack EXCEPT ![k] = Append(s, f)]
  BY DEF dispatchMessage
<1> HIDE DEF f
<1>3. Fewer(q, s, q, Append(s, f)) /\ Fewer(q, s, q, s)
  BY <1>1, PushFewer DEF Fewer
<1>4. PICK t \in {s, Append(s, f)} : stack' = [stack EXCEPT ![k] = t]
  BY <1>2
<1>5. stack'[k] = t /\ \A l \in RunLoops : l # k => stack'[l] = stack[l]
  BY <1>4 DEF Types, LoopTypes
<1>6. Fewer(q, s, q, stack'[k])
  BY <1>3, <1>4, <1>5
<1>7. Fewer(q, stack[k], q, stack'[k])
  BY <1>6, FewerTransitive
<1>8. QED BY <1>5, <1>6, <1>7, OneLoopLess

(* The arrival of a flagged message is the only step that adds an item.      *)
LEMMA ItemsStep ==
  ASSUME Types, OwnConnections, [Next]_vars
  PROVE  ItemsLess \/ \E d \in Ends : ReceiveFlagged(d)
<1> USE DEF endVars, queueVars, loopVars
<1>t. /\ toDispatch \in [RunLoops -> Seq(ConnectionAndMessage)] /\ stack \in [RunLoops -> Seq(Frame)]
      /\ \A d \in Ends : LoopOf[d] \in RunLoops
  BY LoopAssumption DEF Types, LoopTypes
<1>1. ASSUME UNCHANGED <<stack, toDispatch>> PROVE ItemsLess
  BY <1>1 DEF ItemsLess, Fewer
<1>2. ASSUME NEW k \in RunLoops, ProcessExits(k) PROVE ItemsLess
  <2>1. \A l \in RunLoops : l # k => stack'[l] = stack[l] /\ toDispatch'[l] = toDispatch[l]
    BY <1>2, <1>t DEF ProcessExits
  <2>2. stack'[k] = <<>> /\ toDispatch'[k] = <<>>
    BY <1>2, <1>t DEF ProcessExits
  <2>3. AllItems(<<>>, <<>>) = {} /\ LeftItems(<<>>, <<>>) = {}
    BY ItemsEmpty, EmptyFacts DEF AllItems, LeftItems, StackItems, StackLeft
  <2>4. Fewer(toDispatch[k], stack[k], toDispatch'[k], stack'[k])
    BY <2>2, <2>3 DEF Fewer
  <2>5. QED BY <2>1, <2>4, OneLoopLess
<1>3. ASSUME NEW k \in RunLoops, NEW s, stack' = [stack EXCEPT ![k] = s], UNCHANGED toDispatch,
             Fewer(toDispatch[k], stack[k], toDispatch[k], s)
      PROVE  ItemsLess
  <2>1. stack'[k] = s /\ \A l \in RunLoops : l # k => stack'[l] = stack[l]
    BY <1>3, <1>t
  <2>2. QED BY <1>3, <2>1, OneLoopLess
<1>4. ASSUME NEW d \in Ends, SendSync(d) PROVE ItemsLess
  <2> DEFINE k == LoopOf[d]
             m == [type |-> "sync", id |-> syncRequestID[d] + 1,
                   serial |-> serial[d] + 1, flagged |-> Flagged(d)]
             f == NewFrame("check", d, m)
             g == NewFrame("swap", NoEnd, NoMessage)
             s == Append(stack[k], f)
  <2>1. m \in Message /\ k \in RunLoops /\ stack[k] \in Seq(Frame)
    BY <1>t DEF Message, Flagged, Types, CountTypes
  <2>2. UNCHANGED toDispatch /\ stack' = [stack EXCEPT ![k] = Append(s, g)]
    BY <1>4, <1>t DEF SendSync
  <2>3. /\ f \in Frame /\ g \in Frame /\ f.todo = <<>> /\ f.putBack = <<>> /\ g.todo = <<>> /\ g.putBack = <<>>
        /\ f.at = "check"
    <3>1. f \in Frame /\ g \in Frame
      BY <2>1, NewFrameType, NoMessageType
    <3>2. QED BY <3>1 DEF NewFrame
  <2>4. ~Swaps(stack[k])
    BY <1>4 DEF SendSync, InClient, At, Top, Swaps
  <2> HIDE DEF f, g, m, k
  <2>5. Fewer(toDispatch[k], stack[k], toDispatch[k], s)
    BY <2>1, <2>3, <2>4, PushFewer
  <2>6. s \in Seq(Frame) /\ s[Len(s)] = f
    BY <2>1, <2>3, PushItems
  <2> HIDE DEF s
  <2>7. Fewer(toDispatch[k], s, toDispatch[k], Append(s, g))
    BY <2>3, <2>6, PushFewer DEF Swaps
  <2>8. Fewer(toDispatch[k], stack[k], toDispatch[k], Append(s, g))
    BY <2>5, <2>7, FewerTransitive
  <2>9. QED BY <1>3, <2>1, <2>2, <2>8
<1>5. ASSUME NEW k \in RunLoops, At(k, {"handle", "nested", "check", "sleep"}),
             stack' = [stack EXCEPT ![k] = Front(stack[k])], UNCHANGED toDispatch
      PROVE  ItemsLess
  <2>1. stack[k] \in Seq(Frame) /\ stack[k] # <<>> /\ ~Swaps(stack[k])
    BY <1>5, <1>t DEF At, Top, Swaps
  <2>2. QED BY <1>3, <1>5, <2>1, PopFewer
<1>6. ASSUME NEW k \in RunLoops, NEW e \in Ends \cup {NoEnd}, NEW at \in {"swap", "nested"},
             stack' = [stack EXCEPT ![k] = Append(stack[k], NewFrame(at, e, NoMessage))],
             UNCHANGED toDispatch, InClient(k)
      PROVE  ItemsLess
  <2> DEFINE f == NewFrame(at, e, NoMessage)
  <2>1. f \in Frame /\ f.todo = <<>> /\ f.putBack = <<>>
    <3>1. f \in Frame
      BY NewFrameType, NoMessageType
    <3>2. QED BY <3>1 DEF NewFrame
  <2>2. stack[k] \in Seq(Frame) /\ ~Swaps(stack[k])
    BY <1>6, <1>t DEF InClient, At, Top, Swaps
  <2> HIDE DEF f
  <2>3. Fewer(toDispatch[k], stack[k], toDispatch[k], Append(stack[k], f))
    BY <2>1, <2>2, PushFewer
  <2>4. QED BY <1>3, <1>6, <2>3 DEF f
<1>7. ASSUME NEW k \in RunLoops, dispatchOneMessage(k) PROVE ItemsLess
  <2>0. PICK d : d = Head(functions[k]).conn
    OBVIOUS
  <2> DEFINE m == Head(incoming[d])
  <2>1. Head(functions[k]) \in Function
    BY <1>7, TailFacts DEF dispatchOneMessage, NextFunction, Types, LoopTypes
  <2>2. d \in Ends
    BY <2>0, <2>1 DEF Function
  <2>3. UNCHANGED toDispatch
    BY <1>7 DEF dispatchOneMessage
  <2>4. CASE incoming[d] = <<>>
    <3>1. UNCHANGED stack
      BY <1>7, <2>0, <2>4 DEF dispatchOneMessage
    <3>2. QED BY <1>1, <2>3, <3>1
  <2>5. CASE incoming[d] # <<>>
    <3>1. dispatchMessage(k, d, m, stack[k])
      BY <1>7, <2>0, <2>5 DEF dispatchOneMessage
    <3>2. m \in Message
      BY <2>2, <2>5, TailFacts DEF Types, QueueTypes
    <3>3. stack[k] \in Seq(Frame) /\ ~Swaps(stack[k])
      BY <1>7, <1>t DEF dispatchOneMessage, NextFunction, InRunLoop, At, Top, Swaps
    <3> HIDE DEF m
    <3>4. Fewer(toDispatch[k], stack[k], toDispatch[k], stack[k])
      BY DEF Fewer
    <3>5. QED BY <2>2, <2>3, <3>1, <3>2, <3>3, <3>4, DispatchFewer
  <2>6. QED BY <2>4, <2>5
<1>8. ASSUME NEW k \in RunLoops, SwapMessages(k) PROVE ItemsLess
  <2> DEFINE f == [Top(k) EXCEPT !.at = "dispatch", !.todo = toDispatch[k]]
  <2>1. stack[k] # <<>> /\ Top(k).at = "swap" /\ Top(k) \in OwnFrame(k) /\ Top(k) \in Frame
    BY <1>8, OwnTop DEF SwapMessages, At
  <2>2. f \in Frame /\ f.conn = Top(k).conn /\ f.todo = toDispatch[k] /\ f.putBack = Top(k).putBack
    BY <1>t, <2>1 DEF Frame
  <2>3. f.putBack = <<>>
    BY <2>1, <2>2 DEF OwnFrame
  <2>4. /\ stack'[k] = Append(Front(stack[k]), f) /\ toDispatch'[k] = <<>>
        /\ \A l \in RunLoops : l # k => stack'[l] = stack[l] /\ toDispatch'[l] = toDispatch[l]
    BY <1>8, <1>t DEF SwapMessages
  <2> HIDE DEF f
  <2>5. stack[k] \in Seq(Frame) /\ Swaps(stack[k])
    BY <1>t, <2>1 DEF Swaps, Top
  <2>6. Fewer(toDispatch[k], stack[k], <<>>, Append(Front(stack[k]), f))
    BY <2>2, <2>3, <2>5, SwapFewer DEF Top
  <2>7. QED BY <2>4, <2>6, OneLoopLess
<1>9. ASSUME NEW k \in RunLoops, DispatchNext(k) PROVE ItemsLess
  <2> DEFINE f == Top(k)
             x == Head(f.todo)
             g == [f EXCEPT !.todo = Tail(@)]
             h == [f EXCEPT !.todo = Tail(@), !.putBack = Append(@, x)]
  <2>1. /\ stack[k] \in Seq(Frame) /\ stack[k] # <<>> /\ f \in Frame /\ f.todo # <<>> /\ ~Swaps(stack[k])
        /\ f = stack[k][Len(stack[k])]
    BY <1>9, <1>t, OwnTop DEF DispatchNext, At, Top, Swaps
  <2>2. f.todo \in Seq(ConnectionAndMessage) /\ f.putBack \in Seq(ConnectionAndMessage)
    BY <2>1 DEF Frame
  <2>3. /\ x \in ConnectionAndMessage /\ Tail(f.todo) \in Seq(ConnectionAndMessage)
        /\ Append(f.putBack, x) \in Seq(ConnectionAndMessage)
        /\ Items(f.todo) = Items(Tail(f.todo)) \cup {x}
        /\ Items(Append(f.putBack, x)) = Items(f.putBack) \cup {x}
    BY <2>1, <2>2, TailFacts, AppendFacts, ItemsTail, ItemsAppend
  <2>4. /\ g \in Frame /\ g.at = f.at /\ g.conn = f.conn /\ g.todo = Tail(f.todo) /\ g.putBack = f.putBack
        /\ h \in Frame /\ h.conn = f.conn /\ h.todo = Tail(f.todo) /\ h.putBack = Append(f.putBack, x)
    BY <2>1, <2>3 DEF Frame
  <2>5. UNCHANGED toDispatch
    BY <1>9 DEF DispatchNext
  <2>6. \/ stack' = [stack EXCEPT ![k] = Append(Front(stack[k]), h)]
        \/ dispatchMessage(k, x.conn, x.msg, Append(Front(stack[k]), g))
    BY <1>9 DEF DispatchNext
  <2>7. x.conn \in Ends /\ x.msg \in Message
    BY <2>3 DEF ConnectionAndMessage
  <2>8. FrameItems(g) \subseteq FrameItems(f) /\ FrameItems(h) \subseteq FrameItems(f)
    BY <2>3, <2>4 DEF FrameItems
  <2> HIDE DEF g, h, x, f
  <2>9. CASE stack' = [stack EXCEPT ![k] = Append(Front(stack[k]), h)]
    BY <1>3, <2>1, <2>4, <2>5, <2>8, <2>9, TurnFewer
  <2>10. CASE dispatchMessage(k, x.conn, x.msg, Append(Front(stack[k]), g))
    <3> DEFINE s == Append(Front(stack[k]), g)
    <3>1. Fewer(toDispatch[k], stack[k], toDispatch[k], s) /\ s \in Seq(Frame)
      BY <2>1, <2>4, <2>8, TurnFewer
    <3>2. ~Swaps(s)
      <4>1. Front(stack[k]) \in Seq(Frame)
        BY <2>1, PopItems
      <4>2. s[Len(s)] = g
        BY <2>4, <4>1, PushItems
      <4>3. QED BY <2>1, <2>4, <4>2 DEF Swaps
    <3>3. dispatchMessage(k, x.conn, x.msg, s)
      BY <2>10
    <3> HIDE DEF s
    <3>4. QED BY <2>5, <2>7, <3>1, <3>2, <3>3, DispatchFewer
  <2>11. QED BY <2>6, <2>9, <2>10
<1>10. ASSUME NEW k \in RunLoops, EndDispatchMessages(k) PROVE ItemsLess
  <2> DEFINE f == Top(k)
  <2>1. /\ stack[k] \in Seq(Frame) /\ stack[k] # <<>> /\ f \in Frame /\ f \in OwnFrame(k) /\ ~Swaps(stack[k])
        /\ f = stack[k][Len(stack[k])]
    BY <1>10, <1>t, OwnTop DEF EndDispatchMessages, At, Top, Swaps
  <2>2. /\ stack'[k] = Front(stack[k]) /\ toDispatch'[k] = toDispatch[k] \o f.putBack
        /\ \A l \in RunLoops : l # k => stack'[l] = stack[l] /\ toDispatch'[l] = toDispatch[l]
    BY <1>10, <1>t DEF EndDispatchMessages
  <2>3. f.putBack \in Seq(ConnectionAndMessage)
    BY <2>1 DEF Frame
  <2>4. \A x \in Items(f.putBack) : f.conn \notin {NoEnd, x.conn}
    <3>1. f.conn = NoEnd => Items(f.putBack) = {}
      BY <2>1, ItemsEmpty DEF OwnFrame
    <3>2. f.putBack \in Seq({x \in OwnItem(k) : x.conn # f.conn})
      BY <2>1 DEF OwnFrame
    <3>3. \A i \in DOMAIN f.putBack : f.putBack[i].conn # f.conn
      BY <3>2
    <3>4. QED BY <3>1, <3>3 DEF Items
  <2> HIDE DEF f
  <2>5. Fewer(toDispatch[k], stack[k], toDispatch[k] \o f.putBack, Front(stack[k]))
    BY <1>t, <2>1, <2>3, <2>4, EndFewer
  <2>6. QED BY <2>2, <2>5, OneLoopLess
<1>11. ASSUME NEW k \in RunLoops, NEW at \in {"check", "sleep"}, At(k, {"check", "sleep"})
       PROVE  LET f == [Top(k) EXCEPT !.at = at]
              IN  /\ Fewer(toDispatch[k], stack[k], toDispatch[k], Append(Front(stack[k]), f))
                  /\ Append(Front(stack[k]), f) \in Seq(Frame) /\ ~Swaps(Append(Front(stack[k]), f))
  <2> DEFINE f == [Top(k) EXCEPT !.at = at]
             s == Append(Front(stack[k]), f)
  <2>1. /\ stack[k] \in Seq(Frame) /\ stack[k] # <<>> /\ Top(k) \in Frame /\ ~Swaps(stack[k])
        /\ Top(k) = stack[k][Len(stack[k])]
    BY <1>11, <1>t, OwnTop DEF At, Top, Swaps
  <2>2. f \in Frame /\ f.at = at /\ f.conn = Top(k).conn /\ f.todo = Top(k).todo /\ f.putBack = Top(k).putBack
    BY <2>1 DEF Frame
  <2>3. FrameItems(f) \subseteq FrameItems(Top(k))
    BY <2>2 DEF FrameItems
  <2> HIDE DEF f
  <2>4. Fewer(toDispatch[k], stack[k], toDispatch[k], s) /\ s \in Seq(Frame)
    BY <2>1, <2>2, <2>3, TurnFewer
  <2>5. ~Swaps(s)
    <3>1. Front(stack[k]) \in Seq(Frame)
      BY <2>1, PopItems
    <3>2. s[Len(s)] = f
      BY <2>2, <3>1, PushItems
    <3>3. QED BY <2>2, <3>2 DEF Swaps
  <2>6. QED BY <2>4, <2>5 DEF f
<1>12. ASSUME NEW k \in RunLoops, Sleep(k) PROVE ItemsLess
  <2>1. /\ At(k, {"check", "sleep"}) /\ UNCHANGED toDispatch
        /\ stack' = [stack EXCEPT ![k] = Append(Front(stack[k]), [Top(k) EXCEPT !.at = "sleep"])]
    BY <1>12 DEF Sleep, At
  <2>2. Fewer(toDispatch[k], stack[k], toDispatch[k], Append(Front(stack[k]), [Top(k) EXCEPT !.at = "sleep"]))
    BY <1>11, <2>1
  <2>3. QED BY <1>3, <2>1, <2>2
<1>13. ASSUME NEW k \in RunLoops, WakeUp(k) PROVE ItemsLess
  <2> DEFINE s == Append(Front(stack[k]), [Top(k) EXCEPT !.at = "check"])
             g == NewFrame("swap", NoEnd, NoMessage)
  <2>1. At(k, {"check", "sleep"}) /\ UNCHANGED toDispatch /\ stack' = [stack EXCEPT ![k] = Append(s, g)]
    BY <1>13 DEF WakeUp, At
  <2>2. Fewer(toDispatch[k], stack[k], toDispatch[k], s) /\ s \in Seq(Frame) /\ ~Swaps(s)
    BY <1>11, <2>1
  <2>3. g \in Frame /\ g.todo = <<>> /\ g.putBack = <<>>
    <3>1. g \in Frame
      BY NewFrameType, NoMessageType
    <3>2. QED BY <3>1 DEF NewFrame
  <2> HIDE DEF s, g
  <2>4. Fewer(toDispatch[k], s, toDispatch[k], Append(s, g))
    BY <2>2, <2>3, PushFewer
  <2>5. Fewer(toDispatch[k], stack[k], toDispatch[k], Append(s, g))
    BY <2>2, <2>4, FewerTransitive
  <2>6. QED BY <1>3, <2>1, <2>5
<1>14. ASSUME NEW k \in RunLoops, SyncSendFails(k, Top(k).conn), At(k, {"check", "sleep"}) PROVE ItemsLess
  <2>1. CASE ProcessExits(k)
    BY <1>2, <2>1
  <2>2. CASE PopPendingReply(k, Top(k).conn)
    <3>1. At(k, {"handle", "nested", "check", "sleep"})
      BY <1>14 DEF At
    <3>2. QED BY <1>5, <2>2, <3>1 DEF PopPendingReply
  <2>3. QED BY <1>14, <2>1, <2>2 DEF SyncSendFails
<1>15. ASSUME NEW k \in RunLoops, ClientThread(k) \/ EnterNestedLoop(k) \/ TimeOut(k) \/ Crash(k) PROVE ItemsLess
  <2>1. CASE performWork(k)
    <3>1. CASE dispatchConnectionDidClose(k)
      BY <1>1, <3>1 DEF dispatchConnectionDidClose
    <3>2. CASE dispatchMessagesForConnection(k)
      <4>1. PICK d : d = Head(functions[k]).conn
        OBVIOUS
      <4>2. Head(functions[k]) \in Function
        BY <3>2, TailFacts DEF dispatchMessagesForConnection, NextFunction, Types, LoopTypes
      <4>3. d \in Ends \cup {NoEnd} /\ InClient(k)
        BY <3>2, <4>1, <4>2 DEF Function, dispatchMessagesForConnection, NextFunction, InRunLoop, InClient, At
      <4>4. QED BY <1>6, <3>2, <4>1, <4>3 DEF dispatchMessagesForConnection
    <3>3. QED BY <1>7, <2>1, <3>1, <3>2 DEF performWork
  <2>2. CASE ReturnReply(k)
    <3>1. At(k, {"handle", "nested", "check", "sleep"})
      BY <2>2 DEF ReturnReply, At
    <3>2. QED BY <1>5, <2>2, <3>1 DEF ReturnReply, PopPendingReply
  <2>3. CASE GiveUp(k)
    <3>1. SyncSendFails(k, Top(k).conn) /\ At(k, {"check", "sleep"})
      BY <2>3 DEF GiveUp, At
    <3>2. QED BY <1>14, <3>1
  <2>4. CASE TimeOut(k)
    <3>1. SyncSendFails(k, Top(k).conn) /\ At(k, {"check", "sleep"})
      BY <2>4 DEF TimeOut, At
    <3>2. QED BY <1>14, <3>1
  <2>5. CASE ExitNestedLoop(k)
    <3>1. At(k, {"handle", "nested", "check", "sleep"})
      BY <2>5 DEF ExitNestedLoop, At
    <3>2. QED BY <1>5, <2>5, <3>1 DEF ExitNestedLoop
  <2>6. CASE HandlerReturns(k)
    <3>1. At(k, {"handle", "nested", "check", "sleep"})
      BY <2>6 DEF HandlerReturns, At
    <3>2. QED BY <1>5, <2>6, <3>1 DEF HandlerReturns
  <2>7. CASE EnterNestedLoop(k)
    <3>1. InClient(k) /\ NoEnd \in Ends \cup {NoEnd}
      BY <2>7 DEF EnterNestedLoop, InClient, At
    <3>2. QED BY <1>6, <2>7, <3>1 DEF EnterNestedLoop
  <2>8. CASE Crash(k)
    BY <1>2, <2>8 DEF Crash
  <2>9. QED
    BY <1>8, <1>9, <1>10, <1>12, <1>13, <1>15, <2>1, <2>2, <2>3, <2>4, <2>5, <2>6, <2>7, <2>8 DEF ClientThread
<1>16. ASSUME NEW d \in Ends, ConnectionQueue(d) \/ ClientDecides(d), ~ReceiveFlagged(d) PROVE ItemsLess
  <2>1. CASE SendSyncFails(d)
    BY <1>2, <1>t, <2>1 DEF SendSyncFails
  <2>2. CASE SendSync(d)
    BY <1>4, <2>2
  <2>3. CASE ~SendSyncFails(d) /\ ~SendSync(d)
    <3>1. UNCHANGED <<stack, toDispatch>>
      BY <1>16, <2>3
         DEF ConnectionQueue, ClientDecides, sendOutgoingMessages, PlatformInvalidate, ReceiveReply,
             ReceiveOtherReply, wakeUpClientRunLoop, ReceiveUnflagged, connectionDidClose, SendAsync, Invalidate
    <3>2. QED BY <1>1, <3>1
  <2>4. QED BY <2>1, <2>2, <2>3
<1>17. ASSUME NEW t \in SecondaryThreads, SecondaryRegister(t) \/ SecondarySend(t) \/ SecondaryReturn(t)
       PROVE  ItemsLess
  BY <1>1, <1>17 DEF SecondaryRegister, SecondarySend, SecondaryReturn
<1>18. CASE UNCHANGED vars
  BY <1>1, <1>18 DEF vars
<1>19. QED BY <1>15, <1>16, <1>17, <1>18 DEF Next

-----------------------------------------------------------------------------
(* The functions of a run loop and the messages they are for.                *)
DispatchAll(e) == [fn |-> "dispatchMessagesForConnection", conn |-> e]
DispatchOne(e) == [fn |-> "dispatchOneMessage", conn |-> e]
DidClose(e) == [fn |-> "dispatchConnectionDidClose", conn |-> e]

(* How many elements before the k-th are in S.                               *)
PositionsBefore(s, k, S) == {j \in DOMAIN s : j < k /\ s[j] \in S}
Before(s, k, S) == Cardinality(PositionsBefore(s, k, S))

(* A dispatchMessagesForConnection will come for item x, after all messages  *)
(* of its connection that were sent before x and before any sent after it;   *)
(* v is the connection's m_incomingMessages, one function per message.       *)
Comes(fs, v, x) ==
    \E k \in DOMAIN fs :
        /\ fs[k] = DispatchAll(x.conn)
        /\ \A i \in DOMAIN v : i <= Before(fs, k, {DispatchOne(x.conn)}) => v[i].serial < x.msg.serial

(* No function of e is behind the one that reports its end.                  *)
CloseLast(fs, e) == \A k, j \in DOMAIN fs : fs[k] = DidClose(e) /\ j > k => fs[j].conn # e

(* How many there are before a position, and before the end.                 *)
LEMMA BeforeType ==
  ASSUME NEW T, NEW s \in Seq(T), NEW k \in Nat, NEW S
  PROVE  /\ IsFiniteSet(PositionsBefore(s, k, S)) /\ Before(s, k, S) \in Nat /\ Before(s, k, S) <= Count(s, S)
         /\ k = Len(s) + 1 => Before(s, k, S) = Count(s, S)
<1>1. Len(s) \in Nat /\ DOMAIN s = 1 .. Len(s)
  OBVIOUS
<1>2. IsFiniteSet(Positions(s, S)) /\ Count(s, S) \in Nat
  BY CountType
<1>3. PositionsBefore(s, k, S) \in SUBSET Positions(s, S)
  BY DEF PositionsBefore, Positions
<1>4. IsFiniteSet(PositionsBefore(s, k, S)) /\ Before(s, k, S) <= Count(s, S)
  BY <1>2, <1>3, FS_Subset DEF Before, Count
<1>5. Before(s, k, S) \in Nat
  BY <1>4, FS_CardinalityType DEF Before
<1>6. ASSUME k = Len(s) + 1 PROVE PositionsBefore(s, k, S) = Positions(s, S)
  BY <1>1, <1>6 DEF PositionsBefore, Positions
<1>7. QED BY <1>4, <1>5, <1>6 DEF Before, Count

(* A new last element is not before any other.                               *)
LEMMA BeforeAppend ==
  ASSUME NEW T, NEW s \in Seq(T), NEW x \in T, NEW k \in DOMAIN s, NEW S
  PROVE  Before(Append(s, x), k, S) = Before(s, k, S)
<1> DEFINE t == Append(s, x)
<1>1. /\ DOMAIN t = 1 .. Len(s) + 1 /\ DOMAIN s = 1 .. Len(s) /\ Len(s) \in Nat
      /\ \A i \in 1 .. Len(s) : t[i] = s[i]
  BY AppendFacts
<1> HIDE DEF t
<1>2. PositionsBefore(t, k, S) = PositionsBefore(s, k, S)
  BY <1>1 DEF PositionsBefore
<1>3. QED BY <1>2 DEF Before, t

(* The first element is taken: one less before every other, if it counted.   *)
LEMMA BeforeTail ==
  ASSUME NEW T, NEW s \in Seq(T), s # <<>>, NEW k \in Nat, k > 1, NEW S
  PROVE  Before(s, k, S) = IF Head(s) \in S THEN Before(Tail(s), k - 1, S) + 1 ELSE Before(Tail(s), k - 1, S)
<1> DEFINE t == Tail(s)
           P == PositionsBefore(t, k - 1, S)
           Q == {j \in PositionsBefore(s, k, S) : j # 1}
           f == [j \in P |-> j + 1]
<1>1. /\ DOMAIN t = 1 .. Len(s) - 1 /\ DOMAIN s = 1 .. Len(s) /\ Len(s) \in Nat /\ Len(s) > 0
      /\ \A i \in 1 .. Len(s) - 1 : t[i] = s[i + 1]
      /\ Head(s) = s[1] /\ t \in Seq(T)
  BY TailFacts
<1> HIDE DEF t
<1>2. \A j \in P : j \in Nat /\ j + 1 \in Q
  BY <1>1 DEF PositionsBefore
<1>3. \A j \in Q : j - 1 \in P /\ j \in Nat /\ (j - 1) + 1 = j
  BY <1>1 DEF PositionsBefore
<1>4. IsFiniteSet(P)
  BY <1>1, BeforeType
<1>5. PositionsBefore(s, k, S) = IF Head(s) \in S THEN Q \cup {1} ELSE Q
  BY <1>1 DEF PositionsBefore
<1>6. 1 \notin Q
  OBVIOUS
<1> HIDE DEF P, Q
<1>7. f \in Bijection(P, Q)
  <2>1. f \in [P -> Q]
    BY <1>2
  <2>2. \A a, b \in P : f[a] = f[b] => a = b
    BY <1>2
  <2>3. \A b \in Q : \E a \in P : f[a] = b
    BY <1>3
  <2> HIDE DEF f
  <2>4. QED BY <2>1, <2>2, <2>3 DEF Bijection, Injection, Surjection, IsInjective
<1>8. IsFiniteSet(Q) /\ Cardinality(Q) = Cardinality(P)
  <2>1. ExistsBijection(P, Q)
    BY <1>7 DEF ExistsBijection
  <2>2. QED BY <1>4, <2>1, FS_Bijection
<1>9. Cardinality(Q \cup {1}) = Cardinality(Q) + 1
  BY <1>6, <1>8, FS_AddElement
<1>10. QED BY <1>5, <1>8, <1>9 DEF Before, P, t

(* One less in all, if it counted.                                           *)
LEMMA CountTail ==
  ASSUME NEW T, NEW s \in Seq(T), s # <<>>, NEW S
  PROVE  Count(s, S) = IF Head(s) \in S THEN Count(Tail(s), S) + 1 ELSE Count(Tail(s), S)
<1>1. Len(s) \in Nat /\ Len(s) > 0 /\ Tail(s) \in Seq(T) /\ Len(Tail(s)) = Len(s) - 1
  BY TailFacts
<1>2. Count(s, S) = Before(s, Len(s) + 1, S)
  BY <1>1, BeforeType
<1>3. Count(Tail(s), S) = Before(Tail(s), Len(s), S)
  <2>1. Len(s) = Len(Tail(s)) + 1
    BY <1>1
  <2>2. QED BY <1>1, <2>1, BeforeType
<1>4. Before(s, Len(s) + 1, S) = IF Head(s) \in S THEN Before(Tail(s), (Len(s) + 1) - 1, S) + 1 ELSE Before(Tail(s), (Len(s) + 1) - 1, S)
  <2>1. Len(s) + 1 \in Nat /\ Len(s) + 1 > 1
    BY <1>1
  <2>2. QED BY <2>1, BeforeTail
<1>5. (Len(s) + 1) - 1 = Len(s)
  BY <1>1
<1>6. QED BY <1>2, <1>3, <1>4, <1>5

(* Append leaves the elements that were there.                               *)
LEMMA AppendBelow ==
  ASSUME NEW T, NEW v \in Seq(T), NEW x \in T, NEW n \in Nat, n <= Len(v)
  PROVE  \A i \in DOMAIN Append(v, x) : i <= n => i \in DOMAIN v /\ Append(v, x)[i] = v[i]
OBVIOUS

(* Another function is appended to the queue ...                             *)
LEMMA ComesAppend ==
  ASSUME NEW fs \in Seq(Function), NEW g \in Function, NEW v, NEW x, Comes(fs, v, x)
  PROVE  Comes(Append(fs, g), v, x)
<1> DEFINE hs == Append(fs, g)
<1>1. PICK k \in DOMAIN fs :
          /\ fs[k] = DispatchAll(x.conn)
          /\ \A i \in DOMAIN v : i <= Before(fs, k, {DispatchOne(x.conn)}) => v[i].serial < x.msg.serial
  BY DEF Comes
<1>2. k \in DOMAIN hs /\ hs[k] = fs[k]
  BY AppendFacts
<1>3. Before(hs, k, {DispatchOne(x.conn)}) = Before(fs, k, {DispatchOne(x.conn)})
  BY BeforeAppend
<1> HIDE DEF hs
<1>4. QED BY <1>1, <1>2, <1>3 DEF Comes, hs

(* ... with the message it is for, ...                                       *)
LEMMA ComesReceive ==
  ASSUME NEW fs \in Seq(Function), NEW g \in Function, NEW v \in Seq(Message), NEW m \in Message, NEW x,
         Comes(fs, v, x), Len(v) = Count(fs, {DispatchOne(x.conn)})
  PROVE  Comes(Append(fs, g), Append(v, m), x)
<1> DEFINE S == {DispatchOne(x.conn)}
<1>0. PICK w : w = Append(v, m)
  OBVIOUS
<1>1. PICK k \in DOMAIN fs :
          /\ fs[k] = DispatchAll(x.conn)
          /\ \A i \in DOMAIN v : i <= Before(fs, k, S) => v[i].serial < x.msg.serial
  BY DEF Comes
<1>2. k \in Nat /\ k \in DOMAIN Append(fs, g) /\ Append(fs, g)[k] = fs[k]
  BY AppendFacts
<1>3. Before(Append(fs, g), k, S) = Before(fs, k, S)
  BY BeforeAppend
<1>4. PICK n : n = Before(fs, k, S)
  OBVIOUS
<1>5. n \in Nat /\ n <= Len(v)
  BY <1>2, <1>4, BeforeType
<1> HIDE DEF S
<1>7. \A i \in DOMAIN w : i <= n => i \in DOMAIN v /\ w[i] = v[i]
  BY <1>0, <1>5, AppendBelow
<1>8. QED BY <1>0, <1>1, <1>2, <1>3, <1>4, <1>7 DEF Comes, S

(* ... or the first one is taken.                                            *)
LEMMA ComesTail ==
  ASSUME NEW fs \in Seq(Function), fs # <<>>, NEW v, NEW x, Comes(fs, v, x),
         Head(fs) # DispatchAll(x.conn), Head(fs) # DispatchOne(x.conn)
  PROVE  Comes(Tail(fs), v, x)
<1> DEFINE t == Tail(fs)
           S == {DispatchOne(x.conn)}
<1>1. PICK k \in DOMAIN fs :
          /\ fs[k] = DispatchAll(x.conn)
          /\ \A i \in DOMAIN v : i <= Before(fs, k, S) => v[i].serial < x.msg.serial
  BY DEF Comes
<1>2. /\ DOMAIN t = 1 .. Len(fs) - 1 /\ DOMAIN fs = 1 .. Len(fs) /\ Len(fs) \in Nat
      /\ \A i \in 1 .. Len(fs) - 1 : t[i] = fs[i + 1]
      /\ Head(fs) = fs[1]
  BY TailFacts
<1>3. k \in Nat /\ k > 1
  BY <1>1, <1>2
<1>4. Before(fs, k, S) = Before(t, k - 1, S)
  BY <1>3, BeforeTail
<1> HIDE DEF t, S
<1>5. k - 1 \in DOMAIN t /\ t[k - 1] = fs[k]
  BY <1>2, <1>3
<1>6. QED BY <1>1, <1>4, <1>5 DEF Comes, t, S

(* The first message is taken by its function: it is older than the item,    *)
(* and the item still comes.                                                 *)
LEMMA ComesTake ==
  ASSUME NEW fs \in Seq(Function), fs # <<>>, NEW v \in Seq(Message), v # <<>>, NEW x, Comes(fs, v, x),
         Head(fs) = DispatchOne(x.conn)
  PROVE  Comes(Tail(fs), Tail(v), x) /\ Head(v).serial < x.msg.serial
<1> DEFINE t == Tail(fs)
           w == Tail(v)
           S == {DispatchOne(x.conn)}
<1>1. PICK k \in DOMAIN fs :
          /\ fs[k] = DispatchAll(x.conn)
          /\ \A i \in DOMAIN v : i <= Before(fs, k, S) => v[i].serial < x.msg.serial
  BY DEF Comes
<1>2. /\ DOMAIN t = 1 .. Len(fs) - 1 /\ DOMAIN fs = 1 .. Len(fs) /\ Len(fs) \in Nat
      /\ \A i \in 1 .. Len(fs) - 1 : t[i] = fs[i + 1]
      /\ Head(fs) = fs[1] /\ t \in Seq(Function)
  BY TailFacts
<1>3. /\ DOMAIN w = 1 .. Len(v) - 1 /\ DOMAIN v = 1 .. Len(v) /\ Len(v) \in Nat /\ Len(v) > 0
      /\ \A i \in 1 .. Len(v) - 1 : w[i] = v[i + 1]
      /\ Head(v) = v[1]
  BY TailFacts
<1>4. DispatchOne(x.conn) # DispatchAll(x.conn)
  BY DEF DispatchOne, DispatchAll
<1>5. k \in Nat /\ k > 1 /\ k - 1 \in Nat
  BY <1>1, <1>2, <1>4
<1>6. Before(fs, k, S) = Before(t, k - 1, S) + 1
  BY <1>5, BeforeTail
<1>7. Before(t, k - 1, S) \in Nat
  BY <1>2, <1>5, BeforeType
<1> HIDE DEF t, w, S
<1>8. k - 1 \in DOMAIN t /\ t[k - 1] = fs[k]
  BY <1>2, <1>5
<1>9. 1 \in DOMAIN v /\ 1 <= Before(fs, k, S)
  BY <1>3, <1>6, <1>7
<1>10. \A i \in DOMAIN w : i <= Before(t, k - 1, S) => i + 1 \in DOMAIN v /\ i + 1 <= Before(fs, k, S) /\ w[i] = v[i + 1]
  BY <1>3, <1>6, <1>7
<1>11. \A i \in DOMAIN w : i <= Before(t, k - 1, S) => w[i].serial < x.msg.serial
  BY <1>1, <1>10
<1>12. QED BY <1>1, <1>3, <1>8, <1>9, <1>11 DEF Comes, t, w, S

(* Whatever dispatchMessagesForConnection comes for a message that arrives   *)
(* after all the others, comes in time.                                      *)
LEMMA ComesNew ==
  ASSUME NEW fs, NEW v, NEW x, Has(fs, {DispatchAll(x.conn)}), \A i \in DOMAIN v : v[i].serial < x.msg.serial
  PROVE  Comes(fs, v, x)
BY DEF Comes, Has

(* The last function of a connection stays the last one.                     *)
LEMMA CloseLastAppend ==
  ASSUME NEW fs \in Seq(Function), NEW g \in Function, NEW e, CloseLast(fs, e),
         Has(fs, {DidClose(e)}) => g.conn # e
  PROVE  CloseLast(Append(fs, g), e)
<1> DEFINE hs == Append(fs, g)
<1>1. /\ DOMAIN hs = 1 .. Len(fs) + 1 /\ DOMAIN fs = 1 .. Len(fs) /\ Len(fs) \in Nat
      /\ \A i \in 1 .. Len(fs) : hs[i] = fs[i]
      /\ hs[Len(fs) + 1] = g
  BY AppendFacts
<1> HIDE DEF hs
<1> SUFFICES ASSUME NEW k \in DOMAIN hs, NEW j \in DOMAIN hs, hs[k] = DidClose(e), j > k PROVE hs[j].conn # e
  BY DEF CloseLast, hs
<1>2. k \in DOMAIN fs /\ fs[k] = DidClose(e)
  BY <1>1
<1>3. CASE j \in DOMAIN fs
  BY <1>1, <1>2, <1>3 DEF CloseLast
<1>4. CASE j \notin DOMAIN fs
  <2>1. hs[j] = g
    BY <1>1, <1>4
  <2>2. QED BY <1>2, <2>1 DEF Has
<1>5. QED BY <1>3, <1>4

(* A function is taken off the front.                                        *)
LEMMA CloseLastTail ==
  ASSUME NEW fs \in Seq(Function), fs # <<>>, NEW e, CloseLast(fs, e)
  PROVE  CloseLast(Tail(fs), e) /\ (Has(Tail(fs), {DidClose(e)}) => Has(fs, {DidClose(e)}))
<1> DEFINE t == Tail(fs)
<1>1. /\ DOMAIN t = 1 .. Len(fs) - 1 /\ DOMAIN fs = 1 .. Len(fs) /\ Len(fs) \in Nat
      /\ \A i \in 1 .. Len(fs) - 1 : t[i] = fs[i + 1]
  BY TailFacts
<1> HIDE DEF t
<1>2. \A k \in DOMAIN t : k + 1 \in DOMAIN fs /\ t[k] = fs[k + 1]
  BY <1>1
<1>3. \A k, j \in DOMAIN t : j > k => j + 1 > k + 1
  BY <1>1
<1>4. CloseLast(t, e)
  BY <1>2, <1>3 DEF CloseLast
<1>5. QED BY <1>2, <1>4 DEF Has, t

(* A queue that grows has what it had.                                       *)
LEMMA HasMore ==
  ASSUME NEW T, NEW s \in Seq(T), NEW x \in T, NEW S
  PROVE  Has(s, S) \/ x \in S => Has(Append(s, x), S)
<1>1. /\ DOMAIN Append(s, x) = 1 .. Len(s) + 1 /\ DOMAIN s = 1 .. Len(s) /\ Len(s) \in Nat
      /\ \A i \in 1 .. Len(s) : Append(s, x)[i] = s[i]
      /\ Append(s, x)[Len(s) + 1] = x
  BY AppendFacts
<1>2. DOMAIN s \subseteq DOMAIN Append(s, x) /\ Len(s) + 1 \in DOMAIN Append(s, x)
  BY <1>1
<1>3. QED BY <1>1, <1>2 DEF Has

(* What is not at the front is in the tail.                                  *)
LEMMA HasRest ==
  ASSUME NEW T, NEW s \in Seq(T), s # <<>>, NEW S, Has(s, S), Head(s) \notin S
  PROVE  Has(Tail(s), S)
<1>1. /\ Head(s) = s[1] /\ DOMAIN Tail(s) = 1 .. Len(s) - 1 /\ DOMAIN s = 1 .. Len(s)
      /\ Len(s) \in Nat /\ \A i \in 1 .. Len(s) - 1 : Tail(s)[i] = s[i + 1]
  BY TailFacts
<1>2. PICK i \in DOMAIN s : s[i] \in S
  BY DEF Has
<1>3. i - 1 \in DOMAIN Tail(s) /\ Tail(s)[i - 1] = s[i]
  BY <1>1, <1>2
<1>4. QED BY <1>2, <1>3 DEF Has

-----------------------------------------------------------------------------
(* What arrives is scheduled, in order, before the report of the close.      *)
OneForEach(l) == \A e \in Ends : LoopOf[e] = l => Len(incoming[e]) = Count(functions[l], {DispatchOne(e)})
ScheduledComes(l) == \A e \in scheduled[l] : Has(functions[l], {DispatchAll(e)})
LeftComes(l) == \A x \in LeftItems(toDispatch[l], stack[l]) : Comes(functions[l], incoming[x.conn], x)
ClosesLast(l) ==
    \A e \in Ends : LoopOf[e] = l =>
        /\ CloseLast(functions[l], e)
        /\ Has(functions[l], {DidClose(e)}) => ~connected[e] /\ ~shouldWait[e]

ScheduleAt(l) == OneForEach(l) /\ ScheduledComes(l) /\ LeftComes(l) /\ ClosesLast(l)
Schedule == \A l \in RunLoops : ScheduleAt(l)

(* The three kinds of function.                                              *)
LEMMA FunctionForms ==
  /\ \A e \in Ends : DispatchOne(e) \in Function /\ DispatchAll(e) \in Function /\ DidClose(e) \in Function
  /\ \A g \in Function :
         /\ g.conn \in Ends
         /\ g.fn = "dispatchOneMessage" => g = DispatchOne(g.conn)
         /\ g.fn = "dispatchMessagesForConnection" => g = DispatchAll(g.conn)
         /\ g.fn = "dispatchConnectionDidClose" => g = DidClose(g.conn)
  /\ \A d, e : /\ DispatchOne(d) # DispatchAll(e) /\ DispatchOne(d) # DidClose(e) /\ DispatchAll(d) # DidClose(e)
               /\ DispatchOne(d).conn = d /\ DispatchAll(d).conn = d /\ DidClose(d).conn = d
BY DEF Function, DispatchOne, DispatchAll, DidClose

(* The items of a run loop are about its own connections.                    *)
LEMMA OwnItems ==
  ASSUME OwnConnections, NEW l \in RunLoops, NEW x \in AllItems(toDispatch[l], stack[l])
  PROVE  x \in ConnectionAndMessage /\ x.conn \in Ends /\ LoopOf[x.conn] = l /\ x.msg.serial \in Nat
<1>1. toDispatch[l] \in Seq(OwnItem(l)) /\ stack[l] \in Seq(OwnFrame(l))
  BY DEF OwnConnections
<1>2. x \in OwnItem(l)
  <2>1. CASE x \in Items(toDispatch[l])
    BY <1>1, <2>1 DEF Items
  <2>2. CASE x \in StackItems(stack[l])
    <3>1. PICK k \in DOMAIN stack[l] : x \in FrameItems(stack[l][k])
      BY <2>2 DEF StackItems
    <3>2. stack[l][k] \in OwnFrame(l)
      BY <1>1, <3>1
    <3>3. stack[l][k].todo \in Seq(OwnItem(l)) /\ stack[l][k].putBack \in Seq({y \in OwnItem(l) : y.conn # stack[l][k].conn})
      BY <3>2 DEF OwnFrame
    <3>4. CASE x \in Items(stack[l][k].todo)
      BY <3>3, <3>4 DEF Items
    <3>5. CASE x \in Items(stack[l][k].putBack)
      BY <3>3, <3>5 DEF Items
    <3>6. QED BY <3>1, <3>4, <3>5 DEF FrameItems
  <2>3. QED BY <2>1, <2>2 DEF AllItems
<1>3. QED BY <1>2 DEF OwnItem, ConnectionAndMessage, Message

(* What is left is among what is held.                                       *)
LEMMA LeftInAll == \A q, s : LeftItems(q, s) \subseteq AllItems(q, s)
<1>1. \A f : FrameLeft(f) \subseteq FrameItems(f)
  BY DEF FrameLeft
<1>2. \A s : StackLeft(s) \subseteq StackItems(s)
  BY <1>1 DEF StackLeft, StackItems
<1>3. QED BY <1>2 DEF LeftItems, AllItems

(* A run loop whose functions and received messages stay as they are.        *)
LEMMA ScheduleRests ==
  ASSUME OwnConnections, Schedule, NEW l \in RunLoops, functions'[l] = functions[l],
         scheduled'[l] = scheduled[l],
         \A e \in Ends : LoopOf[e] = l => /\ incoming'[e] = incoming[e]
                                          /\ connected'[e] => connected[e]
                                          /\ shouldWait'[e] => shouldWait[e],
         Fewer(toDispatch[l], stack[l], toDispatch'[l], stack'[l])
  PROVE  ScheduleAt(l)'
<1>1. ScheduleAt(l)
  BY DEF Schedule
<1>2. OneForEach(l)'
  BY <1>1 DEF ScheduleAt, OneForEach
<1>3. ScheduledComes(l)'
  BY <1>1 DEF ScheduleAt, ScheduledComes
<1>4. LeftComes(l)'
  <2> SUFFICES ASSUME NEW x \in LeftItems(toDispatch'[l], stack'[l])
               PROVE  Comes(functions'[l], incoming'[x.conn], x)
    BY DEF LeftComes
  <2>1. x \in LeftItems(toDispatch[l], stack[l])
    BY DEF Fewer
  <2>2. x.conn \in Ends /\ LoopOf[x.conn] = l
    BY <2>1, LeftInAll, OwnItems
  <2>3. Comes(functions[l], incoming[x.conn], x)
    BY <1>1, <2>1 DEF ScheduleAt, LeftComes
  <2>4. QED BY <2>2, <2>3
<1>5. ClosesLast(l)'
  BY <1>1 DEF ScheduleAt, ClosesLast
<1>6. QED BY <1>2, <1>3, <1>4, <1>5 DEF ScheduleAt

(* A function is appended for a connection that is still open.               *)
LEMMA ClosesAppend ==
  ASSUME Types, NEW l \in RunLoops, ClosesLast(l), NEW g \in Function, functions[l] \in Seq(Function),
         functions'[l] = Append(functions[l], g), connected[g.conn] \/ shouldWait[g.conn],
         \A e \in Ends : (connected'[e] => connected[e]) /\ (shouldWait'[e] => shouldWait[e]),
         g = DidClose(g.conn) => ~connected'[g.conn] /\ ~shouldWait'[g.conn]
  PROVE  ClosesLast(l)'
<1> SUFFICES ASSUME NEW e \in Ends, LoopOf[e] = l
             PROVE  /\ CloseLast(functions'[l], e)
                    /\ Has(functions'[l], {DidClose(e)}) => ~connected'[e] /\ ~shouldWait'[e]
  BY DEF ClosesLast
<1>1. CloseLast(functions[l], e) /\ (Has(functions[l], {DidClose(e)}) => ~connected[e] /\ ~shouldWait[e])
  BY DEF ClosesLast
<1>2. CloseLast(functions'[l], e)
  BY <1>1, CloseLastAppend
<1>3. ASSUME Has(functions'[l], {DidClose(e)}) PROVE ~connected'[e] /\ ~shouldWait'[e]
  <2>1. Has(functions[l], {DidClose(e)}) \/ g = DidClose(e)
    BY <1>3, HasAppend
  <2>2. g = DidClose(e) => g.conn = e
    BY DEF DidClose
  <2>3. QED BY <1>1, <2>1, <2>2
<1>4. QED BY <1>2, <1>3

(* The first function is taken.                                              *)
LEMMA ClosesTail ==
  ASSUME NEW l \in RunLoops, ClosesLast(l), functions[l] \in Seq(Function), functions[l] # <<>>,
         functions'[l] = Tail(functions[l]), UNCHANGED <<connected, shouldWait>>
  PROVE  ClosesLast(l)'
<1> SUFFICES ASSUME NEW e \in Ends, LoopOf[e] = l
             PROVE  /\ CloseLast(functions'[l], e)
                    /\ Has(functions'[l], {DidClose(e)}) => ~connected'[e] /\ ~shouldWait'[e]
  BY DEF ClosesLast
<1>1. CloseLast(functions[l], e) /\ (Has(functions[l], {DidClose(e)}) => ~connected[e] /\ ~shouldWait[e])
  BY DEF ClosesLast
<1>2. QED BY <1>1, CloseLastTail

(* What performWork() takes from the queue of functions.                     *)
LEMMA TakenFunction ==
  ASSUME Types, OwnConnections, NEW k \in RunLoops, NEW fn, NextFunction(k, fn)
  PROVE  /\ functions[k] \in Seq(Function) /\ functions[k] # <<>> /\ functions'[k] = Tail(functions[k])
         /\ \A l \in RunLoops : l # k => functions'[l] = functions[l]
         /\ Head(functions[k]) \in Function /\ Head(functions[k]).fn = fn
         /\ Head(functions[k]).conn \in Ends /\ LoopOf[Head(functions[k]).conn] = k
<1>1. functions \in [RunLoops -> Seq(Function)] /\ functions[k] \in Seq(OwnFunction(k))
  BY DEF Types, LoopTypes, OwnConnections
<1>2. functions[k] # <<>> /\ Head(functions[k]).fn = fn /\ functions' = [functions EXCEPT ![k] = Tail(functions[k])]
  BY DEF NextFunction
<1>3. Head(functions[k]) \in OwnFunction(k)
  BY <1>1, <1>2, TailFacts
<1>4. QED BY <1>1, <1>2, <1>3 DEF OwnFunction, Function

(* The functions that are left, when the first was not about the items.      *)
LEMMA ScheduleTake ==
  ASSUME Types, OwnConnections, Schedule, ItemsLess, NEW k \in RunLoops, NEW fn, NextFunction(k, fn),
         UNCHANGED <<connected, shouldWait>>,
         fn # "dispatchOneMessage", incoming' = incoming,
         \A l \in RunLoops : l # k => scheduled'[l] = scheduled[l],
         scheduled'[k] \subseteq scheduled[k], Head(functions[k]).conn \notin scheduled'[k] \/ fn # "dispatchMessagesForConnection",
         \A x \in LeftItems(toDispatch'[k], stack'[k]) :
             fn # "dispatchMessagesForConnection" \/ x.conn # Head(functions[k]).conn
  PROVE  Schedule'
<1>0. PICK fs, g : fs = functions[k] /\ g = Head(fs)
  OBVIOUS
<1>1. /\ fs \in Seq(Function) /\ fs # <<>> /\ functions'[k] = Tail(fs) /\ g \in Function /\ g.fn = fn
      /\ \A l \in RunLoops : l # k => functions'[l] = functions[l]
  BY <1>0, TakenFunction
<1>2. \A l \in RunLoops : l # k => ScheduleAt(l)'
  BY <1>1, ScheduleRests DEF ItemsLess
<1>3. ScheduleAt(k)
  BY DEF Schedule
<1>4. OneForEach(k)'
  <2> SUFFICES ASSUME NEW e \in Ends, LoopOf[e] = k
               PROVE  Len(incoming'[e]) = Count(functions'[k], {DispatchOne(e)})
    BY DEF OneForEach
  <2>1. g \notin {DispatchOne(e)}
    BY <1>1 DEF DispatchOne
  <2>2. Count(fs, {DispatchOne(e)}) = Count(Tail(fs), {DispatchOne(e)})
    BY <1>0, <1>1, <2>1, CountTail
  <2>3. Len(incoming[e]) = Count(fs, {DispatchOne(e)})
    BY <1>0, <1>3 DEF ScheduleAt, OneForEach
  <2>4. QED BY <1>1, <2>2, <2>3
<1>5. ScheduledComes(k)'
  <2> SUFFICES ASSUME NEW e \in scheduled'[k] PROVE Has(functions'[k], {DispatchAll(e)})
    BY DEF ScheduledComes
  <2>1. Has(fs, {DispatchAll(e)})
    BY <1>0, <1>3 DEF ScheduleAt, ScheduledComes
  <2>2. g \notin {DispatchAll(e)}
    BY <1>0, <1>1 DEF DispatchAll
  <2>3. QED BY <1>0, <1>1, <2>1, <2>2, HasRest
<1>6. LeftComes(k)'
  <2> SUFFICES ASSUME NEW x \in LeftItems(toDispatch'[k], stack'[k])
               PROVE  Comes(functions'[k], incoming'[x.conn], x)
    BY DEF LeftComes
  <2>1. x \in LeftItems(toDispatch[k], stack[k])
    BY DEF ItemsLess, Fewer
  <2>2. Comes(fs, incoming[x.conn], x)
    BY <1>0, <1>3, <2>1 DEF ScheduleAt, LeftComes
  <2>3. g # DispatchAll(x.conn) /\ g # DispatchOne(x.conn)
    BY <1>0, <1>1 DEF DispatchAll, DispatchOne
  <2>4. Comes(Tail(fs), incoming[x.conn], x)
    BY <1>0, <1>1, <2>2, <2>3, ComesTail
  <2>5. QED BY <1>1, <2>4
<1>7. ClosesLast(k)'
  BY <1>0, <1>1, <1>3, ClosesTail DEF ScheduleAt
<1>8. ScheduleAt(k)'
  BY <1>4, <1>5, <1>6, <1>7 DEF ScheduleAt
<1>9. QED BY <1>2, <1>8 DEF Schedule

(* dispatchOneMessage() takes a message, which there is.                     *)
LEMMA ScheduleOne ==
  ASSUME Types, OwnConnections, Schedule, ItemsLess, NEW k \in RunLoops, dispatchOneMessage(k)
  PROVE  LET d == Head(functions[k]).conn
         IN  /\ Schedule' /\ incoming[d] # <<>>
             /\ \A x \in LeftItems(toDispatch[k], stack[k]) : x.conn = d => Head(incoming[d]).serial < x.msg.serial
<1>0. PICK fs, d : fs = functions[k] /\ d = Head(fs).conn
  OBVIOUS
<1>1. NextFunction(k, "dispatchOneMessage") /\ UNCHANGED <<connected, shouldWait, scheduled>>
  BY DEF dispatchOneMessage
<1>2. /\ fs \in Seq(Function) /\ fs # <<>> /\ functions'[k] = Tail(fs) /\ Head(fs) \in Function
      /\ d \in Ends /\ LoopOf[d] = k /\ Head(fs).fn = "dispatchOneMessage"
      /\ \A l \in RunLoops : l # k => functions'[l] = functions[l]
  BY <1>0, <1>1, TakenFunction
<1>3. Head(fs) = DispatchOne(d) /\ Tail(fs) \in Seq(Function)
  BY <1>0, <1>2, FunctionForms, TailFacts
<1>4. ScheduleAt(k)
  BY DEF Schedule
<1>5. incoming \in [Ends -> Seq(Message)] /\ incoming[d] \in Seq(Message)
  BY <1>2 DEF Types, QueueTypes
<1>6. Count(fs, {DispatchOne(d)}) = Count(Tail(fs), {DispatchOne(d)}) + 1 /\ Count(Tail(fs), {DispatchOne(d)}) \in Nat
  BY <1>2, <1>3, CountTail, CountType
<1>7. Len(incoming[d]) = Count(Tail(fs), {DispatchOne(d)}) + 1
  BY <1>0, <1>2, <1>4, <1>6 DEF ScheduleAt, OneForEach
<1>8. incoming[d] # <<>>
  BY <1>5, <1>6, <1>7, EmptyFacts
<1>9. incoming'[d] = Tail(incoming[d]) /\ \A e \in Ends : e # d => incoming'[e] = incoming[e]
  BY <1>0, <1>2, <1>5, <1>8 DEF dispatchOneMessage
<1>10. \A l \in RunLoops : l # k => ScheduleAt(l)'
  BY <1>1, <1>2, <1>9, ScheduleRests DEF ItemsLess
<1>11. OneForEach(k)'
  <2> SUFFICES ASSUME NEW e \in Ends, LoopOf[e] = k
               PROVE  Len(incoming'[e]) = Count(functions'[k], {DispatchOne(e)})
    BY DEF OneForEach
  <2>1. CASE e = d
    <3>1. Len(Tail(incoming[d])) = Len(incoming[d]) - 1 /\ Len(incoming[d]) \in Nat
      BY <1>5, <1>8, TailFacts
    <3>2. PICK n : n = Count(Tail(fs), {DispatchOne(d)})
      OBVIOUS
    <3>3. Len(Tail(incoming[d])) = n
      BY <1>6, <1>7, <3>1, <3>2
    <3>4. QED BY <1>2, <1>9, <2>1, <3>2, <3>3
  <2>2. CASE e # d
    <3>1. Head(fs) \notin {DispatchOne(e)}
      BY <1>0, <2>2 DEF DispatchOne
    <3>2. Count(fs, {DispatchOne(e)}) = Count(Tail(fs), {DispatchOne(e)})
      BY <1>2, <3>1, CountTail
    <3>3. Len(incoming[e]) = Count(fs, {DispatchOne(e)})
      BY <1>0, <1>4 DEF ScheduleAt, OneForEach
    <3>4. QED BY <1>2, <1>9, <2>2, <3>2, <3>3
  <2>3. QED BY <2>1, <2>2
<1>12. ScheduledComes(k)'
  <2> SUFFICES ASSUME NEW e \in scheduled[k] PROVE Has(functions'[k], {DispatchAll(e)})
    BY <1>1 DEF ScheduledComes
  <2>1. Has(fs, {DispatchAll(e)})
    BY <1>0, <1>4 DEF ScheduleAt, ScheduledComes
  <2>2. Head(fs) \notin {DispatchAll(e)}
    BY <1>3, FunctionForms
  <2>3. QED BY <1>2, <2>1, <2>2, HasRest
<1>13. ASSUME NEW x \in LeftItems(toDispatch[k], stack[k])
       PROVE  Comes(Tail(fs), incoming'[x.conn], x) /\ (x.conn = d => Head(incoming[d]).serial < x.msg.serial)
  <2>1. Comes(fs, incoming[x.conn], x)
    BY <1>0, <1>4 DEF ScheduleAt, LeftComes
  <2>2. x.conn \in Ends
    BY LeftInAll, OwnItems
  <2>3. CASE x.conn = d
    <3>1. Comes(Tail(fs), Tail(incoming[d]), x) /\ Head(incoming[d]).serial < x.msg.serial
      BY <1>2, <1>3, <1>5, <1>8, <2>1, <2>3, ComesTake
    <3>2. QED BY <1>9, <2>3, <3>1
  <2>4. CASE x.conn # d
    <3>1. Head(fs) # DispatchAll(x.conn) /\ Head(fs) # DispatchOne(x.conn)
      BY <1>0, <1>3, <2>4, FunctionForms DEF DispatchOne
    <3>2. Comes(Tail(fs), incoming[x.conn], x)
      BY <1>2, <2>1, <3>1, ComesTail
    <3>3. QED BY <1>9, <2>2, <2>4, <3>2
  <2>5. QED BY <2>3, <2>4
<1>14. LeftComes(k)'
  <2> SUFFICES ASSUME NEW x \in LeftItems(toDispatch'[k], stack'[k])
               PROVE  Comes(functions'[k], incoming'[x.conn], x)
    BY DEF LeftComes
  <2>1. x \in LeftItems(toDispatch[k], stack[k])
    BY DEF ItemsLess, Fewer
  <2>2. QED BY <1>2, <1>13, <2>1
<1>15. ClosesLast(k)'
  BY <1>0, <1>1, <1>2, <1>4, ClosesTail DEF ScheduleAt
<1>16. ScheduleAt(k)'
  BY <1>11, <1>12, <1>14, <1>15 DEF ScheduleAt
<1>17. QED BY <1>0, <1>8, <1>10, <1>13, <1>16 DEF Schedule

(* A flagged message arrives: a function for its connection is there, and    *)
(* comes after all the messages that arrived earlier.                        *)
LEMMA ScheduleFlagged ==
  ASSUME Types, OwnConnections, Order, Schedule, NEW d \in Ends, ReceiveFlagged(d)
  PROVE  Schedule'
<1> USE DEF endVars, queueVars, loopVars
<1>0. PICK k, m : k = LoopOf[d] /\ m = Head(wire[d])
  OBVIOUS
<1> DEFINE x == [conn |-> d, msg |-> m]
<1>t. /\ functions \in [RunLoops -> Seq(Function)] /\ toDispatch \in [RunLoops -> Seq(ConnectionAndMessage)]
      /\ k \in RunLoops /\ scheduled \in [RunLoops -> SUBSET Ends] /\ incoming[d] \in Seq(Message)
  BY <1>0, LoopAssumption DEF Types, LoopTypes, QueueTypes
<1>1. /\ Receive(d) /\ m.type # "reply" /\ connected[d]
      /\ functions' = [functions EXCEPT ![k] = WithDispatch(k, d)]
      /\ scheduled' = [scheduled EXCEPT ![k] = scheduled[k] \cup {d}]
      /\ toDispatch' = [toDispatch EXCEPT ![k] = Append(toDispatch[k], x)]
      /\ UNCHANGED <<incoming, connected, shouldWait, stack>>
  BY <1>0 DEF ReceiveFlagged, Receive
<1>2. m \in Message /\ \A a \in Numbers(incoming[d], Message) : a < m.serial
  BY <1>0, <1>1, HeadOrder, ReceivedLast
<1>3. \A i \in DOMAIN incoming[d] : incoming[d][i].serial < m.serial
  BY <1>t, <1>2 DEF Numbers, Positions
<1>4. x \in ConnectionAndMessage /\ x.conn = d /\ x.msg = m
  BY <1>2 DEF ConnectionAndMessage
<1>5. ASSUME NEW l \in RunLoops, l # k PROVE ScheduleAt(l)'
  <2>1. /\ functions'[l] = functions[l] /\ scheduled'[l] = scheduled[l] /\ toDispatch'[l] = toDispatch[l]
        /\ stack'[l] = stack[l]
    BY <1>t, <1>1, <1>5
  <2>2. Fewer(toDispatch[l], stack[l], toDispatch'[l], stack'[l])
    BY <2>1 DEF Fewer
  <2>3. QED BY <1>1, <2>1, <2>2, ScheduleRests
<1> HIDE DEF x
<1>6. ScheduleAt(k)
  BY <1>t DEF Schedule
<1>7. PICK fs, gs : fs = functions[k] /\ gs = functions'[k]
  OBVIOUS
<1>8. fs \in Seq(Function) /\ DispatchAll(d) \in Function
  BY <1>t, <1>7, FunctionForms
<1>9. (d \in scheduled[k] /\ gs = fs) \/ gs = Append(fs, DispatchAll(d))
  <2>1. gs = WithDispatch(k, d)
    BY <1>t, <1>1, <1>7
  <2>2. QED BY <1>7, <2>1 DEF WithDispatch, DispatchAll
<1>10. OneForEach(k)'
  <2> SUFFICES ASSUME NEW e \in Ends, LoopOf[e] = k PROVE Len(incoming[e]) = Count(gs, {DispatchOne(e)})
    BY <1>1, <1>7 DEF OneForEach
  <2>1. Len(incoming[e]) = Count(fs, {DispatchOne(e)})
    BY <1>6, <1>7 DEF ScheduleAt, OneForEach
  <2>2. DispatchAll(d) \notin {DispatchOne(e)}
    BY FunctionForms
  <2>3. Count(Append(fs, DispatchAll(d)), {DispatchOne(e)}) = Count(fs, {DispatchOne(e)})
    BY <1>8, <2>2, CountAppend
  <2>4. QED BY <1>9, <2>1, <2>3
<1>11. Has(gs, {DispatchAll(d)})
  <2>1. d \in scheduled[k] => Has(fs, {DispatchAll(d)})
    BY <1>6, <1>7 DEF ScheduleAt, ScheduledComes
  <2>2. Has(Append(fs, DispatchAll(d)), {DispatchAll(d)})
    BY <1>8, HasMore
  <2>3. QED BY <1>9, <2>1, <2>2
<1>12. ScheduledComes(k)'
  <2> SUFFICES ASSUME NEW e \in scheduled[k] PROVE Has(gs, {DispatchAll(e)})
    BY <1>t, <1>1, <1>7, <1>11 DEF ScheduledComes
  <2>1. Has(fs, {DispatchAll(e)})
    BY <1>6, <1>7 DEF ScheduleAt, ScheduledComes
  <2>2. Has(Append(fs, DispatchAll(d)), {DispatchAll(e)})
    BY <1>8, <2>1, HasMore
  <2>3. QED BY <1>9, <2>1, <2>2
<1>13. LeftComes(k)'
  <2> SUFFICES ASSUME NEW y \in LeftItems(toDispatch'[k], stack[k]) PROVE Comes(gs, incoming[y.conn], y)
    BY <1>1, <1>7 DEF LeftComes
  <2>1. toDispatch'[k] = Append(toDispatch[k], x) /\ toDispatch[k] \in Seq(ConnectionAndMessage)
    BY <1>t, <1>1
  <2>2. Items(toDispatch'[k]) = Items(toDispatch[k]) \cup {x}
    BY <1>4, <2>1, ItemsAppend
  <2>3. y \in LeftItems(toDispatch[k], stack[k]) \/ y = x
    BY <2>2 DEF LeftItems
  <2>4. CASE y = x
    BY <1>3, <1>4, <1>11, <2>4, ComesNew
  <2>5. CASE y \in LeftItems(toDispatch[k], stack[k])
    <3>1. Comes(fs, incoming[y.conn], y)
      BY <1>6, <1>7, <2>5 DEF ScheduleAt, LeftComes
    <3>2. Comes(Append(fs, DispatchAll(d)), incoming[y.conn], y)
      BY <1>8, <3>1, ComesAppend
    <3>3. QED BY <1>9, <3>1, <3>2
  <2>6. QED BY <2>3, <2>4, <2>5
<1>14. ClosesLast(k)'
  <2>1. ClosesLast(k)
    BY <1>6 DEF ScheduleAt
  <2>2. CASE gs = fs
    BY <1>1, <1>7, <2>1, <2>2 DEF ClosesLast
  <2>3. CASE gs = Append(fs, DispatchAll(d))
    <3>1. DispatchAll(d).conn = d /\ DispatchAll(d) # DidClose(d)
      BY FunctionForms
    <3>2. PICK g : g = DispatchAll(d)
      OBVIOUS
    <3>3. g \in Function /\ functions[k] \in Seq(Function) /\ functions'[k] = Append(functions[k], g) /\ g.conn = d /\ g # DidClose(d)
      BY <1>7, <1>8, <2>3, <3>1, <3>2
    <3>4. QED BY <1>t, <1>1, <2>1, <3>3, ClosesAppend
  <2>4. QED BY <1>9, <2>2, <2>3
<1>15. ScheduleAt(k)'
  BY <1>10, <1>12, <1>13, <1>14 DEF ScheduleAt
<1>16. QED BY <1>5, <1>15 DEF Schedule

(* An unflagged message arrives with a function of its own.                  *)
LEMMA ScheduleUnflagged ==
  ASSUME Types, OwnConnections, Order, Schedule, NEW d \in Ends, ReceiveUnflagged(d)
  PROVE  Schedule'
<1> USE DEF endVars, queueVars, loopVars
<1>0. PICK k, m, g : k = LoopOf[d] /\ m = Head(wire[d]) /\ g = DispatchOne(d)
  OBVIOUS
<1>t. /\ functions \in [RunLoops -> Seq(Function)] /\ k \in RunLoops /\ incoming \in [Ends -> Seq(Message)]
  BY <1>0, LoopAssumption DEF Types, LoopTypes, QueueTypes
<1>1. /\ Receive(d) /\ connected[d] /\ m.type # "reply"
      /\ functions' = [functions EXCEPT ![k] = Append(functions[k], g)]
      /\ incoming' = [incoming EXCEPT ![d] = Append(incoming[d], m)]
      /\ UNCHANGED <<scheduled, connected, shouldWait, stack, toDispatch>>
  BY <1>0 DEF ReceiveUnflagged, Receive, AppendIncoming, DispatchOne
<1>2. m \in Message /\ g \in Function /\ g.conn = d /\ \A e : g # DispatchAll(e) /\ g # DidClose(e)
  BY <1>0, <1>1, HeadOrder, FunctionForms
<1>3. incoming'[d] = Append(incoming[d], m) /\ \A e \in Ends : e # d => incoming'[e] = incoming[e]
  BY <1>t, <1>1
<1>4. ASSUME NEW l \in RunLoops, l # k PROVE ScheduleAt(l)'
  <2>1. /\ functions'[l] = functions[l] /\ scheduled'[l] = scheduled[l] /\ toDispatch'[l] = toDispatch[l]
        /\ stack'[l] = stack[l]
    BY <1>t, <1>1, <1>4
  <2>2. Fewer(toDispatch[l], stack[l], toDispatch'[l], stack'[l])
    BY <2>1 DEF Fewer
  <2>3. \A e \in Ends : LoopOf[e] = l => incoming'[e] = incoming[e]
    BY <1>0, <1>3, <1>4
  <2>4. QED BY <1>1, <2>1, <2>2, <2>3, ScheduleRests
<1>6. ScheduleAt(k)
  BY <1>t DEF Schedule
<1>7. PICK fs : fs = functions[k]
  OBVIOUS
<1>8. fs \in Seq(Function) /\ functions'[k] = Append(fs, g)
  BY <1>t, <1>1, <1>7
<1>9. \A e \in Ends : LoopOf[e] = k => Len(incoming[e]) = Count(fs, {DispatchOne(e)})
  BY <1>6, <1>7 DEF ScheduleAt, OneForEach
<1>10. OneForEach(k)'
  <2> SUFFICES ASSUME NEW e \in Ends, LoopOf[e] = k PROVE Len(incoming'[e]) = Count(functions'[k], {DispatchOne(e)})
    BY DEF OneForEach
  <2>1. Len(incoming[e]) = Count(fs, {DispatchOne(e)})
    BY <1>9
  <2>2. CASE e = d
    <3>1. Count(Append(fs, g), {DispatchOne(e)}) = Count(fs, {DispatchOne(e)}) + 1
      BY <1>0, <1>2, <1>8, <2>2, CountAppend
    <3>2. Len(incoming'[d]) = Len(incoming[d]) + 1
      BY <1>t, <1>2, <1>3, AppendFacts
    <3>3. QED BY <1>8, <2>1, <2>2, <3>1, <3>2
  <2>3. CASE e # d
    <3>1. g \notin {DispatchOne(e)}
      BY <1>0, <2>3 DEF DispatchOne
    <3>2. Count(Append(fs, g), {DispatchOne(e)}) = Count(fs, {DispatchOne(e)})
      BY <1>2, <1>8, <3>1, CountAppend
    <3>3. QED BY <1>3, <1>8, <2>1, <2>3, <3>2
  <2>4. QED BY <2>2, <2>3
<1>11. ScheduledComes(k)'
  <2> SUFFICES ASSUME NEW e \in scheduled[k] PROVE Has(Append(fs, g), {DispatchAll(e)})
    BY <1>1, <1>8 DEF ScheduledComes
  <2>1. Has(fs, {DispatchAll(e)})
    BY <1>6, <1>7 DEF ScheduleAt, ScheduledComes
  <2>2. QED BY <1>2, <1>8, <2>1, HasMore
<1>12. LeftComes(k)'
  <2> SUFFICES ASSUME NEW y \in LeftItems(toDispatch[k], stack[k]) PROVE Comes(Append(fs, g), incoming'[y.conn], y)
    BY <1>1, <1>8 DEF LeftComes
  <2>1. Comes(fs, incoming[y.conn], y)
    BY <1>6, <1>7 DEF ScheduleAt, LeftComes
  <2>2. y.conn \in Ends /\ LoopOf[y.conn] = k
    BY <1>t, LeftInAll, OwnItems
  <2>3. CASE y.conn = d
    <3>1. Len(incoming[d]) = Count(fs, {DispatchOne(y.conn)}) /\ incoming[d] \in Seq(Message)
      BY <1>t, <1>9, <2>2, <2>3
    <3>2. Comes(Append(fs, g), Append(incoming[d], m), y)
      BY <1>2, <1>8, <2>1, <2>3, <3>1, ComesReceive
    <3>3. QED BY <1>3, <2>3, <3>2
  <2>4. CASE y.conn # d
    <3>1. Comes(Append(fs, g), incoming[y.conn], y)
      BY <1>2, <1>8, <2>1, ComesAppend
    <3>2. QED BY <1>3, <2>2, <2>4, <3>1
  <2>5. QED BY <2>3, <2>4
<1>13. ClosesLast(k)'
  <2>1. ClosesLast(k)
    BY <1>6 DEF ScheduleAt
  <2>2. functions[k] \in Seq(Function) /\ functions'[k] = Append(functions[k], g)
    BY <1>7, <1>8
  <2>3. QED BY <1>t, <1>1, <1>2, <2>1, <2>2, ClosesAppend
<1>14. ScheduleAt(k)'
  BY <1>10, <1>11, <1>12, <1>13 DEF ScheduleAt
<1>15. QED BY <1>4, <1>14 DEF Schedule

(* connectionDidClose() appends the last function of a connection.           *)
LEMMA ScheduleClose ==
  ASSUME Types, OwnConnections, Schedule, NEW d \in Ends, connectionDidClose(d)
  PROVE  Schedule'
<1> USE DEF endVars, queueVars, loopVars
<1>0. PICK k, g : k = LoopOf[d] /\ g = DidClose(d)
  OBVIOUS
<1>t. /\ functions \in [RunLoops -> Seq(Function)] /\ k \in RunLoops
      /\ connected \in [Ends -> BOOLEAN] /\ shouldWait \in [Ends -> BOOLEAN]
  BY <1>0, LoopAssumption DEF Types, LoopTypes, FlagTypes
<1>1. /\ shouldWait[d] /\ functions' = [functions EXCEPT ![k] = Append(functions[k], g)]
      /\ connected' = [connected EXCEPT ![d] = FALSE] /\ shouldWait' = [shouldWait EXCEPT ![d] = FALSE]
      /\ UNCHANGED <<scheduled, incoming, stack, toDispatch>>
  BY <1>0 DEF connectionDidClose, WithClose, DidClose
<1>2. g \in Function /\ g.conn = d /\ \A e : g # DispatchAll(e) /\ g # DispatchOne(e)
  BY <1>0, FunctionForms
<1>3. /\ \A e \in Ends : (connected'[e] => connected[e]) /\ (shouldWait'[e] => shouldWait[e])
      /\ ~connected'[d] /\ ~shouldWait'[d]
  BY <1>t, <1>1
<1>4. ASSUME NEW l \in RunLoops, l # k PROVE ScheduleAt(l)'
  <2>1. /\ functions'[l] = functions[l] /\ scheduled'[l] = scheduled[l] /\ toDispatch'[l] = toDispatch[l]
        /\ stack'[l] = stack[l]
    BY <1>t, <1>1, <1>4
  <2>2. Fewer(toDispatch[l], stack[l], toDispatch'[l], stack'[l])
    BY <2>1 DEF Fewer
  <2>3. QED BY <1>1, <1>3, <2>1, <2>2, ScheduleRests
<1>6. ScheduleAt(k)
  BY <1>t DEF Schedule
<1>7. PICK fs : fs = functions[k]
  OBVIOUS
<1>8. fs \in Seq(Function) /\ functions'[k] = Append(fs, g)
  BY <1>t, <1>1, <1>7
<1>10. OneForEach(k)'
  <2> SUFFICES ASSUME NEW e \in Ends, LoopOf[e] = k PROVE Len(incoming[e]) = Count(Append(fs, g), {DispatchOne(e)})
    BY <1>1, <1>8 DEF OneForEach
  <2>1. Len(incoming[e]) = Count(fs, {DispatchOne(e)})
    BY <1>6, <1>7 DEF ScheduleAt, OneForEach
  <2>2. g \notin {DispatchOne(e)}
    BY <1>2
  <2>3. Count(Append(fs, g), {DispatchOne(e)}) = Count(fs, {DispatchOne(e)})
    BY <1>2, <1>8, <2>2, CountAppend
  <2>4. QED BY <2>1, <2>3
<1>11. ScheduledComes(k)'
  <2> SUFFICES ASSUME NEW e \in scheduled[k] PROVE Has(Append(fs, g), {DispatchAll(e)})
    BY <1>1, <1>8 DEF ScheduledComes
  <2>1. Has(fs, {DispatchAll(e)})
    BY <1>6, <1>7 DEF ScheduleAt, ScheduledComes
  <2>2. QED BY <1>2, <1>8, <2>1, HasMore
<1>12. LeftComes(k)'
  <2> SUFFICES ASSUME NEW y \in LeftItems(toDispatch[k], stack[k]) PROVE Comes(Append(fs, g), incoming[y.conn], y)
    BY <1>1, <1>8 DEF LeftComes
  <2>1. Comes(fs, incoming[y.conn], y)
    BY <1>6, <1>7 DEF ScheduleAt, LeftComes
  <2>2. QED BY <1>2, <1>8, <2>1, ComesAppend
<1>13. ClosesLast(k)'
  <2>1. ClosesLast(k)
    BY <1>6 DEF ScheduleAt
  <2>2. functions[k] \in Seq(Function) /\ functions'[k] = Append(functions[k], g)
    BY <1>7, <1>8
  <2>3. QED BY <1>t, <1>1, <1>2, <1>3, <2>1, <2>2, ClosesAppend
<1>14. ScheduleAt(k)'
  BY <1>10, <1>11, <1>12, <1>13 DEF ScheduleAt
<1>15. QED BY <1>4, <1>14 DEF Schedule

(* A process that ends has nothing to schedule.                              *)
LEMMA ScheduleExit ==
  ASSUME Types, OwnConnections, Schedule, NEW k \in RunLoops, ProcessExits(k)
  PROVE  Schedule'
<1>t. /\ functions \in [RunLoops -> Seq(Function)] /\ scheduled \in [RunLoops -> SUBSET Ends]
      /\ stack \in [RunLoops -> Seq(Frame)] /\ toDispatch \in [RunLoops -> Seq(ConnectionAndMessage)]
  BY DEF Types, LoopTypes
<1>1. /\ \A e \in Ends : LoopOf[e] # k => incoming'[e] = incoming[e] /\ connected'[e] = connected[e]
      /\ \A e \in Ends : LoopOf[e] = k => incoming'[e] = <<>>
      /\ UNCHANGED shouldWait
  BY DEF ProcessExits
<1>2. /\ functions'[k] = <<>> /\ scheduled'[k] = {} /\ stack'[k] = <<>> /\ toDispatch'[k] = <<>>
      /\ \A l \in RunLoops : l # k => /\ functions'[l] = functions[l] /\ scheduled'[l] = scheduled[l]
                                      /\ stack'[l] = stack[l] /\ toDispatch'[l] = toDispatch[l]
  BY <1>t DEF ProcessExits
<1>3. ASSUME NEW l \in RunLoops, l # k PROVE ScheduleAt(l)'
  <2>1. Fewer(toDispatch[l], stack[l], toDispatch'[l], stack'[l])
    BY <1>2, <1>3 DEF Fewer
  <2>2. QED BY <1>1, <1>2, <1>3, <2>1, ScheduleRests
<1>4. OneForEach(k)'
  BY <1>1, <1>2, CountEmpty, EmptyFacts DEF OneForEach
<1>5. ScheduledComes(k)'
  BY <1>2 DEF ScheduledComes
<1>6. LeftComes(k)'
  <2>1. LeftItems(<<>>, <<>>) = {}
    BY ItemsEmpty, EmptyFacts DEF LeftItems, StackLeft
  <2>2. QED BY <1>2, <2>1 DEF LeftComes
<1>7. ClosesLast(k)'
  <2>1. \A e : CloseLast(<<>>, e)
    BY EmptyFacts DEF CloseLast
  <2>2. QED BY <1>2, <2>1, HasEmpty DEF ClosesLast
<1>8. ScheduleAt(k)'
  BY <1>4, <1>5, <1>6, <1>7 DEF ScheduleAt
<1>9. QED BY <1>3, <1>8 DEF Schedule

(* A step that leaves the functions and the received messages alone.         *)
LEMMA SameSchedule ==
  ASSUME OwnConnections, Schedule, ItemsLess, UNCHANGED <<functions, scheduled, incoming, shouldWait>>,
         \A e \in Ends : connected'[e] => connected[e]
  PROVE  Schedule'
<1>1. \A l \in RunLoops : ScheduleAt(l)'
  BY ScheduleRests DEF ItemsLess
<1>2. QED BY <1>1 DEF Schedule

(* Without nested loops the stack is empty when a function is taken.         *)
LEMMA NotNested ==
  ASSUME Types, Shallow, NEW k \in RunLoops
  PROVE  ~At(k, {"nested"}) /\ (InRunLoop(k) => stack[k] = <<>>)
<1>1. ASSUME At(k, {"nested"}) PROVE FALSE
  <2>1. stack[k] \in Seq(Frame) /\ stack[k] # <<>> /\ Top(k).at = "nested"
    BY <1>1 DEF At, Types, LoopTypes
  <2>2. QED BY <2>1 DEF Top, Shallow, ShallowStack
<1>2. QED BY <1>1 DEF InRunLoop

(* Every step keeps the schedule, if no handler spins a loop.                *)
LEMMA ScheduleStep ==
  ASSUME Types, OwnConnections, Order, Shallow, Schedule, [Next]_vars
  PROVE  Schedule'
<1> USE DEF endVars, queueVars, loopVars
<1>t. /\ connected \in [Ends -> BOOLEAN] /\ stack \in [RunLoops -> Seq(Frame)] /\ scheduled \in [RunLoops -> SUBSET Ends]
      /\ \A d \in Ends : LoopOf[d] \in RunLoops
  BY LoopAssumption DEF Types, LoopTypes, FlagTypes
<1>1. CASE \E d \in Ends : ReceiveFlagged(d)
  BY <1>1, ScheduleFlagged
<1>2. CASE ItemsLess
  <2>1. ASSUME UNCHANGED <<functions, scheduled, incoming, shouldWait, connected>> PROVE Schedule'
    BY <1>2, <2>1, SameSchedule
  <2>2. ASSUME NEW k \in RunLoops, dispatchMessagesForConnection(k) PROVE Schedule'
    <3>0. PICK d : d = Head(functions[k]).conn
      OBVIOUS
    <3> DEFINE f == NewFrame("swap", d, NoMessage)
    <3>1. /\ NextFunction(k, "dispatchMessagesForConnection") /\ UNCHANGED <<connected, shouldWait, incoming>>
          /\ scheduled' = [scheduled EXCEPT ![k] = scheduled[k] \ {d}]
          /\ stack' = [stack EXCEPT ![k] = Append(stack[k], f)]
      BY <2>2, <3>0 DEF dispatchMessagesForConnection, Unschedule
    <3>2. stack[k] = <<>>
      BY <3>1, NotNested DEF NextFunction
    <3>3. d \in Ends
      BY <3>0, <3>1, TakenFunction
    <3>4. f \in Frame /\ f.at = "swap" /\ f.conn = d /\ f.todo = <<>> /\ f.putBack = <<>>
      <4>1. f \in Frame
        BY <3>3, NewFrameType, NoMessageType
      <4>2. QED BY <4>1 DEF NewFrame
    <3>5. stack'[k] = Append(<<>>, f) /\ <<>> \in Seq(Frame)
      BY <1>t, <3>1, <3>2
    <3> HIDE DEF f
    <3>6. StackLeft(stack'[k]) = {} /\ Swaps(stack'[k]) /\ stack'[k][Len(stack'[k])] = f
      <4>1. FrameLeft(f) = {} /\ StackLeft(<<>>) = {}
        BY <3>4, ItemsEmpty, EmptyFacts DEF FrameLeft, FrameItems, StackLeft
      <4>2. LET t == Append(<<>>, f)
            IN  StackLeft(t) = StackLeft(<<>>) \cup FrameLeft(f) /\ t # <<>> /\ t[Len(t)] = f
        BY <3>4, <3>5, PushItems
      <4>3. QED BY <3>4, <3>5, <4>1, <4>2 DEF Swaps
    <3>7. \A x \in LeftItems(toDispatch'[k], stack'[k]) : x.conn # d
      BY <3>4, <3>6 DEF LeftItems, Takes
    <3>8. scheduled'[k] = scheduled[k] \ {d} /\ \A l \in RunLoops : l # k => scheduled'[l] = scheduled[l]
      BY <1>t, <3>1
    <3>9. QED BY <1>2, <3>0, <3>1, <3>7, <3>8, ScheduleTake
  <2>3. ASSUME NEW k \in RunLoops, dispatchConnectionDidClose(k) PROVE Schedule'
    <3>1. NextFunction(k, "dispatchConnectionDidClose") /\ UNCHANGED <<connected, shouldWait, incoming, scheduled>>
      BY <2>3 DEF dispatchConnectionDidClose
    <3>2. QED BY <1>2, <3>1, ScheduleTake
  <2>4. ASSUME NEW k \in RunLoops, dispatchOneMessage(k) PROVE Schedule'
    BY <1>2, <2>4, ScheduleOne
  <2>5. ASSUME NEW k \in RunLoops, SyncSendFails(k, Top(k).conn) PROVE Schedule'
    BY <2>1, <2>5, ScheduleExit DEF SyncSendFails, PopPendingReply
  <2>6. ASSUME NEW k \in RunLoops, ClientThread(k) \/ EnterNestedLoop(k) \/ TimeOut(k) \/ Crash(k) PROVE Schedule'
    <3>1. CASE performWork(k)
      BY <2>2, <2>3, <2>4, <3>1 DEF performWork
    <3>2. CASE GiveUp(k) \/ TimeOut(k) \/ Crash(k)
      BY <2>5, <3>2, ScheduleExit DEF GiveUp, TimeOut, Crash
    <3>3. CASE SwapMessages(k) \/ DispatchNext(k) \/ EndDispatchMessages(k)
      BY <2>1, <3>3 DEF SwapMessages, DispatchNext, EndDispatchMessages
    <3>4. CASE ReturnReply(k) \/ Sleep(k) \/ WakeUp(k)
      BY <2>1, <3>4 DEF ReturnReply, Sleep, WakeUp, PopPendingReply
    <3>5. CASE HandlerReturns(k) \/ ExitNestedLoop(k) \/ EnterNestedLoop(k)
      BY <2>1, <3>5 DEF HandlerReturns, ExitNestedLoop, EnterNestedLoop
    <3>6. QED BY <2>6, <3>1, <3>2, <3>3, <3>4, <3>5 DEF ClientThread
  <2>7. ASSUME NEW d \in Ends, ConnectionQueue(d) \/ ClientDecides(d), ~ReceiveFlagged(d) PROVE Schedule'
    <3>1. CASE PlatformInvalidate(d)
      <4>1. UNCHANGED <<functions, scheduled, incoming, shouldWait>> /\ \A e \in Ends : connected'[e] => connected[e]
        BY <1>t, <3>1 DEF PlatformInvalidate
      <4>2. QED BY <1>2, <4>1, SameSchedule
    <3>2. CASE ReceiveUnflagged(d) \/ connectionDidClose(d)
      BY <3>2, ScheduleUnflagged, ScheduleClose
    <3>3. CASE SendSyncFails(d)
      BY <1>t, <3>3, ScheduleExit DEF SendSyncFails
    <3>4. CASE sendOutgoingMessages(d) \/ ReceiveReply(d) \/ ReceiveOtherReply(d) \/ wakeUpClientRunLoop(d)
      BY <2>1, <3>4 DEF sendOutgoingMessages, ReceiveReply, ReceiveOtherReply, wakeUpClientRunLoop
    <3>5. ASSUME NEW ask \in BOOLEAN, SendAsync(d, ask) PROVE Schedule'
      BY <2>1, <3>5 DEF SendAsync
    <3>6. CASE SendSync(d) \/ Invalidate(d)
      BY <2>1, <3>6 DEF SendSync, Invalidate
    <3>7. QED BY <2>7, <3>1, <3>2, <3>3, <3>4, <3>5, <3>6 DEF ConnectionQueue, ClientDecides
  <2>8. ASSUME NEW t \in SecondaryThreads, SecondaryRegister(t) \/ SecondarySend(t) \/ SecondaryReturn(t)
        PROVE  Schedule'
    BY <2>1, <2>8 DEF SecondaryRegister, SecondarySend, SecondaryReturn
  <2>9. CASE UNCHANGED vars
    BY <2>1, <2>9 DEF vars
  <2>10. QED BY <1>1, <2>6, <2>7, <2>8, <2>9 DEF Next
<1>3. QED BY <1>1, <1>2, ItemsStep

(* Init has nothing to schedule.                                             *)
LEMMA InitSchedule == Init => Schedule
<1> SUFFICES ASSUME Init, NEW l \in RunLoops PROVE ScheduleAt(l)
  BY DEF Schedule
<1>1. /\ functions[l] = <<>> /\ toDispatch[l] = <<>> /\ stack[l] = <<>> /\ scheduled[l] = {}
      /\ \A e \in Ends : incoming[e] = <<>>
  BY DEF Init
<1>2. OneForEach(l)
  BY <1>1, CountEmpty, EmptyFacts DEF OneForEach
<1>3. LeftItems(<<>>, <<>>) = {}
  BY ItemsEmpty, EmptyFacts DEF LeftItems, StackLeft
<1>4. ScheduledComes(l) /\ LeftComes(l)
  BY <1>1, <1>3 DEF ScheduledComes, LeftComes
<1>5. ClosesLast(l)
  BY <1>1, HasEmpty, EmptyFacts DEF ClosesLast, CloseLast
<1>6. QED BY <1>2, <1>4, <1>5 DEF ScheduleAt

(* Initially nobody sleeps.                                                  *)
LEMMA InitWakeups == Init => Wakeups
BY EmptyFacts DEF Init, Wakeups, Shallow, ShallowStack, WakeupDue, SleepsInformed, At

(* The invariant of a run loop without nested loops.                         *)
Scheduling == Types /\ OwnConnections /\ PendingMatchesStack /\ Wakeups /\ Order /\ Schedule

(* Every step keeps it.                                                      *)
LEMMA SchedulingStep ==
  ASSUME MayNest = {}, Scheduling, [Next]_vars
  PROVE  Scheduling'
<1>1. Types /\ OwnConnections /\ PendingMatchesStack /\ Wakeups /\ Order /\ Schedule /\ Shallow
  BY DEF Scheduling, Wakeups
<1>2. Types' /\ OwnConnections' /\ PendingMatchesStack'
  BY <1>1, TypesStep, OwnStep, PendingStep
<1>3. Wakeups' /\ Order' /\ Schedule'
  BY <1>1, WakeupsStep, OrderStep, ScheduleStep
<1>4. QED BY <1>2, <1>3 DEF Scheduling

(* The initial state has it.                                                 *)
LEMMA InitScheduling == Init => Scheduling
BY InitTypes, InitRequests, InitWakeups, InitOrder, InitSchedule DEF Scheduling

(* It holds in every state.                                                  *)
LEMMA SchedulingInvariant == ASSUME MayNest = {} PROVE Spec => []Scheduling
<1>1. Scheduling /\ [Next]_vars => Scheduling'
  BY SchedulingStep
<1>2. QED BY <1>1, InitScheduling, PTL DEF Spec

(* No received message is forgotten: each message of the shared queue has a  *)
(* dispatchMessagesForConnection() of its connection in the run loop, unless *)
(* the client thread is about to take the queue, and each message of         *)
(* m_incomingMessages has exactly one dispatchOneMessage().                  *)
THEOREM ReceivedScheduled == ASSUME MayNest = {} PROVE Spec => []ReceivedIsScheduled
<1>1. Scheduling => ReceivedIsScheduled
  <2> SUFFICES ASSUME Scheduling, NEW l \in RunLoops
               PROVE  /\ \A i \in DOMAIN toDispatch[l] :
                             \/ At(l, {"swap"})
                             \/ \E k \in DOMAIN functions[l] : functions[l][k] = DispatchAll(toDispatch[l][i].conn)
                      /\ \A e \in Ends : LoopOf[e] = l =>
                             Len(incoming[e]) = Cardinality({k \in DOMAIN functions[l] : functions[l][k] = DispatchOne(e)})
    BY DEF ReceivedIsScheduled, DispatchAll, DispatchOne
  <2>1. ScheduleAt(l)
    BY DEF Scheduling, Schedule
  <2>2. ASSUME NEW i \in DOMAIN toDispatch[l], ~At(l, {"swap"})
        PROVE  \E k \in DOMAIN functions[l] : functions[l][k] = DispatchAll(toDispatch[l][i].conn)
    <3>1. ~Swaps(stack[l])
      BY <2>2 DEF Swaps, At, Top
    <3>2. toDispatch[l][i] \in LeftItems(toDispatch[l], stack[l])
      BY <3>1 DEF LeftItems, Items, Takes
    <3>3. PICK x : x = toDispatch[l][i]
      OBVIOUS
    <3>4. Comes(functions[l], incoming[x.conn], x)
      BY <2>1, <3>2, <3>3 DEF ScheduleAt, LeftComes
    <3>5. QED BY <3>3, <3>4 DEF Comes
  <2>3. ASSUME NEW e \in Ends, LoopOf[e] = l
        PROVE  Len(incoming[e]) = Cardinality({k \in DOMAIN functions[l] : functions[l][k] = DispatchOne(e)})
    <3>1. Len(incoming[e]) = Count(functions[l], {DispatchOne(e)})
      BY <2>1, <2>3 DEF ScheduleAt, OneForEach
    <3>2. Positions(functions[l], {DispatchOne(e)}) = {k \in DOMAIN functions[l] : functions[l][k] = DispatchOne(e)}
      BY DEF Positions
    <3>3. QED BY <3>1, <3>2 DEF Count
  <2>4. QED BY <2>2, <2>3
<1>2. QED BY <1>1, SchedulingInvariant, PTL

(* The client is told of the close of a connection last: when the run loop   *)
(* comes to dispatchConnectionDidClose(), nothing received on the connection *)
(* is left to dispatch.                                                      *)
THEOREM CloseReportedLast == ASSUME MayNest = {} PROVE Spec => []CloseComesLast
<1>1. Scheduling => CloseComesLast
  <2> SUFFICES ASSUME Scheduling, NEW l \in RunLoops, InRunLoop(l), functions[l] # <<>>,
                      Head(functions[l]).fn = "dispatchConnectionDidClose"
               PROVE  /\ incoming[Head(functions[l]).conn] = <<>>
                      /\ \A i \in DOMAIN toDispatch[l] : toDispatch[l][i].conn # Head(functions[l]).conn
    BY DEF CloseComesLast
  <2>0. PICK fs, e : fs = functions[l] /\ e = Head(fs).conn
    OBVIOUS
  <2>1. /\ Types /\ OwnConnections /\ Shallow /\ ScheduleAt(l)
    BY DEF Scheduling, Wakeups, Schedule
  <2>2. stack[l] = <<>>
    BY <2>1, NotNested
  <2>3. fs \in Seq(Function) /\ fs # <<>> /\ fs \in Seq(OwnFunction(l))
    BY <2>0, <2>1 DEF Types, LoopTypes, OwnConnections
  <2>4. Head(fs) = DidClose(e) /\ e \in Ends /\ LoopOf[e] = l
    <3>1. Head(fs) \in Function /\ Head(fs) \in OwnFunction(l)
      BY <2>3, TailFacts
    <3>2. QED BY <2>0, <3>1, FunctionForms DEF OwnFunction
  <2>5. 1 \in DOMAIN fs /\ fs[1] = DidClose(e) /\ DOMAIN fs = 1 .. Len(fs) /\ Len(fs) \in Nat
    BY <2>3, <2>4, TailFacts
  <2>6. CloseLast(fs, e)
    BY <2>0, <2>1, <2>4 DEF ScheduleAt, ClosesLast
  <2>7. \A j \in DOMAIN fs : fs[j] # DispatchOne(e) /\ fs[j] # DispatchAll(e)
    <3>1. ASSUME NEW j \in DOMAIN fs PROVE j = 1 \/ fs[j].conn # e
      BY <2>5, <2>6 DEF CloseLast
    <3>2. /\ DidClose(e) # DispatchOne(e) /\ DidClose(e) # DispatchAll(e)
          /\ DispatchOne(e).conn = e /\ DispatchAll(e).conn = e
      BY FunctionForms
    <3>3. QED BY <2>5, <3>1, <3>2
  <2>8. incoming[e] = <<>>
    <3>1. Len(incoming[e]) = Count(fs, {DispatchOne(e)})
      BY <2>0, <2>1, <2>4 DEF ScheduleAt, OneForEach
    <3>2. Positions(fs, {DispatchOne(e)}) = {}
      BY <2>7 DEF Positions
    <3>3. Len(incoming[e]) = 0
      BY <3>1, <3>2, FS_EmptySet DEF Count
    <3>4. incoming[e] \in Seq(Message)
      BY <2>1, <2>4 DEF Types, QueueTypes
    <3>5. QED BY <3>3, <3>4
  <2>9. ASSUME NEW i \in DOMAIN toDispatch[l], toDispatch[l][i].conn = e PROVE FALSE
    <3>1. PICK x : x = toDispatch[l][i]
      OBVIOUS
    <3>2. x \in LeftItems(toDispatch[l], stack[l])
      BY <2>2, <3>1 DEF LeftItems, Items, Takes, Swaps
    <3>3. Comes(fs, incoming[x.conn], x)
      BY <2>0, <2>1, <3>2 DEF ScheduleAt, LeftComes
    <3>4. QED BY <2>7, <2>9, <3>1, <3>3 DEF Comes
  <2>10. QED BY <2>0, <2>8, <2>9
<1>2. QED BY <1>1, SchedulingInvariant, PTL

-----------------------------------------------------------------------------
(* Who overtakes whom.  h is what an end has handled, L the serials of what  *)
(* it has received and not yet handled: an unflagged message was handled     *)
(* before every later one.                                                   *)
Settled(h, L) ==
    \A i \in DOMAIN h : ~h[i].flagged =>
        /\ \A j \in DOMAIN h : i < j => h[i].serial < h[j].serial
        /\ \A a \in L : h[i].serial < a

(* A message that is newer than all that was handled arrives.                *)
LEMMA SettledReceive ==
  ASSUME NEW h \in Seq(Handled), NEW L, NEW K, NEW n \in Nat, Settled(h, L),
         \A a \in Numbers(h, Handled) : a < n, K \subseteq L \cup {n}
  PROVE  Settled(h, K)
<1>1. \A i \in DOMAIN h : h[i].serial \in Numbers(h, Handled)
  BY DEF Numbers, Positions
<1>2. QED BY <1>1 DEF Settled

(* A received message is handled: it is flagged, or the oldest of them.      *)
LEMMA SettledHandle ==
  ASSUME NEW h \in Seq(Handled), NEW L, NEW K, NEW x \in Handled, Settled(h, L), x.serial \in L,
         K \subseteq L, x.flagged \/ \A a \in K : x.serial < a
  PROVE  Settled(Append(h, x), K)
<1> DEFINE g == Append(h, x)
<1>1. /\ DOMAIN g = 1 .. Len(h) + 1 /\ DOMAIN h = 1 .. Len(h) /\ Len(h) \in Nat
      /\ \A i \in 1 .. Len(h) : g[i] = h[i]
      /\ g[Len(h) + 1] = x
  BY AppendFacts
<1> HIDE DEF g
<1> SUFFICES ASSUME NEW i \in DOMAIN g, ~g[i].flagged
             PROVE  /\ \A j \in DOMAIN g : i < j => g[i].serial < g[j].serial
                    /\ \A a \in K : g[i].serial < a
  BY DEF Settled, g
<1>2. CASE i = Len(h) + 1
  BY <1>1, <1>2
<1>3. CASE i # Len(h) + 1
  <2>1. i \in DOMAIN h /\ g[i] = h[i]
    BY <1>1, <1>3
  <2>2. /\ \A j \in DOMAIN h : i < j => h[i].serial < h[j].serial
        /\ \A a \in L : h[i].serial < a
    BY <2>1 DEF Settled
  <2>3. ASSUME NEW j \in DOMAIN g, i < j PROVE g[i].serial < g[j].serial
    <3>1. CASE j = Len(h) + 1
      BY <1>1, <2>1, <2>2, <3>1
    <3>2. CASE j # Len(h) + 1
      BY <1>1, <2>1, <2>2, <2>3, <3>2
    <3>3. QED BY <3>1, <3>2
  <2>4. QED BY <2>1, <2>2, <2>3
<1>4. QED BY <1>2, <1>3

(* The serials end p has received and not handled.                           *)
ItemNumbers(A, p) == {x.msg.serial : x \in {y \in A : y.conn = p}}
Unhandled(p) ==
    Numbers(incoming[p], Message) \cup ItemNumbers(AllItems(toDispatch[LoopOf[p]], stack[LoopOf[p]]), p)

HeldFlagged == \A l \in RunLoops : \A x \in AllItems(toDispatch[l], stack[l]) : x.msg.flagged
AllSettled == \A p \in Ends : Settled(handled[p], Unhandled(p))
Overtaking == HeldFlagged /\ AllSettled

(* A step that brings no new message and handles none.                       *)
LEMMA UnhandledLess ==
  ASSUME ItemsLess, NEW p \in Ends, Numbers(incoming'[p], Message) \subseteq Numbers(incoming[p], Message)
  PROVE  Unhandled(p)' \subseteq Unhandled(p)
<1>1. LoopOf[p] \in RunLoops
  BY LoopAssumption
<1>2. AllItems(toDispatch'[LoopOf[p]], stack'[LoopOf[p]]) \subseteq AllItems(toDispatch[LoopOf[p]], stack[LoopOf[p]])
  BY <1>1 DEF ItemsLess, Fewer
<1>3. QED BY <1>2 DEF Unhandled, ItemNumbers

(* An end that handles nothing and receives nothing stays settled.           *)
LEMMA SettledRests ==
  ASSUME AllSettled, NEW p \in Ends, handled'[p] = handled[p], Unhandled(p)' \subseteq Unhandled(p)
  PROVE  Settled(handled'[p], Unhandled(p)')
BY DEF AllSettled, Settled

(* No new item, so none that is unflagged.                                   *)
LEMMA FlaggedRests ==
  ASSUME HeldFlagged, ItemsLess
  PROVE  HeldFlagged'
BY DEF HeldFlagged, ItemsLess, Fewer

(* A flagged message arrives.                                                *)
LEMMA OvertakingFlagged ==
  ASSUME Types, Order, Overtaking, NEW d \in Ends, ReceiveFlagged(d)
  PROVE  Overtaking'
<1> USE DEF endVars, queueVars, loopVars
<1>0. PICK k, m : k = LoopOf[d] /\ m = Head(wire[d])
  OBVIOUS
<1> DEFINE x == [conn |-> d, msg |-> m]
<1>t. /\ toDispatch \in [RunLoops -> Seq(ConnectionAndMessage)] /\ k \in RunLoops /\ handled \in [Ends -> Seq(Handled)]
      /\ \A p \in Ends : LoopOf[p] \in RunLoops
  BY <1>0, LoopAssumption DEF Types, LoopTypes, HistoryTypes
<1>1. /\ Receive(d) /\ m.type # "reply" /\ m.flagged /\ UNCHANGED <<incoming, stack, handled>>
      /\ toDispatch' = [toDispatch EXCEPT ![k] = Append(toDispatch[k], x)]
  BY <1>0 DEF ReceiveFlagged
<1>2. x \in ConnectionAndMessage /\ x.msg = m /\ x.conn = d
  BY <1>0, <1>1, HeadOrder DEF ConnectionAndMessage
<1> HIDE DEF x
<1>3. /\ AllItems(toDispatch'[k], stack'[k]) = AllItems(toDispatch[k], stack[k]) \cup {x}
      /\ \A l \in RunLoops : l # k => AllItems(toDispatch'[l], stack'[l]) = AllItems(toDispatch[l], stack[l])
  <2>1. toDispatch'[k] = Append(toDispatch[k], x) /\ \A l \in RunLoops : l # k => toDispatch'[l] = toDispatch[l]
    BY <1>1, <1>t
  <2>2. Items(Append(toDispatch[k], x)) = Items(toDispatch[k]) \cup {x}
    BY <1>2, <1>t, ItemsAppend
  <2>3. QED BY <1>1, <2>1, <2>2 DEF AllItems
<1>4. HeldFlagged'
  <2> SUFFICES ASSUME NEW l \in RunLoops, NEW y \in AllItems(toDispatch'[l], stack'[l]) PROVE y.msg.flagged
    BY DEF HeldFlagged
  <2>1. y \in AllItems(toDispatch[l], stack[l]) \/ y = x
    BY <1>3
  <2>2. QED BY <1>1, <1>2, <2>1 DEF Overtaking, HeldFlagged
<1>5. m.serial \in Nat /\ \A a \in Numbers(handled[d], Handled) : a < m.serial
  BY <1>0, <1>1, ReceivedLast
<1>6. ASSUME NEW p \in Ends PROVE Settled(handled'[p], Unhandled(p)')
  <2>1. CASE p # d
    <3>1. Unhandled(p)' \subseteq Unhandled(p)
      <4>1. LoopOf[p] \in RunLoops /\ x.conn # p
        BY <1>2, <1>t, <2>1
      <4>2. ItemNumbers(AllItems(toDispatch'[LoopOf[p]], stack'[LoopOf[p]]), p)
              \subseteq ItemNumbers(AllItems(toDispatch[LoopOf[p]], stack[LoopOf[p]]), p)
        BY <1>3, <4>1 DEF ItemNumbers
      <4>3. QED BY <1>1, <4>2 DEF Unhandled
    <3>2. QED BY <1>1, <3>1, SettledRests DEF Overtaking
  <2>2. CASE p = d
    <3>1. Unhandled(p)' \subseteq Unhandled(p) \cup {m.serial}
      BY <1>0, <1>1, <1>2, <1>3, <1>t, <2>2 DEF Unhandled, ItemNumbers
    <3>2. Settled(handled[p], Unhandled(p)) /\ handled[p] \in Seq(Handled)
      BY <1>t DEF Overtaking, AllSettled
    <3>3. Settled(handled[p], Unhandled(p)')
      BY <1>5, <2>2, <3>1, <3>2, SettledReceive
    <3>4. QED BY <1>1, <3>3
  <2>3. QED BY <2>1, <2>2
<1>7. QED BY <1>4, <1>6 DEF Overtaking, AllSettled

(* An unflagged message arrives.                                             *)
LEMMA OvertakingUnflagged ==
  ASSUME Types, Order, Overtaking, NEW d \in Ends, ReceiveUnflagged(d)
  PROVE  Overtaking'
<1> USE DEF endVars, queueVars, loopVars
<1>0. PICK m : m = Head(wire[d])
  OBVIOUS
<1>t. /\ incoming \in [Ends -> Seq(Message)] /\ handled \in [Ends -> Seq(Handled)]
  BY DEF Types, QueueTypes, HistoryTypes
<1>1. /\ Receive(d) /\ m.type # "reply" /\ UNCHANGED <<toDispatch, stack, handled>>
      /\ incoming' = [incoming EXCEPT ![d] = Append(incoming[d], m)]
  BY <1>0 DEF ReceiveUnflagged, AppendIncoming
<1>2. m \in Message /\ m.serial \in Nat /\ \A a \in Numbers(handled[d], Handled) : a < m.serial
  BY <1>0, <1>1, HeadOrder, ReceivedLast
<1>3. incoming'[d] = Append(incoming[d], m) /\ \A p \in Ends : p # d => incoming'[p] = incoming[p]
  BY <1>1, <1>t
<1>4. HeldFlagged'
  BY <1>1 DEF Overtaking, HeldFlagged
<1>5. ASSUME NEW p \in Ends PROVE Settled(handled'[p], Unhandled(p)')
  <2>1. CASE p # d
    <3>1. Unhandled(p)' \subseteq Unhandled(p)
      BY <1>1, <1>3, <2>1 DEF Unhandled
    <3>2. QED BY <1>1, <3>1, SettledRests DEF Overtaking
  <2>2. CASE p = d
    <3>1. Numbers(incoming'[d], Message) \subseteq Numbers(incoming[d], Message) \cup {m.serial}
      <4>1. \A n : n \in Numbers(Append(incoming[d], m), Message) <=> n \in Numbers(incoming[d], Message) \/ (m \in Message /\ n = m.serial)
        BY <1>2, <1>t, NumbersAppend
      <4>2. QED BY <1>3, <4>1
    <3>2. Unhandled(p)' \subseteq Unhandled(p) \cup {m.serial}
      BY <1>1, <2>2, <3>1 DEF Unhandled
    <3>3. Settled(handled[p], Unhandled(p)) /\ handled[p] \in Seq(Handled)
      BY <1>t DEF Overtaking, AllSettled
    <3>4. Settled(handled[p], Unhandled(p)')
      BY <1>2, <2>2, <3>2, <3>3, SettledReceive
    <3>5. QED BY <1>1, <3>4
  <2>3. QED BY <2>1, <2>2
<1>6. QED BY <1>4, <1>5 DEF Overtaking, AllSettled

(* dispatchMessage() of the oldest message, or of a flagged one.             *)
LEMMA OvertakingHandle ==
  ASSUME Types, Overtaking, ItemsLess, NEW k \in RunLoops, NEW d \in Ends, NEW m \in Message, NEW below,
         dispatchMessage(k, d, m, below),
         \A p \in Ends : Numbers(incoming'[p], Message) \subseteq Numbers(incoming[p], Message),
         m.serial \in Unhandled(d), m.flagged \/ \A a \in Unhandled(d)' : m.serial < a
  PROVE  Overtaking'
<1> DEFINE x == [serial |-> m.serial, flagged |-> m.flagged]
<1>t. handled \in [Ends -> Seq(Handled)]
  BY DEF Types, HistoryTypes
<1>1. HeldFlagged'
  BY FlaggedRests DEF Overtaking
<1>2. \A p \in Ends : Unhandled(p)' \subseteq Unhandled(p)
  BY UnhandledLess
<1>3. CASE handled' = handled
  BY <1>1, <1>2, <1>3, SettledRests DEF Overtaking, AllSettled
<1>4. CASE handled' = [handled EXCEPT ![d] = Append(handled[d], x)]
  <2>1. x \in Handled /\ x.serial = m.serial /\ x.flagged = m.flagged
    BY DEF Handled, Message
  <2>2. handled'[d] = Append(handled[d], x) /\ \A p \in Ends : p # d => handled'[p] = handled[p]
    BY <1>4, <1>t
  <2> HIDE DEF x
  <2>3. Settled(Append(handled[d], x), Unhandled(d)')
    <3>1. Settled(handled[d], Unhandled(d)) /\ handled[d] \in Seq(Handled) /\ Unhandled(d)' \subseteq Unhandled(d)
      BY <1>2, <1>t DEF Overtaking, AllSettled
    <3>2. x.serial \in Unhandled(d) /\ (x.flagged \/ \A a \in Unhandled(d)' : x.serial < a)
      BY <2>1
    <3>3. QED BY <2>1, <3>1, <3>2, SettledHandle
  <2>4. \A p \in Ends : Settled(handled'[p], Unhandled(p)')
    BY <1>2, <2>2, <2>3, SettledRests DEF Overtaking
  <2>5. QED BY <1>1, <2>4 DEF Overtaking, AllSettled
<1>5. QED BY <1>3, <1>4 DEF dispatchMessage

(* A step that handles nothing and receives nothing.                         *)
LEMMA SameOvertaking ==
  ASSUME Overtaking, ItemsLess, handled' = handled,
         \A p \in Ends : Numbers(incoming'[p], Message) \subseteq Numbers(incoming[p], Message)
  PROVE  Overtaking'
<1>1. HeldFlagged'
  BY FlaggedRests DEF Overtaking
<1>2. \A p \in Ends : Unhandled(p)' \subseteq Unhandled(p)
  BY UnhandledLess
<1>3. QED BY <1>1, <1>2, SettledRests DEF Overtaking, AllSettled

(* dispatchOneMessage() takes the oldest message: the messages that arrived  *)
(* before it and were flagged have had their function run.                   *)
LEMMA OvertakingOne ==
  ASSUME Types, OwnConnections, Order, Shallow, Schedule, Overtaking, ItemsLess,
         NEW k \in RunLoops, dispatchOneMessage(k)
  PROVE  Overtaking'
<1>0. PICK d, m : d = Head(functions[k]).conn /\ m = Head(incoming[d])
  OBVIOUS
<1>1. NextFunction(k, "dispatchOneMessage")
  BY DEF dispatchOneMessage
<1>2. d \in Ends /\ LoopOf[d] = k
  BY <1>0, <1>1, TakenFunction
<1>3. stack[k] = <<>>
  BY <1>1, NotNested DEF NextFunction
<1>4. incoming[d] # <<>> /\ \A x \in LeftItems(toDispatch[k], stack[k]) : x.conn = d => m.serial < x.msg.serial
  BY <1>0, ScheduleOne
<1>5. incoming' = [incoming EXCEPT ![d] = Tail(incoming[d])] /\ dispatchMessage(k, d, m, stack[k])
  BY <1>0, <1>4 DEF dispatchOneMessage
<1>6. incoming \in [Ends -> Seq(Message)] /\ incoming[d] \in Seq(Message)
  BY <1>2 DEF Types, QueueTypes
<1>7. incoming'[d] = Tail(incoming[d]) /\ \A p \in Ends : p # d => incoming'[p] = incoming[p]
  BY <1>2, <1>5, <1>6
<1>8. m \in Message
  BY <1>0, <1>4, <1>6, TailFacts
<1>9. Rising(incoming[d], Message)
  BY <1>2 DEF Order, QueuesRise
<1>10. /\ Numbers(Tail(incoming[d]), Message) \subseteq Numbers(incoming[d], Message)
       /\ m.serial \in Numbers(incoming[d], Message)
       /\ \A n \in Numbers(Tail(incoming[d]), Message) : m.serial < n
  BY <1>0, <1>4, <1>6, <1>8, <1>9, NumbersTail
<1>11. \A p \in Ends : Numbers(incoming'[p], Message) \subseteq Numbers(incoming[p], Message)
  BY <1>7, <1>10
<1>12. \A a \in Unhandled(d)' : m.serial < a
  <2>1. AllItems(toDispatch'[k], stack'[k]) \subseteq AllItems(toDispatch[k], stack[k])
    BY DEF ItemsLess, Fewer
  <2>2. AllItems(toDispatch[k], stack[k]) \subseteq LeftItems(toDispatch[k], stack[k])
    BY <1>3, EmptyFacts DEF AllItems, StackItems, LeftItems, Takes, Swaps
  <2>3. \A x \in AllItems(toDispatch'[k], stack'[k]) : x.conn = d => m.serial < x.msg.serial
    BY <1>4, <2>1, <2>2
  <2>4. QED BY <1>2, <1>7, <1>10, <2>3 DEF Unhandled, ItemNumbers
<1>13. m.serial \in Unhandled(d)
  BY <1>10 DEF Unhandled
<1>14. QED BY <1>2, <1>5, <1>8, <1>11, <1>12, <1>13, OvertakingHandle

(* dispatchMessages() handles or keeps its next message, a flagged one.      *)
LEMMA OvertakingNext ==
  ASSUME Types, OwnConnections, Overtaking, ItemsLess, NEW k \in RunLoops, DispatchNext(k)
  PROVE  Overtaking'
<1> USE DEF queueVars
<1>0. PICK f, x, below : f = Top(k) /\ x = Head(f.todo) /\ below = Append(Front(stack[k]), [f EXCEPT !.todo = Tail(@)])
  OBVIOUS
<1>1. stack[k] \in Seq(Frame) /\ stack[k] # <<>> /\ f = stack[k][Len(stack[k])] /\ f.todo # <<>> /\ incoming' = incoming
  BY <1>0 DEF DispatchNext, At, Top, Types, LoopTypes
<1>2. Len(stack[k]) \in DOMAIN stack[k]
  BY <1>1
<1>3. f.todo \in Seq(ConnectionAndMessage)
  <2>1. f \in Frame
    BY <1>1, <1>2
  <2>2. QED BY <2>1 DEF Frame
<1>4. x \in AllItems(toDispatch[k], stack[k])
  <2>1. x \in Items(f.todo)
    BY <1>0, <1>1, <1>3, ItemsTail
  <2>2. QED BY <1>1, <1>2, <2>1 DEF AllItems, StackItems, FrameItems
<1>5. x \in ConnectionAndMessage /\ x.conn \in Ends /\ LoopOf[x.conn] = k /\ x.msg.serial \in Nat /\ x.msg \in Message
  BY <1>4, OwnItems DEF ConnectionAndMessage
<1>6. x.msg.flagged
  BY <1>4 DEF Overtaking, HeldFlagged
<1>7. x.msg.serial \in Unhandled(x.conn)
  BY <1>4, <1>5 DEF Unhandled, ItemNumbers
<1>8. handled' = handled \/ dispatchMessage(k, x.conn, x.msg, below)
  BY <1>0 DEF DispatchNext
<1>9. QED BY <1>1, <1>5, <1>6, <1>7, <1>8, SameOvertaking, OvertakingHandle

(* Every step keeps unflagged messages in their order.                       *)
LEMMA OvertakingStep ==
  ASSUME Types, OwnConnections, Order, Shallow, Schedule, Overtaking, [Next]_vars
  PROVE  Overtaking'
<1> USE DEF endVars, queueVars, loopVars
<1>t. incoming \in [Ends -> Seq(Message)] /\ \A d \in Ends : LoopOf[d] \in RunLoops
  BY LoopAssumption DEF Types, QueueTypes
<1>1. CASE \E d \in Ends : ReceiveFlagged(d)
  BY <1>1, OvertakingFlagged
<1>2. CASE ItemsLess
  <2>1. ASSUME UNCHANGED <<incoming, handled>> PROVE Overtaking'
    BY <1>2, <2>1, SameOvertaking
  <2>2. ASSUME NEW k \in RunLoops, ProcessExits(k) PROVE Overtaking'
    <3>1. handled' = handled /\ \A p \in Ends : incoming'[p] = incoming[p] \/ incoming'[p] = <<>>
      BY <2>2 DEF ProcessExits
    <3>2. \A p \in Ends : Numbers(incoming'[p], Message) \subseteq Numbers(incoming[p], Message)
      BY <3>1, NumbersEmpty
    <3>3. QED BY <1>2, <3>1, <3>2, SameOvertaking
  <2>3. ASSUME NEW k \in RunLoops, SyncSendFails(k, Top(k).conn) PROVE Overtaking'
    BY <2>1, <2>2, <2>3 DEF SyncSendFails, PopPendingReply
  <2>4. ASSUME NEW k \in RunLoops, ClientThread(k) \/ EnterNestedLoop(k) \/ TimeOut(k) \/ Crash(k) PROVE Overtaking'
    <3>1. CASE dispatchMessagesForConnection(k) \/ dispatchConnectionDidClose(k)
      BY <2>1, <3>1 DEF dispatchMessagesForConnection, dispatchConnectionDidClose
    <3>2. CASE dispatchOneMessage(k) \/ DispatchNext(k)
      BY <1>2, <3>2, OvertakingOne, OvertakingNext
    <3>3. CASE GiveUp(k) \/ TimeOut(k) \/ Crash(k)
      BY <2>2, <2>3, <3>3 DEF GiveUp, TimeOut, Crash
    <3>4. CASE SwapMessages(k) \/ EndDispatchMessages(k)
      BY <2>1, <3>4 DEF SwapMessages, EndDispatchMessages
    <3>5. CASE ReturnReply(k) \/ Sleep(k) \/ WakeUp(k)
      BY <2>1, <3>5 DEF ReturnReply, Sleep, WakeUp, PopPendingReply
    <3>6. CASE HandlerReturns(k) \/ ExitNestedLoop(k) \/ EnterNestedLoop(k)
      BY <2>1, <3>6 DEF HandlerReturns, ExitNestedLoop, EnterNestedLoop
    <3>7. QED BY <2>4, <3>1, <3>2, <3>3, <3>4, <3>5, <3>6 DEF ClientThread, performWork
  <2>5. ASSUME NEW d \in Ends, ConnectionQueue(d) \/ ClientDecides(d), ~ReceiveFlagged(d) PROVE Overtaking'
    <3>1. CASE ReceiveUnflagged(d)
      BY <3>1, OvertakingUnflagged
    <3>2. CASE SendSyncFails(d)
      BY <1>t, <2>2, <3>2 DEF SendSyncFails
    <3>3. CASE sendOutgoingMessages(d) \/ PlatformInvalidate(d) \/ wakeUpClientRunLoop(d) \/ connectionDidClose(d)
      BY <2>1, <3>3 DEF sendOutgoingMessages, PlatformInvalidate, wakeUpClientRunLoop, connectionDidClose
    <3>4. CASE ReceiveReply(d) \/ ReceiveOtherReply(d)
      BY <2>1, <3>4 DEF ReceiveReply, ReceiveOtherReply
    <3>5. ASSUME NEW ask \in BOOLEAN, SendAsync(d, ask) PROVE Overtaking'
      BY <2>1, <3>5 DEF SendAsync
    <3>6. CASE SendSync(d) \/ Invalidate(d)
      BY <2>1, <3>6 DEF SendSync, Invalidate
    <3>7. QED BY <2>5, <3>1, <3>2, <3>3, <3>4, <3>5, <3>6 DEF ConnectionQueue, ClientDecides
  <2>6. ASSUME NEW t \in SecondaryThreads, SecondaryRegister(t) \/ SecondarySend(t) \/ SecondaryReturn(t)
        PROVE  Overtaking'
    BY <2>1, <2>6 DEF SecondaryRegister, SecondarySend, SecondaryReturn
  <2>7. CASE UNCHANGED vars
    BY <2>1, <2>7 DEF vars
  <2>8. QED BY <1>1, <2>4, <2>5, <2>6, <2>7 DEF Next
<1>3. QED BY <1>1, <1>2, ItemsStep

(* Nothing is held or handled initially.                                     *)
LEMMA InitOvertaking == Init => Overtaking
<1> SUFFICES ASSUME Init PROVE Overtaking
  OBVIOUS
<1>1. \A l \in RunLoops : AllItems(toDispatch[l], stack[l]) = {}
  BY ItemsEmpty, EmptyFacts DEF Init, AllItems, StackItems
<1>2. \A p \in Ends : handled[p] = <<>>
  BY DEF Init
<1>3. QED BY <1>1, <1>2, EmptyFacts DEF Overtaking, HeldFlagged, AllSettled, Settled

(* Only a flagged message is handled before one that was sent earlier on the *)
(* same connection, whatever the threads of the two processes interleave.    *)
THEOREM FlaggedOvertakes == ASSUME MayNest = {} PROVE Spec => []OnlyFlaggedOvertakes
<1>1. Init => Overtaking
  BY InitOvertaking
<1>2. Scheduling /\ Overtaking /\ [Next]_vars => Overtaking'
  BY OvertakingStep DEF Scheduling, Wakeups
<1>3. Types /\ Overtaking => OnlyFlaggedOvertakes
  <2> SUFFICES ASSUME Types, Overtaking, NEW e \in Ends, NEW i \in DOMAIN handled[e], NEW j \in DOMAIN handled[e],
                      i < j, handled[e][j].serial < handled[e][i].serial, ~handled[e][i].flagged
               PROVE  FALSE
    BY DEF OnlyFlaggedOvertakes
  <2>1. handled[e] \in Seq(Handled)
    BY DEF Types, HistoryTypes
  <2>2. handled[e][i].serial \in Nat /\ handled[e][j].serial \in Nat
    <3>1. handled[e][i] \in Handled /\ handled[e][j] \in Handled
      BY <2>1
    <3>2. QED BY <3>1 DEF Handled
  <2>3. handled[e][i].serial < handled[e][j].serial
    BY DEF Overtaking, AllSettled, Settled
  <2>4. QED BY <2>2, <2>3
<1>4. Scheduling => Types
  BY DEF Scheduling
<1>5. QED BY <1>1, <1>2, <1>3, <1>4, SchedulingInvariant, PTL DEF Spec

-----------------------------------------------------------------------------
(* Each direction of a connection implements MessageChannel.                 *)

(* What a step may do to the variables that a channel is made of.            *)
SendsOne ==
    /\ \E p \in Ends : client[p] /\ serial' = [serial EXCEPT ![p] = serial[p] + 1]
    /\ UNCHANGED <<client, handled>>
HandlesOne ==
    /\ \E d \in Ends, x \in Handled : client[d] /\ handled' = [handled EXCEPT ![d] = Append(handled[d], x)]
    /\ UNCHANGED <<client, serial>>
OnlyCloses ==
    /\ \A p \in Ends : client'[p] \in {client[p], FALSE}
    /\ UNCHANGED <<serial, handled>>
ChannelChange == SendsOne \/ HandlesOne \/ OnlyCloses

(* dispatchMessage() handles one message, on a connection that is valid, or  *)
(* drops it.                                                                 *)
LEMMA DispatchChange ==
  ASSUME NEW k \in RunLoops, NEW d \in Ends, NEW m \in Message, NEW below,
         dispatchMessage(k, d, m, below), UNCHANGED <<client, serial>>
  PROVE  ChannelChange
<1>1. CASE handled' = handled
  BY <1>1 DEF ChannelChange, OnlyCloses
<1>2. CASE client[d] /\ handled' = [handled EXCEPT ![d] = Append(handled[d], [serial |-> m.serial, flagged |-> m.flagged])]
  <2>1. [serial |-> m.serial, flagged |-> m.flagged] \in Handled
    BY DEF Handled, Message
  <2>2. QED BY <1>2, <2>1 DEF ChannelChange, HandlesOne
<1>3. QED BY <1>1, <1>2 DEF dispatchMessage

(* Every step sends one message, handles one message, or at most puts ends   *)
(* out of use.                                                               *)
LEMMA StepChange ==
  ASSUME Types, OwnConnections, [Next]_vars
  PROVE  ChannelChange
<1> USE DEF endVars, queueVars, loopVars
<1>t. /\ client \in [Ends -> BOOLEAN] /\ incoming \in [Ends -> Seq(Message)] /\ stack \in [RunLoops -> Seq(Frame)]
      /\ \A d \in Ends : LoopOf[d] \in RunLoops
      /\ \A t \in SecondaryThreads : SecondaryEnd[t] \in Ends
  BY LoopAssumption, SecondaryAssumption DEF Types, FlagTypes, QueueTypes, LoopTypes
<1>1. ASSUME UNCHANGED <<client, serial, handled>> PROVE ChannelChange
  BY <1>1 DEF ChannelChange, OnlyCloses
<1>2. ASSUME NEW k \in RunLoops, ProcessExits(k) PROVE ChannelChange
  BY <1>2 DEF ChannelChange, OnlyCloses, ProcessExits
<1>3. ASSUME NEW k \in RunLoops, SyncSendFails(k, Top(k).conn) PROVE ChannelChange
  BY <1>1, <1>2, <1>3 DEF SyncSendFails, PopPendingReply
<1>4. ASSUME NEW k \in RunLoops, dispatchOneMessage(k) PROVE ChannelChange
  <2>0. PICK d, m : d = Head(functions[k]).conn /\ m = Head(incoming[d])
    OBVIOUS
  <2>1. d \in Ends /\ UNCHANGED <<client, serial>>
    BY <1>4, <2>0, TakenFunction DEF dispatchOneMessage
  <2>2. CASE handled' = handled
    BY <1>1, <2>1, <2>2
  <2>3. CASE incoming[d] # <<>> /\ dispatchMessage(k, d, m, stack[k])
    <3>1. m \in Message
      BY <1>t, <2>0, <2>1, <2>3, TailFacts
    <3>2. QED BY <2>1, <2>3, <3>1, DispatchChange
  <2>4. QED BY <1>4, <2>0, <2>2, <2>3 DEF dispatchOneMessage
<1>5. ASSUME NEW k \in RunLoops, DispatchNext(k) PROVE ChannelChange
  <2>0. PICK f, x, below : f = Top(k) /\ x = Head(f.todo) /\ below = Append(Front(stack[k]), [f EXCEPT !.todo = Tail(@)])
    OBVIOUS
  <2>1. stack[k] # <<>> /\ f = stack[k][Len(stack[k])] /\ f.todo # <<>> /\ UNCHANGED <<client, serial>>
    BY <1>5, <2>0 DEF DispatchNext, At, Top
  <2>2. f \in Frame
    BY <1>t, <2>1
  <2>3. f.todo \in Seq(ConnectionAndMessage)
    BY <2>2 DEF Frame
  <2>4. x \in ConnectionAndMessage
    BY <2>0, <2>1, <2>3, TailFacts
  <2>5. x.conn \in Ends /\ x.msg \in Message
    BY <2>4 DEF ConnectionAndMessage
  <2>6. handled' = handled \/ dispatchMessage(k, x.conn, x.msg, below)
    BY <1>5, <2>0 DEF DispatchNext
  <2>7. QED BY <1>1, <2>1, <2>5, <2>6, DispatchChange
<1>6. ASSUME NEW k \in RunLoops, ClientThread(k) \/ EnterNestedLoop(k) \/ TimeOut(k) \/ Crash(k) PROVE ChannelChange
  <2>1. CASE dispatchMessagesForConnection(k)
    BY <1>1, <2>1 DEF dispatchMessagesForConnection
  <2>2. CASE dispatchConnectionDidClose(k)
    BY <1>t, <2>2 DEF dispatchConnectionDidClose, ChannelChange, OnlyCloses
  <2>3. CASE GiveUp(k) \/ TimeOut(k) \/ Crash(k)
    BY <1>2, <1>3, <2>3 DEF GiveUp, TimeOut, Crash
  <2>4. CASE SwapMessages(k) \/ EndDispatchMessages(k)
    BY <1>1, <2>4 DEF SwapMessages, EndDispatchMessages
  <2>5. CASE ReturnReply(k) \/ Sleep(k) \/ WakeUp(k)
    BY <1>1, <2>5 DEF ReturnReply, Sleep, WakeUp, PopPendingReply
  <2>6. CASE HandlerReturns(k) \/ ExitNestedLoop(k) \/ EnterNestedLoop(k)
    BY <1>1, <2>6 DEF HandlerReturns, ExitNestedLoop, EnterNestedLoop
  <2>7. QED BY <1>4, <1>5, <1>6, <2>1, <2>2, <2>3, <2>4, <2>5, <2>6 DEF ClientThread, performWork
<1>7. ASSUME NEW d \in Ends, ConnectionQueue(d) \/ ClientDecides(d) PROVE ChannelChange
  <2>1. CASE ReceiveUnflagged(d) \/ ReceiveFlagged(d) \/ ReceiveReply(d) \/ ReceiveOtherReply(d)
    BY <1>1, <2>1 DEF ReceiveUnflagged, ReceiveFlagged, ReceiveReply, ReceiveOtherReply
  <2>2. CASE SendSyncFails(d)
    BY <1>t, <1>2, <2>2 DEF SendSyncFails
  <2>3. CASE sendOutgoingMessages(d) \/ PlatformInvalidate(d) \/ wakeUpClientRunLoop(d) \/ connectionDidClose(d)
    BY <1>1, <2>3 DEF sendOutgoingMessages, PlatformInvalidate, wakeUpClientRunLoop, connectionDidClose
  <2>4. ASSUME NEW ask \in BOOLEAN, SendAsync(d, ask) PROVE ChannelChange
    BY <2>4 DEF SendAsync, ChannelChange, SendsOne
  <2>5. CASE SendSync(d)
    BY <2>5 DEF SendSync, ChannelChange, SendsOne
  <2>6. CASE Invalidate(d)
    BY <1>t, <2>6 DEF Invalidate, ChannelChange, OnlyCloses
  <2>7. QED BY <1>7, <2>1, <2>2, <2>3, <2>4, <2>5, <2>6 DEF ConnectionQueue, ClientDecides
<1>8. ASSUME NEW t \in SecondaryThreads, SecondaryRegister(t) \/ SecondarySend(t) \/ SecondaryReturn(t)
      PROVE  ChannelChange
  <2>1. CASE SecondaryRegister(t) \/ SecondaryReturn(t)
    BY <1>1, <2>1 DEF SecondaryRegister, SecondaryReturn
  <2>2. CASE SecondarySend(t)
    BY <1>t, <1>1, <2>2 DEF SecondarySend, ChannelChange, SendsOne
  <2>3. QED BY <1>8, <2>1, <2>2
<1>9. CASE UNCHANGED vars
  BY <1>1, <1>9 DEF vars
<1>10. QED BY <1>6, <1>7, <1>8, <1>9 DEF Next

(* Only what the peer has sent is handled.                                   *)
HandledWasSent ==
    \A e \in Ends : \A i \in DOMAIN handled[e] : handled[e][i].serial \in 1 .. serial[PeerOf[e]]

LEMMA HandledSent == ASSUME Types, Order PROVE HandledWasSent
<1> SUFFICES ASSUME NEW e \in Ends, NEW i \in DOMAIN handled[e]
             PROVE  handled[e][i].serial \in 1 .. serial[PeerOf[e]]
  BY DEF HandledWasSent
<1>1. handled[e] \in Seq(Handled) /\ serial[PeerOf[e]] \in Nat
  BY PeerAssumption DEF Types, HistoryTypes, CountTypes
<1>2. handled[e][i] \in Handled
  BY <1>1
<1>3. handled[e][i].serial \in Nat /\ i \in Positions(handled[e], Handled)
  BY <1>2 DEF Handled, Positions
<1>4. handled[e][i].serial \in Numbers(handled[e], Handled)
  BY <1>3 DEF Numbers
<1>5. OrderAt(e)
  BY DEF Order, InOrder
<1>6. handled[e][i].serial # 0 /\ handled[e][i].serial <= serial[PeerOf[e]]
  BY <1>4, <1>5 DEF OrderAt, Ordered
<1>7. QED BY <1>1, <1>3, <1>6

(* What holds of the messages handled before and after a step.               *)
HandledWell == HandledOnce /\ (MayNest = {} => OnlyFlaggedOvertakes) /\ HandledWasSent

(* A step in which an end sends is a step or a stutter of every channel.     *)
LEMMA ChannelSend ==
  ASSUME Types, SendsOne, NEW e \in Ends
  PROVE  [Channel(e)!Next]_(Channel(e)!vars)
<1>1. PICK p \in Ends : client[p] /\ serial' = [serial EXCEPT ![p] = serial[p] + 1]
  BY DEF SendsOne
<1>2. client' = client /\ handled' = handled
  BY DEF SendsOne
<1>3. serial \in [Ends -> Nat] /\ PeerOf[e] \in Ends
  BY PeerAssumption DEF Types, CountTypes
<1>4. CASE p = PeerOf[e]
  <2>1. client[PeerOf[e]] /\ serial'[PeerOf[e]] = serial[PeerOf[e]] + 1
    BY <1>1, <1>3, <1>4
  <2>2. Channel(e)!Send
    BY <1>2, <2>1 DEF Channel!Send
  <2>3. QED BY <2>2 DEF Channel!Next
<1>5. CASE p # PeerOf[e]
  <2>1. serial'[PeerOf[e]] = serial[PeerOf[e]]
    BY <1>1, <1>3, <1>5
  <2>2. QED BY <1>2, <2>1 DEF Channel!vars
<1>6. QED BY <1>4, <1>5

(* So is one in which ends go out of use.                                    *)
LEMMA ChannelClose ==
  ASSUME OnlyCloses, NEW e \in Ends
  PROVE  [Channel(e)!Next]_(Channel(e)!vars)
<1>1. client'[e] \in {client[e], FALSE} /\ client'[PeerOf[e]] \in {client[PeerOf[e]], FALSE}
  BY PeerAssumption DEF OnlyCloses
<1>2. serial' = serial /\ handled' = handled
  BY DEF OnlyCloses
<1>3. Channel(e)!Disconnect
  BY <1>1, <1>2 DEF Channel!Disconnect
<1>4. QED BY <1>3 DEF Channel!Next

(* And one in which a message is handled: what holds of all handled messages *)
(* after the step is what Deliver asks of the new one.                       *)
LEMMA ChannelHandle ==
  ASSUME Types, HandlesOne, HandledWell', NEW e \in Ends
  PROVE  [Channel(e)!Next]_(Channel(e)!vars)
<1>1. PICK d \in Ends, x \in Handled :
          client[d] /\ handled' = [handled EXCEPT ![d] = Append(handled[d], x)]
  BY DEF HandlesOne
<1>2. client' = client /\ serial' = serial
  BY DEF HandlesOne
<1>3. handled \in [Ends -> Seq(Handled)] /\ serial \in [Ends -> Nat] /\ PeerOf[e] \in Ends
  BY PeerAssumption DEF Types, HistoryTypes, CountTypes
<1>4. CASE d # e
  <2>1. handled'[e] = handled[e]
    BY <1>1, <1>3, <1>4
  <2>2. QED BY <1>2, <2>1 DEF Channel!vars
<1>5. CASE d = e
  <2>1. PICK s, t, n : s = handled[e] /\ t = handled'[e] /\ n = Len(s) + 1
    OBVIOUS
  <2>2. s \in Seq(Handled) /\ t = Append(s, x)
    BY <1>1, <1>3, <1>5, <2>1
  <2>3. /\ DOMAIN t = 1 .. n /\ DOMAIN s = 1 .. Len(s) /\ Len(s) \in Nat /\ t[n] = x
        /\ \A i \in 1 .. Len(s) : t[i] = s[i]
    BY <2>1, <2>2, AppendFacts
  <2>4. x.serial \in Nat /\ x.flagged \in BOOLEAN /\ x = [serial |-> x.serial, flagged |-> x.flagged]
    BY <1>1 DEF Handled
  <2>5. n \in DOMAIN t /\ \A i \in DOMAIN s : i \in DOMAIN t /\ i < n /\ t[i] = s[i] /\ i # n
    BY <2>1, <2>3
  <2>6. x.serial \in 1 .. serial[PeerOf[e]]
    BY <1>2, <2>1, <2>3, <2>5 DEF HandledWell, HandledWasSent
  <2>7. \A i \in DOMAIN s : s[i].serial # x.serial
    BY <2>1, <2>3, <2>5 DEF HandledWell, HandledOnce
  <2>8. \A i \in DOMAIN s : MayNest = {} /\ x.serial < s[i].serial => s[i].flagged
    BY <2>1, <2>3, <2>5 DEF HandledWell, OnlyFlaggedOvertakes
  <2>9. Channel(e)!Deliverable(x)
    BY <2>1, <2>7, <2>8 DEF Channel!Deliverable
  <2>10. x \in [serial : 1 .. serial[PeerOf[e]], flagged : BOOLEAN]
    BY <2>4, <2>6
  <2>11. client[e] /\ handled'[e] = Append(handled[e], x)
    BY <1>1, <1>5, <2>1, <2>2
  <2>12. Channel(e)!Deliver
    BY <1>2, <2>9, <2>10, <2>11 DEF Channel!Deliver
  <2>13. QED BY <2>12 DEF Channel!Next
<1>6. QED BY <1>4, <1>5

(* Each direction of every connection keeps the promise of MessageChannel,   *)
(* through crashes, invalidations, timeouts and synchronous requests nested  *)
(* to any depth: messages are handled at most once, only if sent, never by   *)
(* an end that is out of use, and, where no handler spins an event loop, in  *)
(* the order the flags allow.                                                *)
THEOREM ConnectionImplementsChannels == Spec => ChannelPromise
<1>1. Init => \A e \in Ends : Channel(e)!Init
  <2> SUFFICES ASSUME Init, NEW e \in Ends PROVE Channel(e)!Init
    OBVIOUS
  <2>1. PeerOf[e] \in Ends
    BY PeerAssumption
  <2>2. serial[PeerOf[e]] = 0 /\ client[PeerOf[e]] = TRUE /\ handled[e] = <<>> /\ client[e] = TRUE
    BY <2>1 DEF Init
  <2>3. QED BY <2>2 DEF Channel!Init
<1>2. Types /\ OwnConnections /\ HandledWell' /\ [Next]_vars =>
        [\A e \in Ends : [Channel(e)!Next]_(Channel(e)!vars)]_vars
  <2> SUFFICES ASSUME Types, OwnConnections, HandledWell', [Next]_vars, NEW e \in Ends
               PROVE  [Channel(e)!Next]_(Channel(e)!vars)
    OBVIOUS
  <2>1. SendsOne \/ HandlesOne \/ OnlyCloses
    BY StepChange DEF ChannelChange
  <2>2. QED BY <2>1, ChannelSend, ChannelClose, ChannelHandle
<1>3. Types /\ Order => HandledWasSent
  BY HandledSent
<1>4. Spec => [](Types /\ OwnConnections /\ Order)
  BY OrderInvariant
<1>5. Spec => []HandledOnce
  BY MessagesHandledOnce
<1>6. Spec => [](MayNest = {} => OnlyFlaggedOvertakes)
  <2>1. CASE MayNest = {}
    <3>1. Spec => []OnlyFlaggedOvertakes
      BY <2>1, FlaggedOvertakes
    <3>2. QED BY <3>1, PTL
  <2>2. CASE MayNest # {}
    <3>1. MayNest = {} => OnlyFlaggedOvertakes
      BY <2>2
    <3>2. QED BY <3>1, PTL
  <2>3. QED BY <2>1, <2>2
<1>7. HandledOnce /\ (MayNest = {} => OnlyFlaggedOvertakes) /\ HandledWasSent => HandledWell
  BY DEF HandledWell
<1>8. QED BY <1>1, <1>2, <1>3, <1>4, <1>5, <1>6, <1>7, PTL DEF Spec, ChannelPromise

-----------------------------------------------------------------------------
(* What a step does to the stack of a run loop whose handlers spin no loop.  *)
SameWait(f, g) == Waits(f) /\ f.conn = g.conn /\ f.msg = g.msg

Returned(s, t) == t = <<>> \/ (s # <<>> /\ t = Front(s))
Entered(s, t) == s = <<>> /\ \E f \in Frame : f.at \in {"handle", "swap"} /\ t = Append(s, f)
Turned(s, t) ==
    /\ s # <<>> /\ s[Len(s)].at # "handle"
    /\ \E f \in Frame : /\ Waits(f) => SameWait(s[Len(s)], f)
                        /\ t = Append(Front(s), f)
Resumed(s, t) ==
    /\ s # <<>> /\ s[Len(s)].at # "handle"
    /\ \E f, g \in Frame :
           /\ Waits(f) => SameWait(s[Len(s)], f)
           /\ g.at \in {"handle", "swap"}
           /\ f.at = "dispatch" => g.at = "handle" /\ g.msg.flagged
           /\ t = Append(Append(Front(s), f), g)
NewRequest(e) ==
    [type |-> "sync", id |-> syncRequestID[e] + 1, serial |-> serial[e] + 1, flagged |-> Flagged(e)]
Asked(l, s, t) ==
    /\ s # <<>> => s[Len(s)].at = "handle"
    /\ \E e \in Ends :
           /\ LoopOf[e] = l /\ SendSync(e)
           /\ t = Append(Append(s, NewFrame("check", e, NewRequest(e))), NewFrame("swap", NoEnd, NoMessage))
StackMove(l, s, t) ==
    t = s \/ Returned(s, t) \/ Entered(s, t) \/ Turned(s, t) \/ Resumed(s, t) \/ Asked(l, s, t)

(* A step of one run loop, and the stacks of the others.                     *)
LEMMA OneMoves ==
  ASSUME Types, NEW k \in RunLoops, NEW s, stack' = [stack EXCEPT ![k] = s], StackMove(k, stack[k], s)
  PROVE  \A l \in RunLoops : StackMove(l, stack[l], stack'[l])
<1>1. stack'[k] = s /\ \A l \in RunLoops : l # k => stack'[l] = stack[l]
  BY DEF Types, LoopTypes
<1>2. ASSUME NEW l \in RunLoops, l # k PROVE StackMove(l, stack[l], stack'[l])
  BY <1>1, <1>2 DEF StackMove
<1>3. QED BY <1>1, <1>2

(* Every step moves stacks in one of these ways.                             *)
LEMMA StackStep ==
  ASSUME Types, OwnConnections, Shallow, HeldFlagged, MayNest = {}, [Next]_vars
  PROVE  \A l \in RunLoops : StackMove(l, stack[l], stack'[l])
<1> USE DEF endVars, queueVars, loopVars
<1> DEFINE Goal == \A l \in RunLoops : StackMove(l, stack[l], stack'[l])
<1>t. stack \in [RunLoops -> Seq(Frame)] /\ \A d \in Ends : LoopOf[d] \in RunLoops
  BY LoopAssumption DEF Types, LoopTypes
<1>1. ASSUME UNCHANGED stack PROVE Goal
  BY <1>1 DEF StackMove
<1>2. ASSUME NEW k \in RunLoops, ProcessExits(k) PROVE Goal
  <2>1. stack' = [stack EXCEPT ![k] = <<>>] /\ StackMove(k, stack[k], <<>>)
    BY <1>2 DEF ProcessExits, StackMove, Returned
  <2>2. QED BY <2>1, OneMoves
<1>3. ASSUME NEW k \in RunLoops, stack[k] # <<>>, stack' = [stack EXCEPT ![k] = Front(stack[k])] PROVE Goal
  <2>1. StackMove(k, stack[k], Front(stack[k]))
    BY <1>3 DEF StackMove, Returned
  <2>2. QED BY <1>3, <2>1, OneMoves
<1>4. ASSUME NEW d \in Ends, SendSync(d) PROVE Goal
  <2> DEFINE k == LoopOf[d]
             s == Append(Append(stack[k], NewFrame("check", d, NewRequest(d))), NewFrame("swap", NoEnd, NoMessage))
  <2>1. stack' = [stack EXCEPT ![k] = s] /\ k \in RunLoops
    BY <1>4, <1>t DEF SendSync, NewRequest
  <2>2. stack[k] # <<>> => stack[k][Len(stack[k])].at = "handle"
    BY <1>4, <2>1, NotNested DEF SendSync, InClient, At, Top
  <2>3. Asked(k, stack[k], s)
    BY <1>4, <2>2 DEF Asked
  <2> HIDE DEF s, k
  <2>4. QED BY <2>1, <2>3, OneMoves DEF StackMove
<1>5. ASSUME NEW k \in RunLoops, NEW d \in Ends, NEW m \in Message, NEW s,
             dispatchMessage(k, d, m, s), StackMove(k, stack[k], s),
             StackMove(k, stack[k], Append(s, NewFrame("handle", d, m)))
      PROVE  Goal
  <2>1. stack' = [stack EXCEPT ![k] = s] \/ stack' = [stack EXCEPT ![k] = Append(s, NewFrame("handle", d, m))]
    BY <1>5 DEF dispatchMessage
  <2>2. QED BY <1>5, <2>1, OneMoves
<1>6. ASSUME NEW k \in RunLoops, dispatchOneMessage(k) PROVE Goal
  <2>0. PICK d, m : d = Head(functions[k]).conn /\ m = Head(incoming[d])
    OBVIOUS
  <2>1. NextFunction(k, "dispatchOneMessage")
    BY <1>6 DEF dispatchOneMessage
  <2>2. d \in Ends /\ stack[k] = <<>>
    BY <2>0, <2>1, TakenFunction, NotNested DEF NextFunction
  <2>3. CASE incoming[d] = <<>>
    BY <1>1, <1>6, <2>0, <2>3 DEF dispatchOneMessage
  <2>4. CASE incoming[d] # <<>>
    <3>1. dispatchMessage(k, d, m, stack[k])
      BY <1>6, <2>0, <2>4 DEF dispatchOneMessage
    <3>2. m \in Message
      BY <2>0, <2>2, <2>4, TailFacts DEF Types, QueueTypes
    <3>3. PICK f : f = NewFrame("handle", d, m)
      OBVIOUS
    <3>4. f \in Frame /\ f.at = "handle"
      BY <2>2, <3>2, <3>3, NewFrameType DEF NewFrame
    <3>5. StackMove(k, stack[k], stack[k]) /\ StackMove(k, stack[k], Append(stack[k], f))
      BY <2>2, <3>4 DEF StackMove, Entered
    <3>6. QED BY <1>5, <2>2, <3>1, <3>2, <3>3, <3>5
  <2>5. QED BY <2>3, <2>4
<1>7. ASSUME NEW k \in RunLoops, dispatchMessagesForConnection(k) PROVE Goal
  <2>0. PICK d, f : d = Head(functions[k]).conn /\ f = NewFrame("swap", d, NoMessage)
    OBVIOUS
  <2>1. NextFunction(k, "dispatchMessagesForConnection")
    BY <1>7 DEF dispatchMessagesForConnection
  <2>2. d \in Ends /\ stack[k] = <<>>
    BY <2>0, <2>1, TakenFunction, NotNested DEF NextFunction
  <2>3. f \in Frame /\ f.at = "swap"
    BY <2>0, <2>2, NewFrameType, NoMessageType DEF NewFrame
  <2>4. stack' = [stack EXCEPT ![k] = Append(stack[k], f)]
    BY <1>7, <2>0 DEF dispatchMessagesForConnection
  <2>5. StackMove(k, stack[k], Append(stack[k], f))
    BY <2>2, <2>3 DEF StackMove, Entered
  <2>6. QED BY <2>4, <2>5, OneMoves
<1>8. ASSUME NEW k \in RunLoops, NEW f \in Frame, stack[k] # <<>>, Top(k).at # "handle",
             Waits(f) => SameWait(Top(k), f)
      PROVE  StackMove(k, stack[k], Append(Front(stack[k]), f))
  BY <1>8 DEF StackMove, Turned, Top
<1>9. ASSUME NEW k \in RunLoops, NEW f \in Frame, NEW g \in Frame, stack[k] # <<>>, Top(k).at # "handle",
             Waits(f) => SameWait(Top(k), f), g.at \in {"handle", "swap"},
             f.at = "dispatch" => g.at = "handle" /\ g.msg.flagged
      PROVE  StackMove(k, stack[k], Append(Append(Front(stack[k]), f), g))
  BY <1>9 DEF StackMove, Resumed, Top
<1>10. ASSUME NEW k \in RunLoops, SwapMessages(k) PROVE Goal
  <2>0. PICK f : f = [Top(k) EXCEPT !.at = "dispatch", !.todo = toDispatch[k]]
    OBVIOUS
  <2>1. stack[k] # <<>> /\ Top(k).at = "swap" /\ Top(k) \in Frame
    BY <1>10, OwnTop DEF SwapMessages, At
  <2>2. toDispatch[k] \in Seq(ConnectionAndMessage)
    BY DEF Types, LoopTypes
  <2>3. f \in Frame /\ f.at = "dispatch"
    BY <2>0, <2>1, <2>2 DEF Frame
  <2>4. StackMove(k, stack[k], Append(Front(stack[k]), f))
    BY <1>8, <2>1, <2>3 DEF Waits
  <2>5. stack' = [stack EXCEPT ![k] = Append(Front(stack[k]), f)]
    BY <1>10, <2>0 DEF SwapMessages
  <2>6. QED BY <2>4, <2>5, OneMoves
<1>11. ASSUME NEW k \in RunLoops, DispatchNext(k) PROVE Goal
  <2>0. PICK f, x : f = Top(k) /\ x = Head(f.todo)
    OBVIOUS
  <2>a. PICK a, b : a = [f EXCEPT !.todo = Tail(@)] /\ b = [f EXCEPT !.todo = Tail(@), !.putBack = Append(@, x)]
    OBVIOUS
  <2>1. /\ stack[k] # <<>> /\ f.at = "dispatch" /\ f \in Frame /\ f.todo # <<>>
        /\ f = stack[k][Len(stack[k])] /\ Len(stack[k]) \in DOMAIN stack[k]
    BY <1>11, <1>t, <2>0, OwnTop DEF DispatchNext, At, Top
  <2>2. f.todo \in Seq(ConnectionAndMessage) /\ f.putBack \in Seq(ConnectionAndMessage)
    BY <2>1 DEF Frame
  <2>3. x \in AllItems(toDispatch[k], stack[k])
    <3>1. x \in Items(f.todo)
      BY <2>0, <2>1, <2>2, ItemsTail
    <3>2. QED BY <2>1, <3>1 DEF AllItems, StackItems, FrameItems
  <2>4. x \in ConnectionAndMessage /\ x.conn \in Ends /\ x.msg \in Message
    BY <2>3, OwnItems DEF ConnectionAndMessage
  <2>5. x.msg.flagged
    BY <2>3 DEF HeldFlagged
  <2>6. Tail(f.todo) \in Seq(ConnectionAndMessage) /\ Append(f.putBack, x) \in Seq(ConnectionAndMessage)
    BY <2>1, <2>2, <2>4, TailFacts, AppendFacts
  <2>7. a \in Frame /\ a.at = "dispatch" /\ b \in Frame /\ b.at = "dispatch"
    BY <2>a, <2>1, <2>6 DEF Frame
  <2>8. StackMove(k, stack[k], Append(Front(stack[k]), a)) /\ StackMove(k, stack[k], Append(Front(stack[k]), b))
    BY <1>8, <2>0, <2>1, <2>7 DEF Waits
  <2>9. PICK g : g = NewFrame("handle", x.conn, x.msg)
    OBVIOUS
  <2>10. g \in Frame /\ g.at = "handle" /\ g.msg.flagged
    BY <2>4, <2>5, <2>9, NewFrameType DEF NewFrame
  <2>11. StackMove(k, stack[k], Append(Append(Front(stack[k]), a), g))
    BY <1>9, <2>0, <2>1, <2>7, <2>10 DEF Waits
  <2>12. \/ stack' = [stack EXCEPT ![k] = Append(Front(stack[k]), b)]
         \/ dispatchMessage(k, x.conn, x.msg, Append(Front(stack[k]), a))
    BY <1>11, <2>0, <2>a DEF DispatchNext
  <2>13. CASE stack' = [stack EXCEPT ![k] = Append(Front(stack[k]), b)]
    BY <2>8, <2>13, OneMoves
  <2>14. CASE dispatchMessage(k, x.conn, x.msg, Append(Front(stack[k]), a))
    BY <1>5, <2>4, <2>8, <2>9, <2>11, <2>14
  <2>15. QED BY <2>12, <2>13, <2>14
<1>12. ASSUME NEW k \in RunLoops, NEW at \in {"check", "sleep"}, At(k, {"check", "sleep"})
       PROVE  /\ [Top(k) EXCEPT !.at = at] \in Frame /\ stack[k] # <<>> /\ Top(k).at # "handle"
              /\ [Top(k) EXCEPT !.at = at].at = at /\ SameWait(Top(k), [Top(k) EXCEPT !.at = at])
  <2>1. stack[k] # <<>> /\ Top(k) \in Frame /\ Top(k).at \in {"check", "sleep"}
    BY <1>12, OwnTop DEF At
  <2>2. QED BY <2>1 DEF Frame, SameWait, Waits
<1>13. ASSUME NEW k \in RunLoops, Sleep(k) PROVE Goal
  <2>0. PICK f : f = [Top(k) EXCEPT !.at = "sleep"]
    OBVIOUS
  <2>1. At(k, {"check", "sleep"}) /\ stack' = [stack EXCEPT ![k] = Append(Front(stack[k]), f)]
    BY <1>13, <2>0 DEF Sleep, At
  <2>2. StackMove(k, stack[k], Append(Front(stack[k]), f))
    BY <1>8, <1>12, <2>0, <2>1
  <2>3. QED BY <2>1, <2>2, OneMoves
<1>14. ASSUME NEW k \in RunLoops, WakeUp(k) PROVE Goal
  <2>0. PICK f, g : f = [Top(k) EXCEPT !.at = "check"] /\ g = NewFrame("swap", NoEnd, NoMessage)
    OBVIOUS
  <2>1. At(k, {"check", "sleep"}) /\ stack' = [stack EXCEPT ![k] = Append(Append(Front(stack[k]), f), g)]
    BY <1>14, <2>0 DEF WakeUp, At
  <2>2. g \in Frame /\ g.at = "swap"
    BY <2>0, NewFrameType, NoMessageType DEF NewFrame
  <2>3. StackMove(k, stack[k], Append(Append(Front(stack[k]), f), g))
    BY <1>9, <1>12, <2>0, <2>1, <2>2
  <2>4. QED BY <2>1, <2>3, OneMoves
<1>15. ASSUME NEW k \in RunLoops, SyncSendFails(k, Top(k).conn), At(k, {"check", "sleep"}) PROVE Goal
  BY <1>2, <1>3, <1>15 DEF SyncSendFails, PopPendingReply, At
<1>16. ASSUME NEW k \in RunLoops, ClientThread(k) \/ EnterNestedLoop(k) \/ TimeOut(k) \/ Crash(k) PROVE Goal
  <2>1. CASE dispatchConnectionDidClose(k)
    BY <1>1, <2>1 DEF dispatchConnectionDidClose
  <2>2. CASE EndDispatchMessages(k) \/ HandlerReturns(k) \/ ExitNestedLoop(k) \/ ReturnReply(k)
    BY <1>3, <2>2 DEF EndDispatchMessages, HandlerReturns, ExitNestedLoop, ReturnReply, PopPendingReply, At
  <2>3. CASE GiveUp(k) \/ TimeOut(k)
    <3>1. SyncSendFails(k, Top(k).conn) /\ At(k, {"check", "sleep"})
      BY <2>3 DEF GiveUp, TimeOut, At
    <3>2. QED BY <1>15, <3>1
  <2>4. CASE Crash(k)
    BY <1>2, <2>4 DEF Crash
  <2>5. ~EnterNestedLoop(k)
    BY DEF EnterNestedLoop
  <2>6. QED BY <1>6, <1>7, <1>10, <1>11, <1>13, <1>14, <1>16, <2>1, <2>2, <2>3, <2>4, <2>5
           DEF ClientThread, performWork
<1>17. ASSUME NEW d \in Ends, ConnectionQueue(d) \/ ClientDecides(d) PROVE Goal
  <2>1. CASE SendSyncFails(d)
    BY <1>2, <1>t, <2>1 DEF SendSyncFails
  <2>2. CASE ~SendSyncFails(d) /\ ~SendSync(d)
    <3>1. UNCHANGED stack
      BY <1>17, <2>2
         DEF ConnectionQueue, ClientDecides, sendOutgoingMessages, PlatformInvalidate, ReceiveReply, ReceiveFlagged,
             ReceiveOtherReply, wakeUpClientRunLoop, ReceiveUnflagged, connectionDidClose, SendAsync, Invalidate
    <3>2. QED BY <1>1, <3>1
  <2>3. QED BY <1>4, <2>1, <2>2
<1>18. ASSUME NEW t \in SecondaryThreads, SecondaryRegister(t) \/ SecondarySend(t) \/ SecondaryReturn(t) PROVE Goal
  BY <1>1, <1>18 DEF SecondaryRegister, SecondarySend, SecondaryReturn
<1>19. CASE UNCHANGED vars
  BY <1>1, <1>19 DEF vars
<1>20. QED BY <1>16, <1>17, <1>18, <1>19 DEF Next

(* The frames of a request that is sent.                                     *)
LEMMA AskedFrames ==
  ASSUME Types, NEW e \in Ends
  PROVE  LET f == NewFrame("check", e, NewRequest(e))
             g == NewFrame("swap", NoEnd, NoMessage)
         IN  /\ f \in Frame /\ f.at = "check" /\ f.conn = e /\ f.msg = NewRequest(e) /\ Waits(f)
             /\ g \in Frame /\ g.at = "swap" /\ NewRequest(e) \in Message
<1>1. NewRequest(e) \in Message
  BY DEF NewRequest, Message, Flagged, Types, CountTypes
<1>2. NewFrame("check", e, NewRequest(e)) \in Frame /\ NewFrame("swap", NoEnd, NoMessage) \in Frame
  BY <1>1, NewFrameType, NoMessageType
<1>3. QED BY <1>1, <1>2 DEF NewFrame, Waits

(* Two frames on top of a stack.                                             *)
LEMMA TwoAppends ==
  ASSUME NEW s \in Seq(Frame), NEW f \in Frame, NEW g \in Frame
  PROVE  LET t == Append(Append(s, f), g)
         IN  /\ t \in Seq(Frame) /\ Len(t) = Len(s) + 2 /\ DOMAIN t = 1 .. Len(s) + 2 /\ Len(s) \in Nat
             /\ DOMAIN s = 1 .. Len(s) /\ \A i \in 1 .. Len(s) : t[i] = s[i]
             /\ t[Len(s) + 1] = f /\ t[Len(s) + 2] = g
<1>1. /\ Append(s, f) \in Seq(Frame) /\ Len(Append(s, f)) = Len(s) + 1 /\ Len(s) \in Nat /\ DOMAIN s = 1 .. Len(s)
      /\ \A i \in 1 .. Len(s) : Append(s, f)[i] = s[i]
      /\ Append(s, f)[Len(s) + 1] = f
  BY AppendFacts
<1>2. PICK a : a = Append(s, f)
  OBVIOUS
<1>3. /\ Append(a, g) \in Seq(Frame) /\ Len(Append(a, g)) = Len(a) + 1 /\ DOMAIN Append(a, g) = 1 .. Len(a) + 1
      /\ \A i \in 1 .. Len(a) : Append(a, g)[i] = a[i]
      /\ Append(a, g)[Len(a) + 1] = g
  BY <1>1, <1>2, AppendFacts
<1>4. QED BY <1>1, <1>2, <1>3

(* The top of a stack replaced, by one frame or by two.                      *)
LEMMA TurnFacts ==
  ASSUME NEW s \in Seq(Frame), s # <<>>, NEW f \in Frame
  PROVE  LET t == Append(Front(s), f)
         IN  /\ t \in Seq(Frame) /\ Len(t) = Len(s) /\ DOMAIN t = 1 .. Len(s) /\ Len(s) \in Nat /\ Len(s) > 0
             /\ (\A i \in 1 .. Len(s) - 1 : t[i] = s[i]) /\ t[Len(s)] = f /\ DOMAIN s = 1 .. Len(s)
<1>1. /\ Front(s) \in Seq(Frame) /\ Len(Front(s)) = Len(s) - 1 /\ Len(s) \in Nat /\ Len(s) > 0
      /\ DOMAIN s = 1 .. Len(s) /\ \A i \in 1 .. Len(s) - 1 : Front(s)[i] = s[i]
  BY FrontFacts
<1>2. PICK r : r = Front(s)
  OBVIOUS
<1>3. /\ Append(r, f) \in Seq(Frame) /\ Len(Append(r, f)) = Len(r) + 1 /\ DOMAIN Append(r, f) = 1 .. Len(r) + 1
      /\ (\A i \in 1 .. Len(r) : Append(r, f)[i] = r[i]) /\ Append(r, f)[Len(r) + 1] = f
  BY <1>1, <1>2, AppendFacts
<1>4. Len(r) + 1 = Len(s) /\ Len(r) = Len(s) - 1
  BY <1>1, <1>2
<1>5. /\ Len(Append(r, f)) = Len(s) /\ DOMAIN Append(r, f) = 1 .. Len(s) /\ Append(r, f)[Len(s)] = f
      /\ \A i \in 1 .. Len(s) - 1 : Append(r, f)[i] = s[i]
  BY <1>1, <1>2, <1>3, <1>4
<1>6. QED BY <1>1, <1>2, <1>3, <1>5

(* The last frame of a turned stack is covered by a new one.                 *)
LEMMA ResumeFacts ==
  ASSUME NEW s \in Seq(Frame), s # <<>>, NEW f \in Frame, NEW g \in Frame
  PROVE  LET t == Append(Append(Front(s), f), g)
         IN  /\ t \in Seq(Frame) /\ DOMAIN t = 1 .. Len(s) + 1 /\ Len(s) \in Nat /\ Len(s) > 0
             /\ (\A i \in 1 .. Len(s) - 1 : t[i] = s[i]) /\ t[Len(s)] = f /\ t[Len(s) + 1] = g
<1>1. PICK r : r = Append(Front(s), f)
  OBVIOUS
<1>2. /\ r \in Seq(Frame) /\ Len(r) = Len(s) /\ Len(s) \in Nat /\ Len(s) > 0
      /\ (\A i \in 1 .. Len(s) - 1 : r[i] = s[i]) /\ r[Len(s)] = f
  BY <1>1, TurnFacts
<1>3. /\ Append(r, g) \in Seq(Frame) /\ DOMAIN Append(r, g) = 1 .. Len(r) + 1
      /\ (\A i \in 1 .. Len(r) : Append(r, g)[i] = r[i]) /\ Append(r, g)[Len(r) + 1] = g
  BY <1>2, AppendFacts
<1>4. QED BY <1>1, <1>2, <1>3

(* The frames below a wait are those that were below it before; a wait is an *)
(* old one or that of the request just sent.                                 *)
OldOrNew(l, s, t, k) ==
    \/ k \in DOMAIN s /\ SameWait(s[k], t[k])
    \/ \E e \in Ends : /\ LoopOf[e] = l /\ SendSync(e) /\ t[k].conn = e /\ t[k].msg = NewRequest(e)
                       /\ k = Len(s) + 1
LEMMA MoveKeeps ==
  ASSUME Types, NEW l, NEW s \in Seq(Frame), NEW t, StackMove(l, s, t), NEW k \in DOMAIN t, Waits(t[k])
  PROVE  /\ \A j \in DOMAIN t : j < k => j \in DOMAIN s /\ t[j] = s[j]
         /\ OldOrNew(l, s, t, k)
<1> DEFINE Goal == (\A j \in DOMAIN t : j < k => j \in DOMAIN s /\ t[j] = s[j]) /\ OldOrNew(l, s, t, k)
<1>0. DOMAIN s = 1 .. Len(s) /\ Len(s) \in Nat
  OBVIOUS
<1>1. CASE t = s
  BY <1>1 DEF OldOrNew, SameWait
<1>2. CASE Returned(s, t)
  <2>1. s # <<>> /\ t = Front(s)
    BY <1>2, EmptyFacts DEF Returned
  <2>2. DOMAIN t = 1 .. Len(s) - 1 /\ \A i \in 1 .. Len(s) - 1 : t[i] = s[i]
    BY <2>1, FrontFacts
  <2>3. QED BY <1>0, <2>2 DEF OldOrNew, SameWait
<1>3. CASE Entered(s, t)
  <2>1. PICK f \in Frame : f.at \in {"handle", "swap"} /\ t = Append(s, f)
    BY <1>3 DEF Entered
  <2>2. s = <<>> /\ Len(s) = 0
    BY <1>3, EmptyFacts DEF Entered
  <2>3. DOMAIN t = 1 .. 1 /\ t[1] = f
    BY <2>1, <2>2, AppendFacts
  <2>4. k = 1
    BY <2>3
  <2>5. QED BY <2>1, <2>3, <2>4 DEF Waits
<1>5. CASE Turned(s, t)
  <2>1. PICK f \in Frame : (Waits(f) => SameWait(s[Len(s)], f)) /\ t = Append(Front(s), f)
    BY <1>5 DEF Turned
  <2>2. s # <<>>
    BY <1>5 DEF Turned
  <2>3. DOMAIN t = 1 .. Len(s) /\ (\A i \in 1 .. Len(s) - 1 : t[i] = s[i]) /\ t[Len(s)] = f
    BY <2>1, <2>2, TurnFacts
  <2>4. CASE k = Len(s)
    <3>0. Len(s) \in DOMAIN s
      BY <2>2, TurnFacts
    <3>1. SameWait(s[k], t[k])
      BY <2>1, <2>3, <2>4
    <3>2. \A j \in DOMAIN t : j < k => j \in DOMAIN s /\ t[j] = s[j]
      BY <1>0, <2>3, <2>4
    <3>3. OldOrNew(l, s, t, k)
      BY <2>4, <3>0, <3>1 DEF OldOrNew
    <3>4. QED BY <3>2, <3>3
  <2>5. CASE k # Len(s)
    BY <1>0, <2>3, <2>5 DEF OldOrNew, SameWait
  <2>6. QED BY <2>4, <2>5
<1>6. CASE Resumed(s, t)
  <2>1. PICK f, g \in Frame : /\ (Waits(f) => SameWait(s[Len(s)], f)) /\ t = Append(Append(Front(s), f), g)
                              /\ g.at \in {"handle", "swap"}
    BY <1>6 DEF Resumed
  <2>2. s # <<>>
    BY <1>6 DEF Resumed
  <2>6. /\ DOMAIN t = 1 .. Len(s) + 1 /\ (\A i \in 1 .. Len(s) - 1 : t[i] = s[i])
        /\ t[Len(s)] = f /\ t[Len(s) + 1] = g
    BY <2>1, <2>2, ResumeFacts
  <2>7. k # Len(s) + 1
    BY <2>1, <2>6 DEF Waits
  <2>8. CASE k = Len(s)
    <3>0. s # <<>> /\ Len(s) > 0
      BY <1>0, <2>2, EmptySeq
    <3>1. Len(s) \in DOMAIN s
      BY <1>0, <3>0
    <3>2. SameWait(s[k], t[k])
      BY <2>1, <2>6, <2>8
    <3>3. \A j \in DOMAIN t : j < k => j \in DOMAIN s /\ t[j] = s[j]
      BY <1>0, <2>6, <2>8
    <3>4. OldOrNew(l, s, t, k)
      BY <2>8, <3>1, <3>2 DEF OldOrNew
    <3>5. QED BY <3>3, <3>4
  <2>9. CASE k # Len(s)
    BY <1>0, <2>6, <2>7, <2>9 DEF OldOrNew, SameWait
  <2>10. QED BY <2>8, <2>9
<1>7. CASE Asked(l, s, t)
  <2>1. PICK e \in Ends :
           /\ LoopOf[e] = l /\ SendSync(e)
           /\ t = Append(Append(s, NewFrame("check", e, NewRequest(e))), NewFrame("swap", NoEnd, NoMessage))
    BY <1>7 DEF Asked
  <2>2. PICK f, g : f = NewFrame("check", e, NewRequest(e)) /\ g = NewFrame("swap", NoEnd, NoMessage)
    OBVIOUS
  <2>3. f \in Frame /\ f.conn = e /\ f.msg = NewRequest(e) /\ g \in Frame /\ g.at = "swap"
    BY <2>2, AskedFrames
  <2>4. /\ DOMAIN t = 1 .. Len(s) + 2 /\ (\A i \in 1 .. Len(s) : t[i] = s[i])
        /\ t[Len(s) + 1] = f /\ t[Len(s) + 2] = g
    BY <2>1, <2>2, <2>3, TwoAppends
  <2>5. k # Len(s) + 2
    BY <2>3, <2>4 DEF Waits
  <2>6. CASE k = Len(s) + 1
    BY <1>0, <2>1, <2>3, <2>4, <2>6 DEF OldOrNew
  <2>7. CASE k # Len(s) + 1
    BY <1>0, <2>4, <2>5, <2>7 DEF OldOrNew, SameWait
  <2>8. QED BY <2>6, <2>7
<1>8. QED BY <1>1, <1>2, <1>3, <1>5, <1>6, <1>7 DEF StackMove

(* A dispatchMessages() that is not on top runs a flagged message's handler. *)
Covered(s) ==
    \A k \in DOMAIN s : k + 1 \in DOMAIN s /\ s[k].at = "dispatch" => s[k + 1].at = "handle" /\ s[k + 1].msg.flagged
LEMMA MoveCovers ==
  ASSUME Types, NEW l, NEW s \in Seq(Frame), NEW t, StackMove(l, s, t), Covered(s)
  PROVE  Covered(t)
<1>0. DOMAIN s = 1 .. Len(s) /\ Len(s) \in Nat
  OBVIOUS
<1>1. CASE t = s
  BY <1>1
<1>2. CASE Returned(s, t)
  <2>1. CASE t = <<>>
    BY <2>1, EmptyFacts DEF Covered
  <2>2. CASE s # <<>> /\ t = Front(s)
    <3>1. DOMAIN t = 1 .. Len(s) - 1 /\ \A i \in 1 .. Len(s) - 1 : t[i] = s[i]
      BY <2>2, FrontFacts
    <3>2. QED BY <1>0, <3>1 DEF Covered
  <2>3. QED BY <1>2, <2>1, <2>2 DEF Returned
<1>3. CASE Entered(s, t)
  <2>1. PICK f \in Frame : f.at \in {"handle", "swap"} /\ t = Append(s, f)
    BY <1>3 DEF Entered
  <2>2. s = <<>> /\ Len(s) = 0
    BY <1>3, EmptyFacts DEF Entered
  <2>3. DOMAIN t = 1 .. 1
    BY <2>1, <2>2, AppendFacts
  <2>4. QED BY <2>3 DEF Covered
<1>5. CASE Turned(s, t)
  <2>1. PICK f \in Frame : t = Append(Front(s), f)
    BY <1>5 DEF Turned
  <2>2. s # <<>> /\ s[Len(s)].at # "handle"
    BY <1>5 DEF Turned
  <2>3. DOMAIN t = 1 .. Len(s) /\ (\A i \in 1 .. Len(s) - 1 : t[i] = s[i])
    BY <2>1, <2>2, TurnFacts
  <2>4. QED BY <1>0, <2>2, <2>3 DEF Covered
<1>6. CASE Resumed(s, t)
  <2>1. PICK f, g \in Frame : /\ t = Append(Append(Front(s), f), g)
                              /\ f.at = "dispatch" => g.at = "handle" /\ g.msg.flagged
    BY <1>6 DEF Resumed
  <2>2. s # <<>> /\ s[Len(s)].at # "handle"
    BY <1>6 DEF Resumed
  <2>6. /\ DOMAIN t = 1 .. Len(s) + 1 /\ (\A i \in 1 .. Len(s) - 1 : t[i] = s[i])
        /\ t[Len(s)] = f /\ t[Len(s) + 1] = g
    BY <2>1, <2>2, ResumeFacts
  <2>7. ASSUME NEW k \in DOMAIN t, k + 1 \in DOMAIN t, t[k].at = "dispatch"
        PROVE  t[k + 1].at = "handle" /\ t[k + 1].msg.flagged
    <3>1. CASE k = Len(s)
      BY <2>1, <2>6, <2>7, <3>1
    <3>2. CASE k # Len(s)
      <4>1. k \in 1 .. Len(s) - 1 /\ k + 1 \in DOMAIN s
        BY <1>0, <2>6, <2>7, <3>2
      <4>2. s[k].at = "dispatch" /\ k \in DOMAIN s
        BY <1>0, <2>6, <2>7, <4>1
      <4>3. s[k + 1].at = "handle" /\ s[k + 1].msg.flagged
        BY <4>1, <4>2 DEF Covered
      <4>4. k + 1 # Len(s)
        BY <2>2, <4>3
      <4>5. QED BY <1>0, <2>6, <4>1, <4>3, <4>4
    <3>3. QED BY <3>1, <3>2
  <2>8. QED BY <2>7 DEF Covered
<1>7. CASE Asked(l, s, t)
  <2>1. PICK e \in Ends :
           t = Append(Append(s, NewFrame("check", e, NewRequest(e))), NewFrame("swap", NoEnd, NoMessage))
    BY <1>7 DEF Asked
  <2>2. PICK f, g : f = NewFrame("check", e, NewRequest(e)) /\ g = NewFrame("swap", NoEnd, NoMessage)
    OBVIOUS
  <2>3. f \in Frame /\ f.at = "check" /\ g \in Frame
    BY <2>2, AskedFrames
  <2>4. /\ DOMAIN t = 1 .. Len(s) + 2 /\ (\A i \in 1 .. Len(s) : t[i] = s[i])
        /\ t[Len(s) + 1] = f /\ t[Len(s) + 2] = g
    BY <2>1, <2>2, <2>3, TwoAppends
  <2>5. s # <<>> => s[Len(s)].at = "handle"
    BY <1>7 DEF Asked
  <2>6. ASSUME NEW k \in DOMAIN t, k + 1 \in DOMAIN t, t[k].at = "dispatch"
        PROVE  t[k + 1].at = "handle" /\ t[k + 1].msg.flagged
    <3>1. k # Len(s) + 1
      BY <2>3, <2>4, <2>6
    <3>2. k \in 1 .. Len(s) /\ s[k].at = "dispatch"
      BY <1>0, <2>4, <2>6, <3>1
    <3>3. k # Len(s)
      <4>1. s # <<>>
        BY <1>0, <3>2, EmptyFacts
      <4>2. QED BY <2>5, <3>2, <4>1
    <3>4. k + 1 \in DOMAIN s /\ t[k + 1] = s[k + 1]
      BY <1>0, <2>4, <3>2, <3>3
    <3>5. QED BY <1>0, <3>2, <3>4 DEF Covered
  <2>7. QED BY <2>6 DEF Covered
<1>8. QED BY <1>1, <1>2, <1>3, <1>5, <1>6, <1>7 DEF StackMove

-----------------------------------------------------------------------------
(* What stays in a sequence.                                                 *)
LEMMA HasLeft ==
  ASSUME NEW T, NEW s \in Seq(T), s # <<>>, NEW S, Has(s, S), s[Len(s)] \notin S
  PROVE  Has(Front(s), S)
<1>1. PICK i \in DOMAIN s : s[i] \in S
  BY DEF Has
<1>2. i \in 1 .. Len(s) - 1 /\ DOMAIN Front(s) = 1 .. Len(s) - 1 /\ Front(s)[i] = s[i]
  <2>1. i # Len(s)
    BY <1>1
  <2>2. QED BY <2>1, FrontFacts
<1>3. QED BY <1>1, <1>2 DEF Has

(* What is in one of two sequences is in their concatenation.                *)
LEMMA HasBoth ==
  ASSUME NEW T, NEW s \in Seq(T), NEW t \in Seq(T), NEW S, Has(s, S) \/ Has(t, S)
  PROVE  Has(s \o t, S)
<1>1. CASE Has(s, S)
  <2>1. PICK i \in DOMAIN s : s[i] \in S
    BY <1>1 DEF Has
  <2>2. i \in DOMAIN (s \o t) /\ (s \o t)[i] = s[i]
    BY ConcatFacts
  <2>3. QED BY <2>1, <2>2 DEF Has
<1>2. CASE Has(t, S)
  <2>1. PICK i \in DOMAIN t : t[i] \in S
    BY <1>2 DEF Has
  <2>2. Len(s) + i \in DOMAIN (s \o t) /\ (s \o t)[Len(s) + i] = t[i]
    BY ConcatFacts
  <2>3. QED BY <2>1, <2>2 DEF Has
<1>3. QED BY <1>1, <1>2

(* What is in a sequence is counted.                                         *)
LEMMA HasCount ==
  ASSUME NEW T, NEW s \in Seq(T), NEW S, Has(s, S)
  PROVE  Count(s, S) > 0
<1>1. IsFiniteSet(Positions(s, S)) /\ Count(s, S) \in Nat
  BY CountType
<1>2. Positions(s, S) # {}
  BY DEF Has, Positions
<1>3. Count(s, S) # 0
  BY <1>1, <1>2, FS_EmptySet DEF Count
<1>4. QED BY <1>1, <1>3

-----------------------------------------------------------------------------
(* Which actions change the queues of a connection.                          *)
LEMMA OutgoingChanges ==
  ASSUME Types, OwnConnections, [Next]_vars
  PROVE  \/ UNCHANGED <<outgoing, queue>>
         \/ \E d \in Ends : sendOutgoingMessages(d) \/ PlatformInvalidate(d) \/ Invalidate(d)
         \/ \E d \in Ends, m \in Message : sendMessage(d, m)
         \/ \E k \in RunLoops : ProcessExits(k)
<1> USE DEF endVars, queueVars, loopVars
<1> DEFINE Goal == \/ UNCHANGED <<outgoing, queue>>
                   \/ \E d \in Ends : sendOutgoingMessages(d) \/ PlatformInvalidate(d) \/ Invalidate(d)
                   \/ \E d \in Ends, m \in Message : sendMessage(d, m)
                   \/ \E k \in RunLoops : ProcessExits(k)
<1>1. ASSUME NEW k \in RunLoops, ClientThread(k) \/ EnterNestedLoop(k) \/ TimeOut(k) \/ Crash(k) PROVE Goal
  <2>1. CASE HandlerReturns(k)
    <3>0. PICK d, m : d = Top(k).conn /\ m = Top(k).msg
      OBVIOUS
    <3>1. Top(k) \in Frame /\ Top(k).at = "handle" /\ d \in Ends
      BY <2>1, <3>0, OwnTop DEF HandlerReturns, At
    <3>2. [m EXCEPT !.type = "reply", !.flagged = FALSE] \in Message
      BY <3>0, <3>1 DEF Frame, Message
    <3>3. UNCHANGED <<outgoing, queue>> \/ sendMessage(d, [m EXCEPT !.type = "reply", !.flagged = FALSE])
      BY <2>1, <3>0 DEF HandlerReturns
    <3>4. QED BY <3>1, <3>2, <3>3
  <2>2. CASE Crash(k) \/ TimeOut(k) \/ GiveUp(k) \/ ReturnReply(k)
    BY <2>2 DEF Crash, TimeOut, GiveUp, ReturnReply, SyncSendFails, PopPendingReply
  <2>3. CASE performWork(k)
    BY <2>3 DEF performWork, dispatchOneMessage, dispatchMessagesForConnection, dispatchConnectionDidClose
  <2>4. CASE SwapMessages(k) \/ DispatchNext(k) \/ EndDispatchMessages(k) \/ Sleep(k) \/ WakeUp(k)
    BY <2>4 DEF SwapMessages, DispatchNext, EndDispatchMessages, Sleep, WakeUp
  <2>5. CASE ExitNestedLoop(k) \/ EnterNestedLoop(k)
    BY <2>5 DEF ExitNestedLoop, EnterNestedLoop
  <2>6. QED BY <1>1, <2>1, <2>2, <2>3, <2>4, <2>5 DEF ClientThread
<1>2. ASSUME NEW d \in Ends, ConnectionQueue(d) PROVE Goal
  BY <1>2 DEF ConnectionQueue, ReceiveReply, ReceiveFlagged, ReceiveOtherReply, wakeUpClientRunLoop,
              ReceiveUnflagged, connectionDidClose
<1>3. ASSUME NEW d \in Ends, ClientDecides(d) PROVE Goal
  <2>1. CASE SendSync(d)
    <3>1. sendMessage(d, NewRequest(d)) /\ NewRequest(d) \in Message
      BY <2>1, AskedFrames DEF SendSync, NewRequest
    <3>2. QED BY <3>1
  <2>2. ASSUME NEW ask \in BOOLEAN, SendAsync(d, ask) PROVE Goal
    <3>0. PICK m : m = [type |-> "async", id |-> 0, serial |-> serial[d] + 1, flagged |-> ask /\ Flagged(d)]
      OBVIOUS
    <3>1. m \in Message
      BY <3>0 DEF Message, Flagged, Types, CountTypes
    <3>2. sendMessage(d, m)
      BY <2>2, <3>0 DEF SendAsync
    <3>3. QED BY <3>1, <3>2
  <2>3. CASE SendSyncFails(d)
    BY <2>3, LoopAssumption DEF SendSyncFails
  <2>4. QED BY <1>3, <2>1, <2>2, <2>3 DEF ClientDecides
<1>4. ASSUME NEW t \in SecondaryThreads, SecondaryRegister(t) \/ SecondarySend(t) \/ SecondaryReturn(t) PROVE Goal
  <2>1. CASE SecondarySend(t)
    <3>0. PICK d, m : /\ d = SecondaryEnd[t]
                      /\ m = [type |-> "sync", id |-> secondary[t].id, serial |-> serial[d] + 1, flagged |-> FALSE]
      OBVIOUS
    <3>1. d \in Ends /\ m \in Message
      BY <3>0, SecondaryAssumption DEF Message, Types, CountTypes, HistoryTypes, Wait
    <3>2. UNCHANGED <<outgoing, queue>> \/ sendMessage(d, m)
      BY <2>1, <3>0 DEF SecondarySend
    <3>3. QED BY <3>1, <3>2
  <2>2. QED BY <1>4, <2>1 DEF SecondaryRegister, SecondaryReturn
<1>5. CASE UNCHANGED vars
  BY <1>5 DEF vars
<1>6. QED BY <1>1, <1>2, <1>3, <1>4, <1>5 DEF Next

(* Which actions change what a socket holds.                                 *)
LEMMA WireChanges ==
  ASSUME Types, [Next]_vars
  PROVE  \/ UNCHANGED wire
         \/ \E d \in Ends : sendOutgoingMessages(d) \/ PlatformInvalidate(d) \/ connectionDidClose(d)
         \/ \E d \in Ends : ReceiveReply(d) \/ ReceiveOtherReply(d) \/ ReceiveFlagged(d) \/ ReceiveUnflagged(d)
         \/ \E k \in RunLoops : ProcessExits(k)
<1> USE DEF endVars, queueVars, loopVars
<1> DEFINE Goal ==
         \/ UNCHANGED wire
         \/ \E d \in Ends : sendOutgoingMessages(d) \/ PlatformInvalidate(d) \/ connectionDidClose(d)
         \/ \E d \in Ends : ReceiveReply(d) \/ ReceiveOtherReply(d) \/ ReceiveFlagged(d) \/ ReceiveUnflagged(d)
         \/ \E k \in RunLoops : ProcessExits(k)
<1>1. ASSUME NEW k \in RunLoops, ClientThread(k) \/ EnterNestedLoop(k) \/ TimeOut(k) \/ Crash(k) PROVE Goal
  <2>1. CASE HandlerReturns(k)
    BY <2>1 DEF HandlerReturns
  <2>2. CASE Crash(k) \/ TimeOut(k) \/ GiveUp(k) \/ ReturnReply(k)
    BY <2>2 DEF Crash, TimeOut, GiveUp, ReturnReply, SyncSendFails, PopPendingReply
  <2>3. CASE performWork(k)
    BY <2>3 DEF performWork, dispatchOneMessage, dispatchMessagesForConnection, dispatchConnectionDidClose
  <2>4. CASE SwapMessages(k) \/ DispatchNext(k) \/ EndDispatchMessages(k) \/ Sleep(k) \/ WakeUp(k)
    BY <2>4 DEF SwapMessages, DispatchNext, EndDispatchMessages, Sleep, WakeUp
  <2>5. CASE ExitNestedLoop(k) \/ EnterNestedLoop(k)
    BY <2>5 DEF ExitNestedLoop, EnterNestedLoop
  <2>6. QED BY <1>1, <2>1, <2>2, <2>3, <2>4, <2>5 DEF ClientThread
<1>2. ASSUME NEW d \in Ends, ConnectionQueue(d) PROVE Goal
  BY <1>2 DEF ConnectionQueue, wakeUpClientRunLoop
<1>3. ASSUME NEW d \in Ends, ClientDecides(d) PROVE Goal
  <2>1. CASE SendSync(d) \/ Invalidate(d) \/ \E ask \in BOOLEAN : SendAsync(d, ask)
    BY <2>1 DEF SendSync, Invalidate, SendAsync
  <2>2. CASE SendSyncFails(d)
    BY <2>2, LoopAssumption DEF SendSyncFails
  <2>3. QED BY <1>3, <2>1, <2>2 DEF ClientDecides
<1>4. ASSUME NEW t \in SecondaryThreads, SecondaryRegister(t) \/ SecondarySend(t) \/ SecondaryReturn(t) PROVE Goal
  BY <1>4 DEF SecondaryRegister, SecondarySend, SecondaryReturn
<1>5. CASE UNCHANGED vars
  BY <1>5 DEF vars
<1>6. QED BY <1>1, <1>2, <1>3, <1>4, <1>5 DEF Next

(* Which actions change m_incomingMessages.                                  *)
LEMMA IncomingChanges ==
  ASSUME Types, [Next]_vars
  PROVE  \/ UNCHANGED incoming
         \/ \E d \in Ends : ReceiveUnflagged(d)
         \/ \E k \in RunLoops : dispatchOneMessage(k) \/ ProcessExits(k)
<1> USE DEF endVars, queueVars, loopVars
<1> DEFINE Goal == \/ UNCHANGED incoming
                   \/ \E d \in Ends : ReceiveUnflagged(d)
                   \/ \E k \in RunLoops : dispatchOneMessage(k) \/ ProcessExits(k)
<1>1. ASSUME NEW k \in RunLoops, ClientThread(k) \/ EnterNestedLoop(k) \/ TimeOut(k) \/ Crash(k) PROVE Goal
  <2>1. CASE HandlerReturns(k)
    BY <2>1 DEF HandlerReturns
  <2>2. CASE Crash(k) \/ TimeOut(k) \/ GiveUp(k) \/ ReturnReply(k)
    BY <2>2 DEF Crash, TimeOut, GiveUp, ReturnReply, SyncSendFails, PopPendingReply
  <2>3. CASE performWork(k)
    BY <2>3 DEF performWork, dispatchMessagesForConnection, dispatchConnectionDidClose
  <2>4. CASE SwapMessages(k) \/ DispatchNext(k) \/ EndDispatchMessages(k) \/ Sleep(k) \/ WakeUp(k)
    BY <2>4 DEF SwapMessages, DispatchNext, EndDispatchMessages, Sleep, WakeUp
  <2>5. CASE ExitNestedLoop(k) \/ EnterNestedLoop(k)
    BY <2>5 DEF ExitNestedLoop, EnterNestedLoop
  <2>6. QED BY <1>1, <2>1, <2>2, <2>3, <2>4, <2>5 DEF ClientThread
<1>2. ASSUME NEW d \in Ends, ConnectionQueue(d) PROVE Goal
  BY <1>2 DEF ConnectionQueue, sendOutgoingMessages, PlatformInvalidate, ReceiveReply, ReceiveFlagged,
              ReceiveOtherReply, wakeUpClientRunLoop, connectionDidClose
<1>3. ASSUME NEW d \in Ends, ClientDecides(d) PROVE Goal
  <2>1. CASE SendSync(d) \/ Invalidate(d) \/ \E ask \in BOOLEAN : SendAsync(d, ask)
    BY <2>1 DEF SendSync, Invalidate, SendAsync
  <2>2. CASE SendSyncFails(d)
    BY <2>2, LoopAssumption DEF SendSyncFails
  <2>3. QED BY <1>3, <2>1, <2>2 DEF ClientDecides
<1>4. ASSUME NEW t \in SecondaryThreads, SecondaryRegister(t) \/ SecondarySend(t) \/ SecondaryReturn(t) PROVE Goal
  BY <1>4 DEF SecondaryRegister, SecondarySend, SecondaryReturn
<1>5. CASE UNCHANGED vars
  BY <1>5 DEF vars
<1>6. QED BY <1>1, <1>2, <1>3, <1>4, <1>5 DEF Next

(* Which actions close an end, and that a dead process runs nothing.         *)
LEMMA EndChanges ==
  ASSUME Types, [Next]_vars
  PROVE  \/ /\ UNCHANGED <<client, connected, shouldWait, alive>>
            /\ \A l \in RunLoops : ~alive[l] => stack'[l] = stack[l]
         \/ \E d \in Ends : connectionDidClose(d) \/ Invalidate(d) \/ PlatformInvalidate(d)
         \/ \E k \in RunLoops : dispatchConnectionDidClose(k) \/ ProcessExits(k)
<1> USE DEF endVars, queueVars, loopVars
<1> DEFINE Same == /\ UNCHANGED <<client, connected, shouldWait, alive>>
                   /\ \A l \in RunLoops : ~alive[l] => stack'[l] = stack[l]
           Goal == \/ Same
                   \/ \E d \in Ends : connectionDidClose(d) \/ Invalidate(d) \/ PlatformInvalidate(d)
                   \/ \E k \in RunLoops : dispatchConnectionDidClose(k) \/ ProcessExits(k)
<1>t. stack \in [RunLoops -> Seq(Frame)]
  BY DEF Types, LoopTypes
<1>0. ASSUME NEW k \in RunLoops, alive[k], NEW s, stack' = [stack EXCEPT ![k] = s],
             UNCHANGED <<client, connected, shouldWait, alive>>
      PROVE  Same
  BY <1>0, <1>t
<1>1. ASSUME NEW k \in RunLoops, ClientThread(k) \/ EnterNestedLoop(k) \/ TimeOut(k) \/ Crash(k) PROVE Goal
  <2>1. CASE HandlerReturns(k)
    BY <1>0, <2>1 DEF HandlerReturns
  <2>2. CASE Crash(k) \/ TimeOut(k) \/ GiveUp(k) \/ ReturnReply(k)
    BY <1>0, <2>2 DEF Crash, TimeOut, GiveUp, ReturnReply, SyncSendFails, PopPendingReply
  <2>3. CASE dispatchOneMessage(k)
    <3>1. alive[k] /\ UNCHANGED <<client, connected, shouldWait, alive>>
      BY <2>3 DEF dispatchOneMessage, NextFunction, InRunLoop
    <3>2. UNCHANGED stack \/ \E s : stack' = [stack EXCEPT ![k] = s]
      BY <2>3 DEF dispatchOneMessage, dispatchMessage
    <3>3. QED BY <1>0, <3>1, <3>2
  <2>4. CASE dispatchMessagesForConnection(k)
    BY <1>0, <2>4 DEF dispatchMessagesForConnection, NextFunction, InRunLoop
  <2>5. CASE DispatchNext(k)
    <3>1. alive[k] /\ UNCHANGED <<client, connected, shouldWait, alive>>
      BY <2>5 DEF DispatchNext
    <3>2. \E s : stack' = [stack EXCEPT ![k] = s]
      BY <2>5 DEF DispatchNext, dispatchMessage
    <3>3. QED BY <1>0, <3>1, <3>2
  <2>6. CASE SwapMessages(k) \/ EndDispatchMessages(k)
    BY <1>0, <2>6 DEF SwapMessages, EndDispatchMessages
  <2>7. CASE Sleep(k) \/ WakeUp(k)
    BY <1>0, <2>7 DEF Sleep, WakeUp
  <2>8. CASE ExitNestedLoop(k) \/ EnterNestedLoop(k)
    BY <1>0, <2>8 DEF ExitNestedLoop, EnterNestedLoop
  <2>9. QED BY <1>1, <2>1, <2>2, <2>3, <2>4, <2>5, <2>6, <2>7, <2>8 DEF ClientThread, performWork
<1>2. ASSUME NEW d \in Ends, ConnectionQueue(d) PROVE Goal
  BY <1>2 DEF ConnectionQueue, sendOutgoingMessages, ReceiveReply, ReceiveFlagged,
              ReceiveOtherReply, wakeUpClientRunLoop, ReceiveUnflagged
<1>3. ASSUME NEW d \in Ends, ClientDecides(d) PROVE Goal
  <2>1. CASE SendSync(d)
    BY <1>0, <2>1, LoopAssumption DEF SendSync, InClient
  <2>2. CASE \E ask \in BOOLEAN : SendAsync(d, ask)
    BY <2>2 DEF SendAsync
  <2>3. CASE SendSyncFails(d)
    BY <2>3, LoopAssumption DEF SendSyncFails
  <2>4. QED BY <1>3, <2>1, <2>2, <2>3 DEF ClientDecides
<1>4. ASSUME NEW t \in SecondaryThreads, SecondaryRegister(t) \/ SecondarySend(t) \/ SecondaryReturn(t) PROVE Goal
  BY <1>4 DEF SecondaryRegister, SecondarySend, SecondaryReturn
<1>5. CASE UNCHANGED vars
  BY <1>5 DEF vars
<1>6. QED BY <1>1, <1>2, <1>3, <1>4, <1>5 DEF Next

-----------------------------------------------------------------------------
(* How connections end when nobody calls invalidate(): an end is told of a   *)
(* close only after its peer is gone, and a dead process runs nothing.       *)
EndCloses(e) ==
    /\ ~alive[LoopOf[e]] => ~connected[e]
    /\ alive[LoopOf[e]] /\ ~connected[e] => ~shouldWait[e] /\ ~connected[PeerOf[e]]
    /\ connected[e] => client[e]
    /\ ~Has(queue[e], {"platformInvalidate"})
Closing ==
    /\ \A e \in Ends : EndCloses(e)
    /\ \A l \in RunLoops : ~alive[l] => stack[l] = <<>>

(* Then invalidate() and its part on the work queue never run.               *)
LEMMA NotInvalidated ==
  ASSUME Types, Closing, MayInvalidate = {}, NEW d \in Ends
  PROVE  ~Invalidate(d) /\ ~PlatformInvalidate(d)
<1>1. ~Invalidate(d)
  BY DEF Invalidate
<1>2. ASSUME PlatformInvalidate(d) PROVE FALSE
  <2>1. queue[d] # <<>> /\ Head(queue[d]) \in {"platformInvalidate"}
    BY <1>2 DEF PlatformInvalidate, NextQueued
  <2>2. queue[d] \in Seq(Queued)
    BY DEF Types, QueueTypes
  <2>3. Has(queue[d], {"platformInvalidate"})
    BY <2>1, <2>2, HasTail
  <2>4. QED BY <2>3 DEF Closing, EndCloses
<1>3. QED BY <1>1, <1>2

(* A step on the outgoing messages of one end.                               *)
OutMove(e) ==
    \/ outgoing'[e] = outgoing[e] /\ queue'[e] = queue[e]
    \/ \E m \in Message : /\ outgoing'[e] = Append(outgoing[e], m)
                          /\ queue'[e] = Append(queue[e], "sendOutgoingMessages")
    \/ sendOutgoingMessages(e)
    \/ ProcessExits(LoopOf[e])

(* Every step is one of these for every end.                                 *)
LEMMA OutMoves ==
  ASSUME Types, OwnConnections, Closing, MayInvalidate = {}, [Next]_vars, NEW e \in Ends
  PROVE  OutMove(e)
<1>t. outgoing \in [Ends -> Seq(Message)] /\ queue \in [Ends -> Seq(Queued)]
  BY DEF Types, QueueTypes
<1>1. CASE UNCHANGED <<outgoing, queue>>
  BY <1>1 DEF OutMove
<1>2. ASSUME NEW d \in Ends, sendOutgoingMessages(d) PROVE OutMove(e)
  <2>1. CASE d = e
    BY <1>2, <2>1 DEF OutMove
  <2>2. CASE d # e
    BY <1>2, <1>t, <2>2 DEF OutMove, sendOutgoingMessages
  <2>3. QED BY <2>1, <2>2
<1>3. ASSUME NEW d \in Ends, NEW m \in Message, sendMessage(d, m) PROVE OutMove(e)
  <2>1. CASE d = e
    BY <1>3, <1>t, <2>1 DEF OutMove, sendMessage
  <2>2. CASE d # e
    BY <1>3, <1>t, <2>2 DEF OutMove, sendMessage
  <2>3. QED BY <2>1, <2>2
<1>4. ASSUME NEW k \in RunLoops, ProcessExits(k) PROVE OutMove(e)
  <2>1. CASE LoopOf[e] = k
    BY <1>4, <2>1 DEF OutMove
  <2>2. CASE LoopOf[e] # k
    BY <1>4, <2>2 DEF OutMove, ProcessExits
  <2>3. QED BY <2>1, <2>2
<1>5. QED BY <1>1, <1>2, <1>3, <1>4, OutgoingChanges, NotInvalidated

(* No step queues platformInvalidate().                                      *)
LEMMA NeverInvalidated ==
  ASSUME Types, OwnConnections, Closing, MayInvalidate = {}, [Next]_vars, NEW e \in Ends
  PROVE  ~Has(queue'[e], {"platformInvalidate"})
<1>0. queue[e] \in Seq(Queued) /\ "sendOutgoingMessages" \in Queued
  BY DEF Types, QueueTypes, Queued
<1>1. ~Has(queue[e], {"platformInvalidate"})
  BY DEF Closing, EndCloses
<1>2. CASE queue'[e] = queue[e]
  BY <1>1, <1>2
<1>3. CASE queue'[e] = Append(queue[e], "sendOutgoingMessages")
  BY <1>0, <1>1, <1>3, HasAppend
<1>4. CASE sendOutgoingMessages(e)
  <2>1. queue[e] # <<>> /\ (queue'[e] = queue[e] \/ queue'[e] = Tail(queue[e]))
    BY <1>4 DEF sendOutgoingMessages, NextQueued, Types, QueueTypes
  <2>2. QED BY <1>0, <1>1, <2>1, HasTail
<1>5. CASE ProcessExits(LoopOf[e])
  <2>1. queue'[e] = <<>>
    BY <1>5 DEF ProcessExits
  <2>2. QED BY <2>1, HasEmpty
<1>6. QED BY <1>2, <1>3, <1>4, <1>5, OutMoves DEF OutMove

(* Every step keeps Closing, and no end opens again.                         *)
LEMMA ClosingStep ==
  ASSUME Types, OwnConnections, Closing, Schedule, MayInvalidate = {}, [Next]_vars
  PROVE  Closing' /\ \A e \in Ends : connected'[e] => connected[e]
<1> DEFINE Goal == Closing' /\ \A e \in Ends : connected'[e] => connected[e]
<1>t. /\ client \in [Ends -> BOOLEAN] /\ connected \in [Ends -> BOOLEAN] /\ shouldWait \in [Ends -> BOOLEAN]
      /\ alive \in [RunLoops -> BOOLEAN] /\ stack \in [RunLoops -> Seq(Frame)]
      /\ \A e \in Ends : LoopOf[e] \in RunLoops /\ PeerOf[e] \in Ends /\ PeerOf[PeerOf[e]] = e /\ PeerOf[e] # e
  BY LoopAssumption, PeerAssumption DEF Types, FlagTypes, LoopTypes
<1>q. \A e \in Ends : ~Has(queue'[e], {"platformInvalidate"})
  BY NeverInvalidated
<1>c. /\ \A e \in Ends : /\ ~alive[LoopOf[e]] => ~connected[e]
                         /\ alive[LoopOf[e]] /\ ~connected[e] => ~shouldWait[e] /\ ~connected[PeerOf[e]]
                         /\ connected[e] => client[e]
      /\ \A l \in RunLoops : ~alive[l] => stack[l] = <<>>
  BY DEF Closing, EndCloses
<1>1. CASE /\ UNCHANGED <<client, connected, shouldWait, alive>>
           /\ \A l \in RunLoops : ~alive[l] => stack'[l] = stack[l]
  BY <1>1, <1>q, <1>c DEF Closing, EndCloses
<1>2. ASSUME NEW d \in Ends, connectionDidClose(d) PROVE Goal
  <2>1. /\ UNCHANGED <<client, alive, stack>> /\ ClosedByPeer(d)
        /\ connected' = [connected EXCEPT ![d] = FALSE] /\ shouldWait' = [shouldWait EXCEPT ![d] = FALSE]
    BY <1>2 DEF connectionDidClose
  <2>2. ~connected[PeerOf[d]]
    BY <1>c, <1>t, <2>1 DEF ClosedByPeer
  <2>3. QED BY <1>t, <1>q, <1>c, <2>1, <2>2 DEF Closing, EndCloses
<1>3. ASSUME NEW k \in RunLoops, dispatchConnectionDidClose(k) PROVE Goal
  <2>0. PICK d : d = Head(functions[k]).conn
    OBVIOUS
  <2>1. UNCHANGED <<connected, shouldWait, alive, stack>> /\ client' = [client EXCEPT ![d] = FALSE]
    BY <1>3, <2>0 DEF dispatchConnectionDidClose
  <2>2. /\ d \in Ends /\ LoopOf[d] = k /\ functions[k] \in Seq(Function) /\ functions[k] # <<>>
        /\ Head(functions[k]) \in Function /\ Head(functions[k]).fn = "dispatchConnectionDidClose"
    BY <1>3, <2>0, TakenFunction DEF dispatchConnectionDidClose
  <2>3. Head(functions[k]) \in {DidClose(d)}
    BY <2>0, <2>2, FunctionForms
  <2>4. Has(functions[k], {DidClose(d)})
    BY <2>2, <2>3, HasTail
  <2>5. ~connected[d]
    BY <2>2, <2>4 DEF Schedule, ScheduleAt, ClosesLast
  <2>6. QED BY <1>t, <1>q, <1>c, <2>1, <2>5 DEF Closing, EndCloses
<1>4. ASSUME NEW k \in RunLoops, ProcessExits(k) PROVE Goal
  <2>1. /\ alive' = [alive EXCEPT ![k] = FALSE] /\ stack' = [stack EXCEPT ![k] = <<>>] /\ shouldWait' = shouldWait
        /\ client' = [e \in Ends |-> IF LoopOf[e] = k THEN FALSE ELSE client[e]]
        /\ connected' = [e \in Ends |-> IF LoopOf[e] = k THEN FALSE ELSE connected[e]]
    BY <1>4 DEF ProcessExits
  <2>2. QED BY <1>t, <1>q, <1>c, <2>1 DEF Closing, EndCloses
<1>5. QED BY <1>1, <1>2, <1>3, <1>4, EndChanges, NotInvalidated

-----------------------------------------------------------------------------
(* Both ends of the connection of e are open.                                *)
Whole(e) == connected[e] /\ connected[PeerOf[e]]
(* What an open end still has to write, a queued function will write, unless *)
(* the socket buffer was full.                                               *)
Flushed == \A e \in Ends : Whole(e) /\ outgoing[e] # <<>> => queue[e] # <<>>

(* What a write does when the socket buffer has room.                        *)
LEMMA WriteFacts ==
  ASSUME Types, SocketsHaveRoom, NEW e \in Ends, Whole(e), sendOutgoingMessages(e), outgoing[e] # <<>>
  PROVE  /\ outgoing'[e] = Tail(outgoing[e]) /\ queue[e] # <<>>
         /\ wire'[PeerOf[e]] = Append(wire[PeerOf[e]], Head(outgoing[e]))
         /\ Len(outgoing[e]) > 1 => queue'[e] = queue[e]
<1>t. outgoing \in [Ends -> Seq(Message)] /\ queue \in [Ends -> Seq(Queued)] /\ wire \in [Ends -> Seq(Message)]
  BY DEF Types, QueueTypes
<1>1. PeerOf[e] \in Ends /\ SocketTakes(PeerOf[e]) /\ connected[e]
  BY PeerAssumption DEF SocketsHaveRoom, SocketTakes, Whole
<1>2. QED BY <1>t, <1>1 DEF sendOutgoingMessages, NextQueued

(* While a socket has room, a message that is not written yet has a function *)
(* on the work queue that will write it.                                     *)
LEMMA FlushedStep ==
  ASSUME Types, OwnConnections, Closing, Schedule, Flushed, SocketsHaveRoom, MayInvalidate = {}, [Next]_vars
  PROVE  Flushed'
<1>1. SUFFICES ASSUME NEW e \in Ends, Whole(e)', outgoing'[e] # <<>> PROVE queue'[e] # <<>>
  BY DEF Flushed
<1>2. Whole(e) /\ PeerOf[e] \in Ends
  BY <1>1, ClosingStep, PeerAssumption DEF Whole
<1>t. queue[e] \in Seq(Queued) /\ outgoing[e] \in Seq(Message) /\ "sendOutgoingMessages" \in Queued
  BY DEF Types, QueueTypes, Queued
<1>3. CASE outgoing'[e] = outgoing[e] /\ queue'[e] = queue[e]
  BY <1>1, <1>2, <1>3 DEF Flushed
<1>4. CASE queue'[e] = Append(queue[e], "sendOutgoingMessages")
  <2>1. Len(queue'[e]) = Len(queue[e]) + 1 /\ Len(queue[e]) \in Nat
    BY <1>4, <1>t, AppendFacts
  <2>2. Len(<<>>) = 0
    BY EmptyFacts
  <2>3. QED BY <2>1, <2>2
<1>5. CASE sendOutgoingMessages(e)
  <2>1. CASE outgoing[e] = <<>>
    BY <1>1, <1>5, <2>1 DEF sendOutgoingMessages, Types, QueueTypes
  <2>2. CASE outgoing[e] # <<>>
    <3>1. /\ outgoing'[e] = Tail(outgoing[e]) /\ queue[e] # <<>>
          /\ Len(outgoing[e]) > 1 => queue'[e] = queue[e]
      BY <1>2, <1>5, <2>2, WriteFacts
    <3>2. Len(outgoing[e]) > 1
      <4>1. /\ Len(Tail(outgoing[e])) = Len(outgoing[e]) - 1 /\ Len(outgoing[e]) \in Nat
            /\ Tail(outgoing[e]) \in Seq(Message)
        BY <1>t, <2>2, TailFacts
      <4>2. Tail(outgoing[e]) # <<>>
        BY <1>1, <3>1
      <4>3. Len(Tail(outgoing[e])) > 0
        BY <4>1, <4>2, TailFacts
      <4>4. QED BY <4>1, <4>3
    <3>3. QED BY <3>1, <3>2
  <2>3. QED BY <2>1, <2>2
<1>6. CASE ProcessExits(LoopOf[e])
  BY <1>1, <1>6 DEF ProcessExits
<1>7. QED BY <1>3, <1>4, <1>5, <1>6, OutMoves DEF OutMove

(* What is not dispatched while its receiver waits is not flagged.           *)
FlaggedMessage == {m \in Message : m.flagged}
ReceivedUnflagged == \A e \in Ends : ~Has(incoming[e], FlaggedMessage)

(* processIncomingMessage() hands flagged messages to SyncMessageState.      *)
LEMMA ReceivedUnflaggedStep ==
  ASSUME Types, OwnConnections, ReceivedUnflagged, [Next]_vars
  PROVE  ReceivedUnflagged'
<1>1. SUFFICES ASSUME NEW e \in Ends PROVE ~Has(incoming'[e], FlaggedMessage)
  BY DEF ReceivedUnflagged
<1>2. ~Has(incoming[e], FlaggedMessage) /\ incoming \in [Ends -> Seq(Message)] /\ wire \in [Ends -> Seq(Message)]
  BY DEF ReceivedUnflagged, Types, QueueTypes
<1>3. CASE UNCHANGED incoming
  BY <1>2, <1>3
<1>4. ASSUME NEW d \in Ends, ReceiveUnflagged(d) PROVE ~Has(incoming'[e], FlaggedMessage)
  <2>0. PICK m : m = Head(wire[d])
    OBVIOUS
  <2>1. m \in Message /\ m \notin FlaggedMessage
    BY <1>2, <1>4, <2>0, TailFacts DEF ReceiveUnflagged, Receive, FlaggedMessage
  <2>2. incoming'[e] = incoming[e] \/ incoming'[e] = Append(incoming[e], m)
    BY <1>2, <1>4, <2>0 DEF ReceiveUnflagged, AppendIncoming
  <2>3. QED BY <1>2, <2>1, <2>2, HasAppend
<1>5. ASSUME NEW k \in RunLoops, dispatchOneMessage(k) PROVE ~Has(incoming'[e], FlaggedMessage)
  <2>1. incoming'[e] = incoming[e] \/ (incoming[e] # <<>> /\ incoming'[e] = Tail(incoming[e]))
    BY <1>2, <1>5 DEF dispatchOneMessage
  <2>2. QED BY <1>2, <2>1, HasTail
<1>6. ASSUME NEW k \in RunLoops, ProcessExits(k) PROVE ~Has(incoming'[e], FlaggedMessage)
  <2>1. incoming'[e] = incoming[e] \/ incoming'[e] = <<>>
    BY <1>6 DEF ProcessExits
  <2>2. QED BY <1>2, <2>1, HasEmpty
<1>7. QED BY <1>3, <1>4, <1>5, <1>6, IncomingChanges

-----------------------------------------------------------------------------
(* Requests and the frames below them.                                       *)
AllCovered == \A l \in RunLoops : Covered(stack[l])
Beneath(s, i, S) == \E k \in DOMAIN s : k < i /\ s[k] \in S
FlaggedBelow(s, i) ==
    LET f == s[i]
    IN  f.conn \notin OnlyMarked \/ Beneath(s, i, MarkedFrame(f.conn)) => f.msg.flagged
WaitsFlagged ==
    \A l \in RunLoops : \A i \in DOMAIN stack[l] : Waits(stack[l][i]) =>
        /\ stack[l][i].msg.serial > 0 /\ MaxSync[stack[l][i].conn] > 0
        /\ FlaggedBelow(stack[l], i)

(* Every step keeps dispatchMessages() covered.                              *)
LEMMA AllCoveredStep ==
  ASSUME Types, OwnConnections, Shallow, HeldFlagged, MayNest = {}, AllCovered, [Next]_vars
  PROVE  AllCovered'
<1>1. SUFFICES ASSUME NEW l \in RunLoops PROVE Covered(stack'[l])
  BY DEF AllCovered
<1>2. stack[l] \in Seq(Frame) /\ StackMove(l, stack[l], stack'[l]) /\ Covered(stack[l])
  BY StackStep DEF Types, LoopTypes, AllCovered
<1>3. QED BY <1>2, MoveCovers

(* A wait after a step: an old one with the frames it had below it, or that  *)
(* of a new request.                                                         *)
LEMMA WaitMoves ==
  ASSUME Types, OwnConnections, Shallow, HeldFlagged, MayNest = {}, [Next]_vars,
         NEW l \in RunLoops, NEW i \in DOMAIN stack'[l], Waits(stack'[l][i])
  PROVE  /\ \A S : Beneath(stack'[l], i, S) => Has(stack[l], S)
         /\ \/ /\ i \in DOMAIN stack[l] /\ SameWait(stack[l][i], stack'[l][i])
               /\ \A S : Beneath(stack'[l], i, S) => Beneath(stack[l], i, S)
            \/ \E e \in Ends : /\ LoopOf[e] = l /\ SendSync(e)
                               /\ stack'[l][i].conn = e /\ stack'[l][i].msg = NewRequest(e)
<1>1. stack[l] \in Seq(Frame) /\ StackMove(l, stack[l], stack'[l])
  BY StackStep DEF Types, LoopTypes
<1>2. /\ \A j \in DOMAIN stack'[l] : j < i => j \in DOMAIN stack[l] /\ stack'[l][j] = stack[l][j]
      /\ OldOrNew(l, stack[l], stack'[l], i)
  BY <1>1, MoveKeeps
<1>3. \A S : Beneath(stack'[l], i, S) => Has(stack[l], S) /\ Beneath(stack[l], i, S)
  BY <1>2 DEF Beneath, Has
<1>4. QED BY <1>2, <1>3 DEF OldOrNew

(* sendSync() flags a request from an end that flags all it sends, and one   *)
(* sent inside the handler of a flagged message of its connection.           *)
LEMMA WaitsFlaggedStep ==
  ASSUME Types, OwnConnections, Shallow, HeldFlagged, MarkedIsCount, MayNest = {}, WaitsFlagged, [Next]_vars
  PROVE  WaitsFlagged'
<1>1. SUFFICES ASSUME NEW l \in RunLoops, NEW i \in DOMAIN stack'[l], Waits(stack'[l][i])
               PROVE  /\ stack'[l][i].msg.serial > 0 /\ MaxSync[stack'[l][i].conn] > 0
                      /\ FlaggedBelow(stack'[l], i)
  BY DEF WaitsFlagged, FlaggedBelow, Beneath, MarkedFrame, Waits
<1>2. CASE /\ i \in DOMAIN stack[l] /\ SameWait(stack[l][i], stack'[l][i])
           /\ \A S : Beneath(stack'[l], i, S) => Beneath(stack[l], i, S)
  <2>1. Waits(stack[l][i]) /\ stack'[l][i].conn = stack[l][i].conn /\ stack'[l][i].msg = stack[l][i].msg
    BY <1>2 DEF SameWait
  <2>2. /\ stack[l][i].msg.serial > 0 /\ MaxSync[stack[l][i].conn] > 0
        /\ FlaggedBelow(stack[l], i)
    BY <1>2, <2>1 DEF WaitsFlagged
  <2>3. QED BY <1>2, <2>1, <2>2 DEF FlaggedBelow
<1>3. ASSUME NEW e \in Ends, LoopOf[e] = l, SendSync(e), stack'[l][i].conn = e, stack'[l][i].msg = NewRequest(e)
      PROVE  /\ stack'[l][i].msg.serial > 0 /\ MaxSync[stack'[l][i].conn] > 0
             /\ FlaggedBelow(stack'[l], i)
  <2>1. serial[e] \in Nat /\ syncRequestID[e] \in Nat /\ MaxSync[e] \in Nat /\ stack[l] \in Seq(Frame)
    BY BoundsAssumption DEF Types, CountTypes, LoopTypes
  <2>2. NewRequest(e).serial = serial[e] + 1 /\ NewRequest(e).flagged = Flagged(e)
    BY DEF NewRequest
  <2>3. syncRequestID[e] < MaxSync[e]
    BY <1>3 DEF SendSync
  <2>4. ASSUME Beneath(stack'[l], i, MarkedFrame(e)) PROVE marked[e] > 0
    <3>1. Has(stack[l], MarkedFrame(e))
      BY <1>1, <2>4, WaitMoves
    <3>2. Count(stack[l], MarkedFrame(e)) > 0
      BY <2>1, <3>1, HasCount
    <3>3. QED BY <1>3, <3>2 DEF MarkedIsCount
  <2>5. FlaggedBelow(stack'[l], i)
    BY <1>3, <2>2, <2>4 DEF FlaggedBelow, Flagged
  <2>6. QED BY <1>3, <2>1, <2>2, <2>3, <2>5
<1>4. QED BY <1>1, <1>2, <1>3, WaitMoves

(* The frames of end p's process that carry request m.                       *)
Item(p, m) == [conn |-> p, msg |-> m]
Carrying(p, m) ==
    {f \in Frame : \/ f.at = "handle" /\ f.conn = p /\ f.msg = m
                   \/ Has(f.todo, {Item(p, m)})
                   \/ Has(f.putBack, {Item(p, m)})}
(* Two processes never each wait on top of the other's request.              *)
Crossed(e, i, j) ==
    LET p == PeerOf[e]
        s == stack[LoopOf[e]]
        t == stack[LoopOf[p]]
    IN  /\ Waits(s[i]) /\ s[i].conn = e /\ Waits(t[j]) /\ t[j].conn = p
        /\ Beneath(t, j, Carrying(p, s[i].msg)) /\ Beneath(s, i, Carrying(e, t[j].msg))
Uncrossed ==
    \A e \in Ends : \A i \in DOMAIN stack[LoopOf[e]], j \in DOMAIN stack[LoopOf[PeerOf[e]]] : ~Crossed(e, i, j)

(* A request is carried nowhere before it is sent.                           *)
LEMMA NotYetCarried ==
  ASSUME Types, UnderWayBounded, NEW e \in Ends
  PROVE  ~Has(stack[LoopOf[PeerOf[e]]], Carrying(PeerOf[e], NewRequest(e)))
<1>0. PICK p, m : p = PeerOf[e] /\ m = NewRequest(e)
  OBVIOUS
<1>1. SUFFICES ASSUME Has(stack[LoopOf[p]], Carrying(p, m)) PROVE FALSE
  BY <1>0
<1>2. /\ p \in Ends /\ m \in Message /\ m.type = "sync" /\ m.id = syncRequestID[e] + 1
      /\ m.id \in Nat /\ m.serial \in Nat
  BY <1>0, PeerAssumption, AskedFrames DEF NewRequest, Message
<1>3. m \in Request(m.id, m.serial) /\ Item(p, m) \in RequestAt(p, m.id, m.serial)
  BY <1>2 DEF Request, RequestAt, Item, ConnectionAndMessage
<1>4. \A s : Has(s, {Item(p, m)}) => Has(s, RequestAt(p, m.id, m.serial))
  BY <1>3 DEF Has
<1>5. \A f \in Carrying(p, m) : f \in Holding(p, m.id, m.serial)
  BY <1>3, <1>4 DEF Carrying, Holding
<1>6. Has(stack[LoopOf[p]], Holding(p, m.id, m.serial))
  BY <1>1, <1>5 DEF Has
<1>7. UnderWay(e, m.id, m.serial)
  BY <1>0, <1>6 DEF UnderWay
<1>8. m.id <= syncRequestID[e] /\ syncRequestID[e] \in Nat
  BY <1>2, <1>7 DEF UnderWayBounded, Types, CountTypes
<1>9. QED BY <1>2, <1>8

(* No step makes two requests of a connection wait above each other: the     *)
(* later one was sent when the earlier one's wait was already there.         *)
LEMMA UncrossedStep ==
  ASSUME Types, OwnConnections, Shallow, HeldFlagged, UnderWayBounded, MayNest = {}, Uncrossed, [Next]_vars
  PROVE  Uncrossed'
<1>1. SUFFICES ASSUME NEW e \in Ends, NEW i \in DOMAIN stack'[LoopOf[e]], NEW j \in DOMAIN stack'[LoopOf[PeerOf[e]]],
                      Crossed(e, i, j)'
               PROVE  FALSE
  BY DEF Uncrossed
<1>2. PICK p, k, l, s, t, u, v : /\ p = PeerOf[e] /\ k = LoopOf[e] /\ l = LoopOf[p] /\ s = stack[k] /\ t = stack[l]
                                 /\ u = stack'[k] /\ v = stack'[l]
  OBVIOUS
<1>3. p \in Ends /\ k \in RunLoops /\ l \in RunLoops /\ e = PeerOf[p]
  BY <1>2, PeerAssumption, LoopAssumption
<1>4. /\ Waits(u[i]) /\ u[i].conn = e /\ Waits(v[j]) /\ v[j].conn = p
      /\ Beneath(v, j, Carrying(p, u[i].msg)) /\ Beneath(u, i, Carrying(e, v[j].msg))
  BY <1>1, <1>2 DEF Crossed, Waits, Beneath, Carrying
<1>5. i \in DOMAIN u /\ j \in DOMAIN v
  BY <1>1, <1>2
<1>6. Has(t, Carrying(p, u[i].msg)) /\ Has(s, Carrying(e, v[j].msg))
  BY <1>2, <1>3, <1>4, <1>5, WaitMoves
<1>7. u[i].msg # NewRequest(e) /\ v[j].msg # NewRequest(p)
  BY <1>2, <1>3, <1>6, NotYetCarried
<1>8. i \in DOMAIN s /\ SameWait(s[i], u[i]) /\ Beneath(s, i, Carrying(e, v[j].msg))
  <2>1. i \in DOMAIN stack'[k] /\ Waits(stack'[k][i])
    BY <1>2, <1>4, <1>5
  <2>2. \/ /\ i \in DOMAIN stack[k] /\ SameWait(stack[k][i], stack'[k][i])
           /\ \A S : Beneath(stack'[k], i, S) => Beneath(stack[k], i, S)
        \/ \E d \in Ends : stack'[k][i].conn = d /\ stack'[k][i].msg = NewRequest(d)
    BY <1>3, <2>1, WaitMoves, ZenonT(60)
  <2>3. QED BY <1>2, <1>4, <1>7, <2>2
<1>9. j \in DOMAIN t /\ SameWait(t[j], v[j]) /\ Beneath(t, j, Carrying(p, u[i].msg))
  <2>1. j \in DOMAIN stack'[l] /\ Waits(stack'[l][j])
    BY <1>2, <1>4, <1>5
  <2>2. \/ /\ j \in DOMAIN stack[l] /\ SameWait(stack[l][j], stack'[l][j])
           /\ \A S : Beneath(stack'[l], j, S) => Beneath(stack[l], j, S)
        \/ \E d \in Ends : stack'[l][j].conn = d /\ stack'[l][j].msg = NewRequest(d)
    BY <1>3, <2>1, WaitMoves, ZenonT(60)
  <2>3. QED BY <1>2, <1>4, <1>7, <2>2
<1>10. Crossed(e, i, j)
  BY <1>2, <1>4, <1>8, <1>9 DEF Crossed, SameWait
<1>11. QED BY <1>2, <1>8, <1>9, <1>10 DEF Uncrossed

-----------------------------------------------------------------------------
(* No request is lost between two open ends.                                 *)
ReplyTo(m) == [m EXCEPT !.type = "reply", !.flagged = FALSE]
Held(p, m) ==
    Has(toDispatch[LoopOf[p]], {Item(p, m)}) \/ Has(stack[LoopOf[p]], Carrying(p, m))
InTransit(e, m) ==
    LET p == PeerOf[e]
    IN  \/ Has(outgoing[e], {m})
        \/ Has(wire[p], {m})
        \/ Has(incoming[p], {m})
        \/ Held(p, m)
        \/ Has(outgoing[p], {ReplyTo(m)})
        \/ Has(wire[e], {ReplyTo(m)})

(* A message that waits to be written stays, or reaches the socket.          *)
LEMMA OutKept ==
  ASSUME Types, OwnConnections, Closing, Schedule, SocketsHaveRoom, MayInvalidate = {}, [Next]_vars,
         NEW e \in Ends, connected'[e], connected'[PeerOf[e]], NEW x \in Message, Has(outgoing[e], {x})
  PROVE  Has(outgoing'[e], {x}) \/ Has(wire'[PeerOf[e]], {x})
<1>t. /\ outgoing[e] \in Seq(Message) /\ wire[PeerOf[e]] \in Seq(Message) /\ PeerOf[e] \in Ends
      /\ outgoing[e] # <<>>
  BY PeerAssumption, HasEmpty DEF Types, QueueTypes
<1>1. CASE outgoing'[e] = outgoing[e]
  BY <1>1
<1>2. ASSUME NEW m \in Message, outgoing'[e] = Append(outgoing[e], m) PROVE Has(outgoing'[e], {x})
  BY <1>2, <1>t, HasMore
<1>3. CASE sendOutgoingMessages(e)
  <2>1. Whole(e)
    BY <1>t, ClosingStep DEF Whole
  <2>2. /\ outgoing'[e] = Tail(outgoing[e])
        /\ wire'[PeerOf[e]] = Append(wire[PeerOf[e]], Head(outgoing[e])) /\ Head(outgoing[e]) \in Message
    BY <1>3, <1>t, <2>1, WriteFacts, TailFacts
  <2>3. CASE Head(outgoing[e]) = x
    BY <1>t, <2>2, <2>3, HasMore
  <2>4. CASE Head(outgoing[e]) # x
    BY <1>t, <2>2, <2>4, HasRest
  <2>5. QED BY <2>3, <2>4
<1>4. ~ProcessExits(LoopOf[e])
  BY DEF ProcessExits
<1>5. QED BY <1>1, <1>2, <1>3, <1>4, OutMoves DEF OutMove

(* The work queue's thread of end d takes x from its socket.                 *)
Receives(d, x) ==
    /\ ReceiveReply(d) \/ ReceiveOtherReply(d) \/ ReceiveFlagged(d) \/ ReceiveUnflagged(d)
    /\ wire[d] # <<>> /\ Head(wire[d]) = x

(* What a socket holds stays there until it is received.                     *)
LEMMA WireKept ==
  ASSUME Types, OwnConnections, Closing, MayInvalidate = {}, [Next]_vars,
         NEW e \in Ends, connected'[e], NEW x \in Message, Has(wire[e], {x})
  PROVE  Has(wire'[e], {x}) \/ Receives(e, x)
<1>t. /\ wire \in [Ends -> Seq(Message)] /\ outgoing \in [Ends -> Seq(Message)] /\ connected \in [Ends -> BOOLEAN]
      /\ PeerOf \in [Ends -> Ends]
  BY PeerAssumption DEF Types, QueueTypes, FlagTypes
<1>1. CASE UNCHANGED wire
  BY <1>1
<1>2. ASSUME NEW d \in Ends, sendOutgoingMessages(d) PROVE Has(wire'[e], {x})
  <2>0. PICK m : m = Head(outgoing[d])
    OBVIOUS
  <2>1. wire'[e] = wire[e] \/ (outgoing[d] # <<>> /\ wire'[e] = Append(wire[e], m))
    BY <1>2, <1>t, <2>0 DEF sendOutgoingMessages
  <2>2. outgoing[d] # <<>> => m \in Message
    BY <1>t, <2>0, TailFacts
  <2>3. wire[e] \in Seq(Message)
    BY <1>t
  <2>4. m \in Message => Has(Append(wire[e], m), {x})
    BY <2>3, HasMore
  <2>5. QED BY <2>1, <2>2, <2>4
<1>3. ASSUME NEW d \in Ends, connectionDidClose(d) PROVE Has(wire'[e], {x})
  BY <1>3, <1>t DEF connectionDidClose
<1>4. ASSUME NEW d \in Ends, ReceiveReply(d) \/ ReceiveOtherReply(d) \/ ReceiveFlagged(d) \/ ReceiveUnflagged(d)
      PROVE  Has(wire'[e], {x}) \/ Receives(e, x)
  <2>1. wire[d] # <<>> /\ wire' = [wire EXCEPT ![d] = Tail(wire[d])]
    BY <1>4 DEF ReceiveReply, ReceiveOtherReply, ReceiveFlagged, ReceiveUnflagged, Receive
  <2>2. CASE d # e
    BY <1>t, <2>1, <2>2
  <2>3. CASE d = e /\ Head(wire[e]) = x
    BY <1>4, <2>1, <2>3 DEF Receives
  <2>4. CASE d = e /\ Head(wire[e]) # x
    BY <1>t, <2>1, <2>4, HasRest
  <2>5. QED BY <2>2, <2>3, <2>4
<1>5. ASSUME NEW k \in RunLoops, ProcessExits(k) PROVE Has(wire'[e], {x})
  BY <1>5 DEF ProcessExits
<1>6. QED BY <1>1, <1>2, <1>3, <1>4, <1>5, WireChanges, NotInvalidated

(* A request that is received is queued.                                     *)
LEMMA RequestReceived ==
  ASSUME Types, NEW p \in Ends, NEW m \in Message, m.type = "sync", Receives(p, m)
  PROVE  Has(incoming'[p], {m}) \/ Has(toDispatch'[LoopOf[p]], {Item(p, m)})
<1>t. /\ incoming \in [Ends -> Seq(Message)] /\ toDispatch \in [RunLoops -> Seq(ConnectionAndMessage)]
      /\ LoopOf[p] \in RunLoops /\ Item(p, m) \in ConnectionAndMessage
  BY LoopAssumption DEF Types, QueueTypes, LoopTypes, Item, ConnectionAndMessage
<1>1. ~ReceiveReply(p) /\ ~ReceiveOtherReply(p)
  BY DEF Receives, ReceiveReply, ReceiveOtherReply
<1>2. CASE ReceiveFlagged(p)
  <2>1. toDispatch'[LoopOf[p]] = Append(toDispatch[LoopOf[p]], Item(p, m))
    BY <1>2, <1>t DEF ReceiveFlagged, Receives, Item
  <2>2. QED BY <1>t, <2>1, HasMore
<1>3. CASE ReceiveUnflagged(p)
  <2>1. incoming'[p] = Append(incoming[p], m)
    BY <1>3, <1>t DEF ReceiveUnflagged, AppendIncoming, Receives
  <2>2. QED BY <1>t, <2>1, HasMore
<1>4. QED BY <1>1, <1>2, <1>3 DEF Receives

(* The frame of a request's handler carries it.                              *)
LEMMA HandlerCarries ==
  ASSUME NEW p \in Ends, NEW m \in Message, NEW s \in Seq(Frame)
  PROVE  NewFrame("handle", p, m) \in Frame /\ Has(Append(s, NewFrame("handle", p, m)), Carrying(p, m))
<1>1. PICK f : f = NewFrame("handle", p, m)
  OBVIOUS
<1>2. f \in Frame /\ f.at = "handle" /\ f.conn = p /\ f.msg = m
  BY <1>1, NewFrameType DEF NewFrame
<1>3. f \in Carrying(p, m)
  BY <1>2 DEF Carrying
<1>4. QED BY <1>1, <1>2, <1>3, HasMore

(* A message that was received stays until its handler runs.                 *)
LEMMA IncomingKept ==
  ASSUME Types, OwnConnections, [Next]_vars, NEW p \in Ends, client[p], connected'[p],
         NEW m \in Message, Has(incoming[p], {m})
  PROVE  Has(incoming'[p], {m}) \/ Has(stack'[LoopOf[p]], Carrying(p, m))
<1>t. /\ incoming \in [Ends -> Seq(Message)] /\ wire \in [Ends -> Seq(Message)]
      /\ stack \in [RunLoops -> Seq(Frame)]
  BY DEF Types, QueueTypes, LoopTypes
<1>1. CASE UNCHANGED incoming
  BY <1>1
<1>2. ASSUME NEW d \in Ends, ReceiveUnflagged(d) PROVE Has(incoming'[p], {m})
  <2>0. PICK x : x = Head(wire[d])
    OBVIOUS
  <2>1. x \in Message
    BY <1>t, <1>2, <2>0, TailFacts DEF ReceiveUnflagged, Receive
  <2>2. incoming'[p] = incoming[p] \/ incoming'[p] = Append(incoming[p], x)
    BY <1>t, <1>2, <2>0 DEF ReceiveUnflagged, AppendIncoming
  <2>3. incoming[p] \in Seq(Message)
    BY <1>t
  <2>4. Has(Append(incoming[p], x), {m})
    BY <2>1, <2>3, HasMore
  <2>5. QED BY <2>2, <2>4
<1>3. ASSUME NEW k \in RunLoops, dispatchOneMessage(k)
      PROVE  Has(incoming'[p], {m}) \/ Has(stack'[LoopOf[p]], Carrying(p, m))
  <2>0. PICK d : d = Head(functions[k]).conn
    OBVIOUS
  <2>1. d \in Ends /\ LoopOf[d] = k
    BY <1>3, <2>0, TakenFunction DEF dispatchOneMessage
  <2>2. CASE d # p \/ incoming[d] = <<>>
    BY <1>t, <1>3, <2>0, <2>1, <2>2 DEF dispatchOneMessage
  <2>3. CASE d = p /\ incoming[d] # <<>> /\ Head(incoming[p]) # m
    <3>1. incoming'[p] = Tail(incoming[p])
      BY <1>t, <1>3, <2>0, <2>3 DEF dispatchOneMessage
    <3>2. QED BY <1>t, <2>3, <3>1, HasRest
  <2>4. CASE d = p /\ incoming[d] # <<>> /\ Head(incoming[p]) = m
    <3>1. dispatchMessage(k, p, m, stack[k])
      BY <1>3, <2>0, <2>4 DEF dispatchOneMessage
    <3>2. stack' = [stack EXCEPT ![k] = Append(stack[k], NewFrame("handle", p, m))]
      BY <3>1 DEF dispatchMessage
    <3>3. stack'[k] = Append(stack[k], NewFrame("handle", p, m)) /\ stack[k] \in Seq(Frame)
      BY <1>t, <3>2
    <3>4. QED BY <2>1, <2>4, <3>3, HandlerCarries
  <2>5. QED BY <2>2, <2>3, <2>4
<1>4. ASSUME NEW k \in RunLoops, ProcessExits(k) PROVE Has(incoming'[p], {m})
  BY <1>4 DEF ProcessExits
<1>5. QED BY <1>1, <1>2, <1>3, <1>4, IncomingChanges

(* What a process holds of a request stays there, or goes on.                *)
LEMMA NotCarrying ==
  ASSUME NEW l, NEW f \in OwnFrame(l), NEW p, NEW m, f \in Carrying(p, m)
  PROVE  /\ f.at \in {"handle", "dispatch"}
         /\ f.at = "handle" => f.conn = p /\ f.msg = m
         /\ f.at = "dispatch" => Has(f.todo, {Item(p, m)}) \/ Has(f.putBack, {Item(p, m)})
<1>1. f \in Frame /\ (f.at # "dispatch" => f.todo = <<>> /\ f.putBack = <<>>)
  BY DEF OwnFrame
<1>2. f.at # "dispatch" => ~Has(f.todo, {Item(p, m)}) /\ ~Has(f.putBack, {Item(p, m)})
  BY <1>1, HasEmpty
<1>3. QED BY <1>1, <1>2 DEF Carrying

(* A frame that waits carries nothing itself.                                *)
LEMMA CarriedBelow ==
  ASSUME NEW l, NEW s \in Seq(OwnFrame(l)), s \in Seq(Frame), s # <<>>, NEW p, NEW m, Has(s, Carrying(p, m)),
         s[Len(s)].at \notin {"handle", "dispatch"}
  PROVE  Has(Front(s), Carrying(p, m))
<1>1. s[Len(s)] \in OwnFrame(l)
  BY FrontFacts
<1>2. s[Len(s)] \notin Carrying(p, m)
  BY <1>1, NotCarrying
<1>3. QED BY <1>2, HasLeft

(* A request that SyncMessageState, a dispatchMessages() or a handler holds  *)
(* stays held until its reply is sent.                                       *)
LEMMA HeldKept ==
  ASSUME Types, OwnConnections, Shallow, MayNest = {}, [Next]_vars, NEW p \in Ends, client[p], connected'[p],
         NEW m \in Message, m.type = "sync", Held(p, m)
  PROVE  Held(p, m)' \/ Has(outgoing'[p], {ReplyTo(m)})
<1> USE DEF endVars, queueVars, loopVars
<1> DEFINE C == Carrying(p, m)
           I == {Item(p, m)}
           Goal == Held(p, m)' \/ Has(outgoing'[p], {ReplyTo(m)})
<1>0. PICK l, s, q : l = LoopOf[p] /\ s = stack[l] /\ q = toDispatch[l]
  OBVIOUS
<1>t. /\ l \in RunLoops /\ s \in Seq(Frame) /\ s \in Seq(OwnFrame(l)) /\ q \in Seq(ConnectionAndMessage)
      /\ stack \in [RunLoops -> Seq(Frame)] /\ toDispatch \in [RunLoops -> Seq(ConnectionAndMessage)]
      /\ \A d \in Ends : LoopOf[d] \in RunLoops
  BY <1>0, LoopAssumption DEF Types, LoopTypes, OwnConnections
<1>h. Has(q, I) \/ Has(s, C)
  BY <1>0 DEF Held
<1>g. ASSUME Has(toDispatch'[l], I) \/ Has(stack'[l], C) PROVE Goal
  <2>1. Held(p, m)' <=> Has(toDispatch'[l], I) \/ Has(stack'[l], C)
    BY <1>0 DEF Held, Has, Carrying, Item
  <2>2. QED BY <1>g, <2>1
<1> HIDE DEF C, I, Goal
<1>1. ASSUME toDispatch'[l] = q, stack'[l] = s PROVE Goal
  BY <1>g, <1>h, <1>1
<1>2. ASSUME NEW f \in Frame, toDispatch'[l] = q, stack'[l] = Append(s, f) PROVE Goal
  BY <1>g, <1>h, <1>t, <1>2, HasMore
<1>3. ASSUME NEW k \in RunLoops, k # l, NEW r, stack' = [stack EXCEPT ![k] = r],
             toDispatch'[l] = q
      PROVE  Goal
  BY <1>0, <1>1, <1>3, <1>t
<1>4. ASSUME NEW k \in RunLoops, ProcessExits(k) PROVE Goal
  <2>1. k # l
    BY <1>0, <1>4 DEF ProcessExits
  <2>2. stack' = [stack EXCEPT ![k] = <<>>] /\ toDispatch' = [toDispatch EXCEPT ![k] = <<>>]
    BY <1>4 DEF ProcessExits
  <2>3. toDispatch'[l] = q
    BY <1>0, <1>t, <2>1, <2>2
  <2>4. QED BY <1>3, <2>1, <2>2, <2>3
<1>5. ASSUME NEW k \in RunLoops, At(k, {"swap", "check", "sleep", "nested"}), toDispatch' = toDispatch,
             NEW r, stack' = [stack EXCEPT ![k] = r],
             k = l /\ Has(Front(s), C) => Has(r, C)
      PROVE  Goal
  <2>1. CASE k # l
    BY <1>0, <1>3, <1>5, <2>1
  <2>2. CASE k = l
    <3>1. s # <<>> /\ s[Len(s)].at \notin {"handle", "dispatch"}
      BY <1>0, <1>5, <2>2 DEF At, Top
    <3>2. Has(s, C) => Has(Front(s), C)
      BY <1>t, <3>1, CarriedBelow DEF C
    <3>3. stack'[l] = r /\ toDispatch'[l] = q
      BY <1>0, <1>t, <1>5, <2>2
    <3>4. QED BY <1>g, <1>h, <1>5, <2>2, <3>2, <3>3
  <2>3. QED BY <2>1, <2>2
<1>6. ASSUME NEW k \in RunLoops, stack' = [stack EXCEPT ![k] = Front(stack[k])], toDispatch' = toDispatch,
             At(k, {"swap", "check", "sleep", "nested"})
      PROVE  Goal
  BY <1>0, <1>5, <1>6
<1>7. ASSUME NEW k \in RunLoops, NEW f \in Frame, stack' = [stack EXCEPT ![k] = Append(stack[k], f)],
             toDispatch' = toDispatch
      PROVE  Goal
  <2>1. CASE k # l
    BY <1>0, <1>3, <1>7, <2>1
  <2>2. CASE k = l
    BY <1>0, <1>2, <1>7, <1>t, <2>2
  <2>3. QED BY <2>1, <2>2
<1>8. ASSUME NEW d \in Ends, SendSync(d) PROVE Goal
  <2>0. PICK k, f, g : k = LoopOf[d] /\ f = NewFrame("check", d, NewRequest(d)) /\ g = NewFrame("swap", NoEnd, NoMessage)
    OBVIOUS
  <2>1. /\ k \in RunLoops /\ f \in Frame /\ g \in Frame /\ toDispatch' = toDispatch
        /\ stack' = [stack EXCEPT ![k] = Append(Append(stack[k], f), g)]
    BY <1>8, <1>t, <2>0, AskedFrames DEF SendSync, NewRequest
  <2>2. CASE k # l
    BY <1>0, <1>3, <2>1, <2>2
  <2>3. CASE k = l
    <3>1. stack'[l] = Append(Append(s, f), g) /\ toDispatch'[l] = q
      BY <1>0, <1>t, <2>1, <2>3
    <3>2. Append(s, f) \in Seq(Frame)
      BY <1>t, <2>1, AppendFacts
    <3>3. Has(s, C) => Has(Append(s, f), C)
      BY <1>t, <2>1, HasMore
    <3>4. Has(Append(s, f), C) => Has(Append(Append(s, f), g), C)
      BY <2>1, <3>2, HasMore
    <3>5. QED BY <1>g, <1>h, <3>1, <3>3, <3>4
  <2>4. QED BY <2>2, <2>3
<1>9. ASSUME NEW k \in RunLoops, dispatchOneMessage(k) PROVE Goal
  <2>0. PICK d, x : d = Head(functions[k]).conn /\ x = Head(incoming[d])
    OBVIOUS
  <2>1. d \in Ends /\ toDispatch' = toDispatch
    BY <1>9, <2>0, TakenFunction DEF dispatchOneMessage
  <2>2. CASE UNCHANGED stack
    BY <1>0, <1>1, <2>1, <2>2
  <2>3. CASE ~UNCHANGED stack
    <3>1. incoming[d] # <<>> /\ stack' = [stack EXCEPT ![k] = Append(stack[k], NewFrame("handle", d, x))]
      BY <1>9, <1>t, <2>0, <2>3 DEF dispatchOneMessage, dispatchMessage
    <3>2. x \in Message
      BY <2>0, <2>1, <3>1, TailFacts DEF Types, QueueTypes
    <3>3. NewFrame("handle", d, x) \in Frame
      BY <2>1, <3>2, NewFrameType
    <3>4. QED BY <1>7, <2>1, <3>1, <3>3
  <2>4. QED BY <2>2, <2>3
<1>10. ASSUME NEW k \in RunLoops, dispatchMessagesForConnection(k) PROVE Goal
  <2>0. PICK d, f : d = Head(functions[k]).conn /\ f = NewFrame("swap", d, NoMessage)
    OBVIOUS
  <2>1. d \in Ends /\ toDispatch' = toDispatch /\ stack' = [stack EXCEPT ![k] = Append(stack[k], f)]
    BY <1>10, <2>0, TakenFunction DEF dispatchMessagesForConnection
  <2>2. f \in Frame
    BY <2>0, <2>1, NewFrameType, NoMessageType
  <2>3. QED BY <1>7, <2>1, <2>2
<1>11. ASSUME NEW k \in RunLoops, SwapMessages(k) PROVE Goal
  <2>0. PICK f : f = [Top(k) EXCEPT !.at = "dispatch", !.todo = toDispatch[k]]
    OBVIOUS
  <2>1. /\ stack[k] # <<>> /\ Top(k).at = "swap" /\ Top(k) \in Frame
        /\ stack' = [stack EXCEPT ![k] = Append(Front(stack[k]), f)] /\ toDispatch' = [toDispatch EXCEPT ![k] = <<>>]
    BY <1>11, <2>0, OwnTop DEF SwapMessages, At
  <2>2. f \in Frame /\ f.todo = toDispatch[k]
    BY <1>t, <2>0, <2>1 DEF Frame
  <2>3. CASE k # l
    BY <1>0, <1>3, <1>t, <2>1, <2>3
  <2>4. CASE k = l
    <3>1. stack'[l] = Append(Front(s), f) /\ f.todo = q /\ Front(s) \in Seq(Frame)
      BY <1>0, <1>t, <2>1, <2>2, <2>4, FrontType
    <3>2. Has(q, I) => f \in C
      BY <2>2, <3>1 DEF C, I, Carrying
    <3>3. s # <<>> /\ s[Len(s)].at \notin {"handle", "dispatch"}
      BY <1>0, <2>1, <2>4 DEF Top
    <3>4. Has(s, C) => Has(Front(s), C)
      BY <1>t, <3>3, CarriedBelow DEF C
    <3>5. Has(Front(s), C) \/ f \in C
      BY <1>h, <3>2, <3>4
    <3>6. Has(Append(Front(s), f), C)
      BY <2>2, <3>1, <3>5, HasMore
    <3>7. QED BY <1>g, <3>1, <3>6
  <2>5. QED BY <2>3, <2>4
<1>12. ASSUME NEW k \in RunLoops, EndDispatchMessages(k) PROVE Goal
  <2>1. /\ stack[k] # <<>> /\ Top(k).at = "dispatch" /\ Top(k) \in Frame /\ Top(k).todo = <<>> /\ Top(k) \in OwnFrame(k)
        /\ stack' = [stack EXCEPT ![k] = Front(stack[k])]
        /\ toDispatch' = [toDispatch EXCEPT ![k] = toDispatch[k] \o Top(k).putBack]
    BY <1>12, OwnTop DEF EndDispatchMessages, At
  <2>2. CASE k # l
    BY <1>0, <1>3, <1>t, <2>1, <2>2
  <2>3. CASE k = l
    <3>0. PICK b : b = Top(k).putBack
      OBVIOUS
    <3>1. /\ stack'[l] = Front(s) /\ toDispatch'[l] = q \o b /\ b \in Seq(ConnectionAndMessage)
          /\ s # <<>> /\ s[Len(s)] = Top(k)
      BY <1>0, <1>t, <2>1, <2>3, <3>0 DEF Frame, Top
    <3>2. Top(k) \in C => Has(b, I)
      BY <2>1, <3>0, NotCarrying, HasEmpty DEF C, I
    <3>3. Has(s, C) => Has(Front(s), C) \/ Has(b, I)
      BY <1>t, <3>1, <3>2, HasLeft
    <3>4. Has(q, I) \/ Has(b, I) => Has(q \o b, I)
      BY <1>t, <3>1, HasBoth
    <3>5. QED BY <1>g, <1>h, <3>1, <3>3, <3>4
  <2>4. QED BY <2>2, <2>3
<1>13. ASSUME NEW k \in RunLoops, HandlerReturns(k) PROVE Goal
  <2>1. /\ stack[k] # <<>> /\ Top(k).at = "handle" /\ Top(k) \in OwnFrame(k) /\ toDispatch' = toDispatch
        /\ stack' = [stack EXCEPT ![k] = Front(stack[k])]
    BY <1>13, OwnTop DEF HandlerReturns, At
  <2>2. CASE k # l
    BY <1>0, <1>3, <2>1, <2>2
  <2>3. CASE k = l /\ Top(k) \notin C
    <3>1. stack'[l] = Front(s) /\ toDispatch'[l] = q /\ s # <<>> /\ s[Len(s)] \notin C
      BY <1>0, <1>t, <2>1, <2>3 DEF Top
    <3>2. Has(s, C) => Has(Front(s), C)
      BY <1>t, <3>1, HasLeft
    <3>3. QED BY <1>g, <1>h, <3>1, <3>2
  <2>4. CASE k = l /\ Top(k) \in C
    <3>1. Top(k).conn = p /\ Top(k).msg = m
      BY <2>1, <2>4, NotCarrying DEF C
    <3>2. sendMessage(p, ReplyTo(m))
      BY <1>13, <3>1 DEF HandlerReturns, ReplyTo
    <3>3. ReplyTo(m) \in Message /\ outgoing[p] \in Seq(Message) /\ outgoing'[p] = Append(outgoing[p], ReplyTo(m))
      BY <3>2 DEF ReplyTo, Message, Types, QueueTypes, sendMessage
    <3>4. Has(outgoing'[p], {ReplyTo(m)})
      BY <3>3, HasMore
    <3>5. QED BY <3>4 DEF Goal
  <2>5. QED BY <2>2, <2>3, <2>4
<1>14. ASSUME NEW k \in RunLoops, DispatchNext(k) PROVE Goal
  <2>0. PICK f, x : f = Top(k) /\ x = Head(f.todo)
    OBVIOUS
  <2>a. PICK a, b, g : /\ a = [f EXCEPT !.todo = Tail(@)] /\ b = [f EXCEPT !.todo = Tail(@), !.putBack = Append(@, x)]
                       /\ g = NewFrame("handle", x.conn, x.msg)
    OBVIOUS
  <2>1. /\ stack[k] # <<>> /\ f.at = "dispatch" /\ f \in Frame /\ f \in OwnFrame(k) /\ f.todo # <<>>
        /\ toDispatch' = toDispatch
    BY <1>14, <2>0, OwnTop DEF DispatchNext, At
  <2>2. f.todo \in Seq(ConnectionAndMessage) /\ f.putBack \in Seq(ConnectionAndMessage)
    BY <2>1 DEF Frame
  <2>b. x \in ConnectionAndMessage /\ Tail(f.todo) \in Seq(ConnectionAndMessage)
    BY <2>0, <2>1, <2>2, TailFacts
  <2>3. /\ x \in ConnectionAndMessage /\ x.conn \in Ends /\ x.msg \in Message
        /\ Tail(f.todo) \in Seq(ConnectionAndMessage)
    BY <2>b DEF ConnectionAndMessage
  <2>4. Append(f.putBack, x) \in Seq(ConnectionAndMessage) /\ g \in Frame
    BY <2>a, <2>2, <2>3, AppendFacts, NewFrameType
  <2>5. /\ a \in Frame /\ a.todo = Tail(f.todo) /\ a.putBack = f.putBack
        /\ b \in Frame /\ b.todo = Tail(f.todo) /\ b.putBack = Append(f.putBack, x)
    BY <2>a, <2>1, <2>3, <2>4 DEF Frame
  <2>6. \/ stack' = [stack EXCEPT ![k] = Append(Front(stack[k]), b)]
        \/ ~client[x.conn] /\ stack' = [stack EXCEPT ![k] = Append(Front(stack[k]), a)]
        \/ stack' = [stack EXCEPT ![k] = Append(Append(Front(stack[k]), a), g)]
    BY <1>14, <2>0, <2>a DEF DispatchNext, dispatchMessage
  <2>7. CASE k # l
    BY <1>0, <1>3, <2>1, <2>6, <2>7
  <2>8. CASE k = l
    <3>1. PICK r : r = Front(s)
      OBVIOUS
    <3>2. r \in Seq(Frame) /\ s # <<>> /\ s[Len(s)] = f /\ toDispatch'[l] = q
      BY <1>0, <1>t, <2>0, <2>1, <2>8, <3>1, FrontType DEF Top
    <3>3. Has(s, C) => Has(r, C) \/ f \in C
      BY <1>t, <3>1, <3>2, HasLeft
    <3>4. f \in C => Has(f.todo, I) \/ Has(f.putBack, I)
      BY <2>1, NotCarrying DEF C, I
    <3>5. Has(f.todo, I) => Has(Tail(f.todo), I) \/ x \in I
      BY <2>0, <2>1, <2>2, HasRest
    <3>6. Has(f.putBack, I) \/ x \in I => Has(Append(f.putBack, x), I)
      BY <2>2, <2>3, HasMore
    <3>7. f \in C => b \in C
      BY <2>5, <3>4, <3>5, <3>6 DEF C, I, Carrying
    <3>8. f \in C /\ x \notin I => a \in C
      BY <2>5, <3>4, <3>5 DEF C, I, Carrying
    <3>9. x \in I => x.conn = p /\ x.msg = m
      BY DEF I, Item
    <3>10. x \in I => g \in C
      BY <2>a, <2>4, <3>9 DEF C, Carrying, NewFrame
    <3>11. CASE stack' = [stack EXCEPT ![k] = Append(Front(stack[k]), b)]
      <4>1. stack'[l] = Append(r, b)
        BY <1>0, <1>t, <2>8, <3>1, <3>11
      <4>2. Has(r, C) \/ b \in C => Has(Append(r, b), C)
        BY <2>5, <3>2, HasMore
      <4>3. QED BY <1>g, <1>h, <3>2, <3>3, <3>7, <4>1, <4>2
    <3>12. Append(r, a) \in Seq(Frame) /\ (Has(r, C) \/ a \in C => Has(Append(r, a), C))
      BY <2>5, <3>2, HasMore, AppendFacts
    <3>13. CASE ~client[x.conn] /\ stack' = [stack EXCEPT ![k] = Append(Front(stack[k]), a)]
      <4>1. stack'[l] = Append(r, a)
        BY <1>0, <1>t, <2>8, <3>1, <3>13
      <4>2. x \notin I
        BY <3>9, <3>13
      <4>3. QED BY <1>g, <1>h, <3>2, <3>3, <3>8, <3>12, <4>1, <4>2
    <3>14. CASE stack' = [stack EXCEPT ![k] = Append(Append(Front(stack[k]), a), g)]
      <4>1. stack'[l] = Append(Append(r, a), g)
        BY <1>0, <1>t, <2>8, <3>1, <3>14
      <4>2. Has(Append(r, a), C) \/ g \in C => Has(Append(Append(r, a), g), C)
        BY <2>4, <3>12, HasMore
      <4>3. QED BY <1>g, <1>h, <3>2, <3>3, <3>8, <3>10, <3>12, <4>1, <4>2
    <3>15. QED BY <2>6, <3>11, <3>13, <3>14
  <2>9. QED BY <2>7, <2>8
<1>15. ASSUME NEW k \in RunLoops, NEW f, f = [Top(k) EXCEPT !.at = "check"] \/ f = [Top(k) EXCEPT !.at = "sleep"],
              At(k, {"check", "sleep"})
       PROVE  /\ f \in Frame /\ Front(stack[k]) \in Seq(Frame) /\ Append(Front(stack[k]), f) \in Seq(Frame)
              /\ Has(Front(stack[k]), C) => Has(Append(Front(stack[k]), f), C)
  <2>1. stack[k] # <<>> /\ Top(k) \in Frame /\ Front(stack[k]) \in Seq(Frame)
    BY <1>15, <1>t, OwnTop, FrontType DEF At
  <2>2. f \in Frame
    BY <1>15, <2>1 DEF Frame
  <2>3. QED BY <2>1, <2>2, HasMore, AppendFacts
<1>16. ASSUME NEW k \in RunLoops, Sleep(k) PROVE Goal
  <2>0. PICK f : f = [Top(k) EXCEPT !.at = "sleep"]
    OBVIOUS
  <2>1. /\ At(k, {"check", "sleep"}) /\ At(k, {"swap", "check", "sleep", "nested"}) /\ toDispatch' = toDispatch
        /\ stack' = [stack EXCEPT ![k] = Append(Front(stack[k]), f)]
    BY <1>16, <2>0 DEF Sleep, At
  <2>2. k = l /\ Has(Front(s), C) => Has(Append(Front(stack[k]), f), C)
    BY <1>0, <1>15, <2>0, <2>1
  <2>3. QED BY <1>5, <2>1, <2>2
<1>17. ASSUME NEW k \in RunLoops, WakeUp(k) PROVE Goal
  <2>0. PICK f, g : f = [Top(k) EXCEPT !.at = "check"] /\ g = NewFrame("swap", NoEnd, NoMessage)
    OBVIOUS
  <2>1. /\ At(k, {"check", "sleep"}) /\ At(k, {"swap", "check", "sleep", "nested"}) /\ toDispatch' = toDispatch
        /\ stack' = [stack EXCEPT ![k] = Append(Append(Front(stack[k]), f), g)]
    BY <1>17, <2>0 DEF WakeUp, At
  <2>2. g \in Frame
    BY <2>0, NewFrameType, NoMessageType
  <2>3. /\ Append(Front(stack[k]), f) \in Seq(Frame)
        /\ Has(Front(stack[k]), C) => Has(Append(Front(stack[k]), f), C)
    BY <1>15, <2>0, <2>1
  <2>4. Has(Append(Front(stack[k]), f), C) => Has(Append(Append(Front(stack[k]), f), g), C)
    BY <2>2, <2>3, HasMore
  <2>5. k = l /\ Has(Front(s), C) => Has(Append(Append(Front(stack[k]), f), g), C)
    BY <1>0, <2>3, <2>4
  <2>6. QED BY <1>5, <2>1, <2>5
<1>18. ASSUME NEW d \in Ends, ReceiveFlagged(d) PROVE Goal
  <2>0. PICK x : x = [conn |-> d, msg |-> Head(wire[d])]
    OBVIOUS
  <2>1. /\ UNCHANGED stack /\ wire[d] # <<>>
        /\ toDispatch' = [toDispatch EXCEPT ![LoopOf[d]] = Append(toDispatch[LoopOf[d]], x)]
    BY <1>18, <2>0 DEF ReceiveFlagged, Receive
  <2>2. x \in ConnectionAndMessage
    BY <2>0, <2>1, TailFacts DEF Types, QueueTypes, ConnectionAndMessage
  <2>3. toDispatch'[l] = q \/ toDispatch'[l] = Append(q, x)
    BY <1>0, <1>t, <2>1
  <2>4. Has(q, I) => Has(Append(q, x), I)
    BY <1>t, <2>2, HasMore
  <2>5. stack'[l] = s
    BY <1>0, <2>1
  <2>6. QED BY <1>g, <1>h, <2>3, <2>4, <2>5
<1>19. ASSUME NEW k \in RunLoops, SyncSendFails(k, Top(k).conn), At(k, {"check", "sleep"}) PROVE Goal
  BY <1>4, <1>6, <1>19 DEF SyncSendFails, PopPendingReply, At
<1>20. ASSUME UNCHANGED <<toDispatch, stack>> PROVE Goal
  BY <1>0, <1>1, <1>20
<1>21. ASSUME NEW k \in RunLoops, ClientThread(k) \/ EnterNestedLoop(k) \/ TimeOut(k) \/ Crash(k) PROVE Goal
  <2>1. CASE dispatchConnectionDidClose(k)
    BY <1>20, <2>1 DEF dispatchConnectionDidClose
  <2>2. CASE ExitNestedLoop(k) \/ ReturnReply(k)
    BY <1>6, <2>2 DEF ExitNestedLoop, ReturnReply, PopPendingReply, At
  <2>3. CASE GiveUp(k) \/ TimeOut(k)
    <3>1. SyncSendFails(k, Top(k).conn) /\ At(k, {"check", "sleep"})
      BY <2>3 DEF GiveUp, TimeOut, At
    <3>2. QED BY <1>19, <3>1
  <2>4. CASE Crash(k)
    BY <1>4, <2>4 DEF Crash
  <2>5. ~EnterNestedLoop(k)
    BY DEF EnterNestedLoop
  <2>6. QED BY <1>9, <1>10, <1>11, <1>12, <1>13, <1>14, <1>16, <1>17, <1>21, <2>1, <2>2, <2>3, <2>4, <2>5
            DEF ClientThread, performWork
<1>22. ASSUME NEW d \in Ends, ConnectionQueue(d) \/ ClientDecides(d) PROVE Goal
  <2>1. CASE SendSyncFails(d)
    BY <1>4, <1>t, <2>1 DEF SendSyncFails
  <2>2. CASE ~SendSyncFails(d) /\ ~SendSync(d) /\ ~ReceiveFlagged(d)
    <3>1. UNCHANGED <<toDispatch, stack>>
      BY <1>22, <2>2
         DEF ConnectionQueue, ClientDecides, sendOutgoingMessages, PlatformInvalidate, ReceiveReply,
             ReceiveOtherReply, wakeUpClientRunLoop, ReceiveUnflagged, connectionDidClose, SendAsync, Invalidate
    <3>2. QED BY <1>20, <3>1
  <2>3. QED BY <1>8, <1>18, <2>1, <2>2
<1>23. ASSUME NEW t \in SecondaryThreads, SecondaryRegister(t) \/ SecondarySend(t) \/ SecondaryReturn(t) PROVE Goal
  BY <1>20, <1>23 DEF SecondaryRegister, SecondarySend, SecondaryReturn
<1>24. ASSUME UNCHANGED vars PROVE Goal
  BY <1>20, <1>24 DEF vars
<1>25. Goal
  BY <1>21, <1>22, <1>23, <1>24 DEF Next
<1>26. QED BY <1>25 DEF Goal

(* A request between two open ends is lost at no step: it is handled and its *)
(* reply goes back until it is received.                                     *)
LEMMA TransitStep ==
  ASSUME Types, OwnConnections, Shallow, Closing, Schedule, SocketsHaveRoom, MayNest = {}, MayInvalidate = {},
         [Next]_vars, NEW e \in Ends, Whole(e)', NEW m \in Message, m.type = "sync", InTransit(e, m)
  PROVE  InTransit(e, m)' \/ Receives(e, ReplyTo(m))
<1>0. PICK p, r : p = PeerOf[e] /\ r = ReplyTo(m)
  OBVIOUS
<1>1. /\ p \in Ends /\ PeerOf[p] = e /\ r \in Message /\ connected'[e] /\ connected'[p]
  BY <1>0, PeerAssumption DEF Whole, ReplyTo, Message
<1>2. connected[p] /\ client[p]
  BY <1>1, ClosingStep DEF Closing, EndCloses
<1>3. InTransit(e, m)' <=> \/ Has(outgoing'[e], {m}) \/ Has(wire'[p], {m}) \/ Has(incoming'[p], {m})
                           \/ Held(p, m)' \/ Has(outgoing'[p], {r}) \/ Has(wire'[e], {r})
  BY <1>0 DEF InTransit, Has, ReplyTo
<1>4. Held(p, m)' <=> Has(toDispatch'[LoopOf[p]], {Item(p, m)}) \/ Has(stack'[LoopOf[p]], Carrying(p, m))
  BY DEF Held, Has, Carrying, Item
<1>5. CASE Has(outgoing[e], {m})
  BY <1>0, <1>1, <1>3, <1>5, OutKept
<1>6. CASE Has(wire[p], {m})
  <2>1. Has(wire'[p], {m}) \/ Receives(p, m)
    BY <1>1, <1>6, WireKept
  <2>2. Receives(p, m) => Has(incoming'[p], {m}) \/ Has(toDispatch'[LoopOf[p]], {Item(p, m)})
    BY <1>1, RequestReceived
  <2>3. QED BY <1>3, <1>4, <2>1, <2>2
<1>7. CASE Has(incoming[p], {m})
  <2>1. Has(incoming'[p], {m}) \/ Has(stack'[LoopOf[p]], Carrying(p, m))
    BY <1>1, <1>2, <1>7, IncomingKept
  <2>2. QED BY <1>3, <1>4, <2>1
<1>8. CASE Held(p, m)
  BY <1>0, <1>1, <1>2, <1>3, <1>8, HeldKept
<1>9. CASE Has(outgoing[p], {r})
  <2>1. Has(outgoing'[p], {r}) \/ Has(wire'[e], {r})
    BY <1>1, <1>9, OutKept
  <2>2. QED BY <1>3, <2>1
<1>10. CASE Has(wire[e], {r})
  <2>1. Has(wire'[e], {r}) \/ Receives(e, r)
    BY <1>1, <1>10, WireKept
  <2>2. QED BY <1>0, <1>3, <2>1
<1>11. QED BY <1>0, <1>5, <1>6, <1>7, <1>8, <1>9, <1>10 DEF InTransit

Unanswered(e, m) == \E j \in DOMAIN pending[e] : pending[e][j] = [id |-> m.id, reply |-> 0]
ConservedAt(e, m) == Whole(e) /\ Unanswered(e, m) => InTransit(e, m)
Conserved ==
    \A l \in RunLoops : \A i \in DOMAIN stack[l] : \A e \in Ends, m \in Message :
        Waits(stack[l][i]) /\ stack[l][i].conn = e /\ stack[l][i].msg = m => ConservedAt(e, m)

(* A reply that is received is not missing afterwards.                       *)
LEMMA Answered ==
  ASSUME Types, PendingIncrease, NEW e \in Ends, NEW m \in Message, m.serial > 0,
         Receives(e, ReplyTo(m)), \E j \in DOMAIN pending[e] : pending[e][j].id = m.id
  PROVE  ~Unanswered(e, m)'
<1>1. /\ Head(wire[e]).type = "reply" /\ Head(wire[e]).id = m.id /\ Head(wire[e]).serial = m.serial
      /\ m.serial \in Nat /\ m.id \in Nat
  BY DEF Receives, ReplyTo, Message
<1>2. ~ReceiveFlagged(e) /\ ~ReceiveUnflagged(e) /\ ~ReceiveOtherReply(e)
  BY <1>1 DEF ReceiveFlagged, ReceiveUnflagged, ReceiveOtherReply
<1>3. PICK i \in DOMAIN pending[e] : pending[e][i].id = m.id /\ SetReply(e, i, Head(wire[e]))
  BY <1>1, <1>2 DEF Receives, ReceiveReply
<1>4. pending \in [Ends -> Seq(PendingReply)] /\ pending[e] \in Seq(PendingReply)
  BY DEF Types, QueueTypes
<1>5. pending'[e] = [pending[e] EXCEPT ![i].reply = m.serial]
  BY <1>1, <1>3, <1>4 DEF SetReply
<1>6. /\ DOMAIN pending'[e] = DOMAIN pending[e] /\ pending'[e][i].reply = m.serial
      /\ \A j \in DOMAIN pending[e] : j # i => pending'[e][j] = pending[e][j]
  <2>1. pending[e][i] \in PendingReply
    BY <1>3, <1>4
  <2>2. QED BY <1>3, <1>4, <1>5, <2>1 DEF PendingReply
<1>7. ASSUME NEW j \in DOMAIN pending[e], j # i PROVE pending[e][j].id # m.id
  <2>1. i \in Nat /\ j \in Nat /\ pending[e][i].id \in Nat /\ pending[e][j].id \in Nat
    BY <1>3, PendingFacts
  <2>2. (i < j => pending[e][i].id < pending[e][j].id) /\ (j < i => pending[e][j].id < pending[e][i].id)
    BY <1>3 DEF PendingIncrease
  <2>3. QED BY <1>3, <1>7, <2>1, <2>2
<1>8. ASSUME NEW j \in DOMAIN pending'[e], pending'[e][j] = [id |-> m.id, reply |-> 0] PROVE FALSE
  <2>1. CASE j = i
    BY <1>1, <1>6, <1>8, <2>1
  <2>2. CASE j # i
    BY <1>6, <1>7, <1>8, <2>2
  <2>3. QED BY <2>1, <2>2
<1>9. QED BY <1>8 DEF Unanswered

(* Every step keeps every unanswered request between two open ends on its    *)
(* way, in its handler, or on its way back as a reply.                       *)
LEMMA ConservedStep ==
  ASSUME Types, OwnConnections, Shallow, HeldFlagged, PendingMatchesStack, RequestsNumbered, WaitsFlagged,
         Closing, Schedule, SocketsHaveRoom, MayNest = {}, MayInvalidate = {}, Conserved, [Next]_vars
  PROVE  Conserved'
<1>1. SUFFICES ASSUME NEW l \in RunLoops, NEW i \in DOMAIN stack'[l], NEW e \in Ends, NEW m \in Message,
                      Waits(stack'[l][i]), stack'[l][i].conn = e, stack'[l][i].msg = m
               PROVE  ConservedAt(e, m)'
  BY DEF Conserved, Waits
<1>2. ASSUME SendSync(e), m = NewRequest(e) PROVE ConservedAt(e, m)'
  <2>1. sendMessage(e, m)
    BY <1>2 DEF SendSync, NewRequest
  <2>2. outgoing'[e] = Append(outgoing[e], m) /\ outgoing[e] \in Seq(Message)
    BY <2>1 DEF sendMessage, Types, QueueTypes
  <2>3. Has(outgoing'[e], {m})
    BY <2>2, HasMore
  <2>4. InTransit(e, m)'
    BY <2>3 DEF InTransit, Has
  <2>5. QED BY <2>4 DEF ConservedAt
<1>3. CASE i \in DOMAIN stack[l] /\ SameWait(stack[l][i], stack'[l][i])
  <2>0. Waits(stack[l][i]) /\ e = stack[l][i].conn /\ m = stack[l][i].msg
    BY <1>1, <1>3 DEF SameWait
  <2>2. /\ e \in Ends /\ m \in Message /\ LoopOf[e] = l /\ m.id \in Nat /\ m.serial \in Nat /\ m.serial > 0
        /\ stack[l][i] \in Frame
    BY <1>3, <2>0, WaitFacts DEF WaitsFlagged
  <2>3. m.type = "sync"
    <3>1. stack[l] \in Seq(OwnFrame(l))
      BY DEF OwnConnections
    <3>2. stack[l][i] \in OwnFrame(l)
      BY <1>3, <3>1
    <3>3. QED BY <2>0, <3>2 DEF OwnFrame, Waits
  <2>4. ConservedAt(e, m)
    BY <1>3, <2>0, <2>2 DEF Conserved
  <2>5. \E j \in DOMAIN pending[e] : pending[e][j].id = m.id
    BY <1>3, <2>0 DEF PendingMatchesStack, WaitHasPending
  <2>6. SUFFICES ASSUME Whole(e)', Unanswered(e, m)' PROVE InTransit(e, m)'
    BY DEF ConservedAt
  <2>7. Whole(e)
    BY <2>2, <2>6, ClosingStep, PeerAssumption DEF Whole
  <2>8. Unanswered(e, m)
    <3>1. PICK j \in DOMAIN pending'[e] : pending'[e][j] = [id |-> m.id, reply |-> 0]
      BY <2>6 DEF Unanswered
    <3>2. CASE \E k \in DOMAIN pending[e] : pending'[e][j] = pending[e][k]
      BY <3>1, <3>2 DEF Unanswered
    <3>3. CASE SendSync(e) /\ pending'[e][j] = [id |-> syncRequestID[e] + 1, reply |-> 0]
      <4>1. m.id = syncRequestID[e] + 1
        BY <3>1, <3>3
      <4>2. m.id <= syncRequestID[e] /\ syncRequestID[e] \in Nat
        BY <1>3, <2>0, <2>2, WaitBounded DEF Types, CountTypes
      <4>3. QED BY <4>1, <4>2
    <3>4. CASE /\ wire[e] # <<>> /\ Head(wire[e]).type = "reply"
               /\ pending'[e][j].id = Head(wire[e]).id /\ pending'[e][j].reply = Head(wire[e]).serial
      <4>1. UnderWay(e, Head(wire[e]).id, Head(wire[e]).serial) /\ Head(wire[e]).serial \in Nat
        BY <2>2, <3>4, ReplyUnderWay
      <4>2. Head(wire[e]).id = m.id /\ Head(wire[e]).serial = 0
        BY <3>1, <3>4
      <4>3. Head(wire[e]).serial = m.serial
        BY <1>3, <2>0, <2>2, <4>1, <4>2 DEF RequestsNumbered, WaitNumbered
      <4>4. QED BY <2>2, <4>2, <4>3
    <3>5. QED BY <2>2, <3>2, <3>3, <3>4, PendingOrigin
  <2>9. InTransit(e, m)
    BY <2>4, <2>7, <2>8 DEF ConservedAt
  <2>10. InTransit(e, m)' \/ Receives(e, ReplyTo(m))
    BY <2>2, <2>3, <2>6, <2>9, TransitStep
  <2>11. ~Receives(e, ReplyTo(m))
    BY <2>2, <2>5, <2>6, Answered DEF PendingMatchesStack
  <2>12. QED BY <2>10, <2>11
<1>4. QED BY <1>1, <1>2, <1>3, WaitMoves

-----------------------------------------------------------------------------
(* When nothing can happen any more.                                         *)
Unblocked ==
    /\ Scheduling /\ Overtaking /\ MarkedIsCount /\ RequestsNumbered
    /\ Closing /\ Flushed /\ ReceivedUnflagged /\ Conserved
    /\ AllCovered /\ WaitsFlagged /\ Uncrossed

(* A client thread that is not in its run loop then sleeps, its last request *)
(* unanswered and its connection whole.                                      *)
LEMMA Asleep ==
  ASSUME Unblocked, Quiescent, NEW l \in RunLoops, stack[l] # <<>>
  PROVE  LET e == Top(l).conn
             m == Top(l).msg
         IN  /\ alive[l] /\ At(l, {"sleep"}) /\ toDispatch[l] = <<>>
             /\ e \in Ends /\ LoopOf[e] = l /\ m \in Message /\ Waits(Top(l)) /\ Len(stack[l]) \in DOMAIN stack[l]
             /\ shouldWait[e] /\ Unanswered(e, m)
<1>0. /\ Types /\ OwnConnections /\ PendingMatchesStack /\ Closing /\ Wakeups
  BY DEF Unblocked, Scheduling
<1>1. alive[l]
  BY <1>0 DEF Closing
<1>2. At(l, {"sleep"}) /\ ~semaphore[l] /\ At(l, {"check", "sleep"})
  BY <1>1 DEF Quiescent, At
<1>3. ~WakingSome(l)
  BY <1>1 DEF Quiescent, WakingSome
<1>4. PICK e, m : e = Top(l).conn /\ m = Top(l).msg
  OBVIOUS
<1>5. /\ e \in Ends /\ LoopOf[e] = l /\ pending[e] # <<>> /\ Waits(Top(l))
      /\ pending[e][Len(pending[e])].id = m.id
      /\ Len(stack[l]) \in DOMAIN stack[l] /\ Len(pending[e]) \in DOMAIN pending[e]
  BY <1>0, <1>2, <1>4, LastIsOurs
<1>6. m \in Message
  BY <1>0, <1>4, FrameTypes DEF Types
<1>7. ~Waitless(stack[l]) /\ ~At(l, {"swap"})
  BY <1>2, <1>5 DEF Waitless, Top, At
<1>8. WakeupDue(l) /\ SleepsInformed(l)
  BY <1>0 DEF Wakeups
<1>9. toDispatch[l] = <<>> /\ Last(pending[e]).reply = 0 /\ shouldWait[e]
  BY <1>2, <1>3, <1>4, <1>7, <1>8 DEF WakeupDue, SleepsInformed
<1>10. pending[e][Len(pending[e])] = [id |-> m.id, reply |-> 0]
  <2>1. pending[e] \in Seq(PendingReply)
    BY <1>0, <1>5 DEF Types, QueueTypes
  <2>2. pending[e][Len(pending[e])] \in PendingReply /\ Last(pending[e]) = pending[e][Len(pending[e])]
    BY <1>5, <2>1, FrontFacts
  <2>3. QED BY <1>5, <1>9, <2>2 DEF PendingReply
<1>11. Unanswered(e, m)
  BY <1>5, <1>10 DEF Unanswered
<1>12. QED BY <1>1, <1>2, <1>4, <1>5, <1>6, <1>9, <1>11

(* Its request is then held by the peer, which sleeps as well.               *)
LEMMA AsleepOnPeer ==
  ASSUME Unblocked, Quiescent, NEW l \in RunLoops, stack[l] # <<>>,
         NEW e, e = Top(l).conn, NEW m, m = Top(l).msg, NEW p, p = PeerOf[e]
  PROVE  /\ p \in Ends /\ LoopOf[p] \in RunLoops /\ stack[LoopOf[p]] # <<>>
         /\ Has(incoming[p], {m}) \/ Has(stack[LoopOf[p]], Carrying(p, m))
<1>0. /\ Types /\ OwnConnections /\ Closing /\ Flushed /\ Conserved /\ Schedule
  BY DEF Unblocked, Scheduling
<1>1. /\ alive[l] /\ e \in Ends /\ LoopOf[e] = l /\ m \in Message /\ Waits(Top(l)) /\ Len(stack[l]) \in DOMAIN stack[l]
      /\ shouldWait[e] /\ Unanswered(e, m)
  BY Asleep
<1>2. p \in Ends /\ PeerOf[p] = e /\ LoopOf[p] \in RunLoops
  BY <1>1, PeerAssumption, LoopAssumption
<1>3. connected[e]
  BY <1>0, <1>1 DEF Closing, EndCloses
<1>4. ~ClosedByPeer(e) /\ wire[e] = <<>> /\ queue[e] = <<>>
  BY <1>1 DEF Quiescent
<1>5. connected[p] /\ alive[LoopOf[p]]
  BY <1>0, <1>1, <1>2, <1>3, <1>4 DEF Closing, EndCloses, ClosedByPeer
<1>6. wire[p] = <<>> /\ queue[p] = <<>>
  BY <1>2, <1>5 DEF Quiescent
<1>7. Whole(e) /\ Whole(p)
  BY <1>2, <1>3, <1>5 DEF Whole
<1>8. outgoing[e] = <<>> /\ outgoing[p] = <<>>
  BY <1>0, <1>1, <1>2, <1>4, <1>6, <1>7 DEF Flushed
<1>9. InTransit(e, m)
  <2>1. ConservedAt(e, m)
    BY <1>0, <1>1 DEF Conserved, Top
  <2>2. QED BY <1>1, <1>7, <2>1 DEF ConservedAt
<1>10. Has(incoming[p], {m}) \/ Held(p, m)
  BY <1>4, <1>6, <1>8, <1>9, HasEmpty DEF InTransit
<1>11. ASSUME stack[LoopOf[p]] = <<>> PROVE FALSE
  <2>0. PICK k : k = LoopOf[p]
    OBVIOUS
  <2>1. functions[k] = <<>> /\ ScheduleAt(k) /\ k \in RunLoops
    BY <1>0, <1>2, <1>5, <1>11, <2>0 DEF Quiescent, At, Schedule
  <2>2. Len(incoming[p]) = 0 /\ incoming[p] \in Seq(Message)
    BY <1>0, <1>2, <2>0, <2>1, CountEmpty DEF ScheduleAt, OneForEach, Types, QueueTypes
  <2>3. ~Has(incoming[p], {m})
    BY <2>2 DEF Has
  <2>4. ~Has(stack[k], Carrying(p, m))
    BY <1>11, <2>0, HasEmpty
  <2>5. Has(toDispatch[k], {Item(p, m)})
    BY <1>10, <2>0, <2>3, <2>4 DEF Held
  <2>6. Item(p, m) \in Items(toDispatch[k])
    BY <2>5 DEF Has, Items
  <2>7. Item(p, m) \in LeftItems(toDispatch[k], stack[k])
    BY <1>11, <2>0, <2>6 DEF LeftItems, Takes, Swaps
  <2>8. PICK x : x \in LeftItems(toDispatch[k], stack[k])
    BY <2>7
  <2>9. Comes(functions[k], incoming[x.conn], x)
    BY <2>1, <2>8 DEF ScheduleAt, LeftComes
  <2>10. QED BY <2>1, <2>9, EmptyFacts DEF Comes
<1>12. toDispatch[LoopOf[p]] = <<>>
  BY <1>2, <1>11, Asleep
<1>13. QED BY <1>2, <1>10, <1>11, <1>12, HasEmpty DEF Held

(* What carries a request lies below the wait at the top of the stack.       *)
LEMMA CarriedBeneath ==
  ASSUME Types, OwnConnections, NEW l \in RunLoops, stack[l] # <<>>, Waits(Top(l)), NEW p, NEW m,
         Has(stack[l], Carrying(p, m))
  PROVE  Beneath(stack[l], Len(stack[l]), Carrying(p, m))
<1>0. PICK s, n : s = stack[l] /\ n = Len(s)
  OBVIOUS
<1>1. s \in Seq(OwnFrame(l)) /\ s # <<>>
  BY <1>0 DEF OwnConnections
<1>2. DOMAIN s = 1 .. n /\ n \in Nat /\ Waits(s[n]) /\ s[n] \in OwnFrame(l)
  BY <1>0, <1>1, FrontFacts DEF Top
<1>3. PICK k \in DOMAIN s : s[k] \in Carrying(p, m)
  BY <1>0 DEF Has
<1>4. s[n] \notin Carrying(p, m)
  BY <1>2, NotCarrying DEF Waits
<1>5. k < n
  BY <1>2, <1>3, <1>4
<1>6. QED BY <1>0, <1>3, <1>5 DEF Beneath

(* A flagged request held in a process with one connection lies in or under  *)
(* the handler of a marked message, below the wait at the top.               *)
LEMMA CarriedByHandler ==
  ASSUME Unblocked, NEW l \in RunLoops, stack[l] # <<>>, Waits(Top(l)), NEW p \in Ends, NEW m \in Message, m.flagged,
         \A d \in Ends : LoopOf[d] = l => d = p, Has(stack[l], Carrying(p, m))
  PROVE  Beneath(stack[l], Len(stack[l]), MarkedFrame(p))
<1>0. PICK s, n : s = stack[l] /\ n = Len(s)
  OBVIOUS
<1>1. s \in Seq(OwnFrame(l)) /\ s \in Seq(Frame) /\ Covered(s) /\ s # <<>>
  BY <1>0 DEF Unblocked, Scheduling, OwnConnections, Types, LoopTypes, AllCovered
<1>2. DOMAIN s = 1 .. n /\ n \in Nat /\ n > 0 /\ Waits(s[n])
  BY <1>0, <1>1, FrontFacts DEF Top
<1>3. PICK k \in DOMAIN s : s[k] \in Carrying(p, m)
  BY <1>0 DEF Has
<1>4. /\ s[k].at \in {"handle", "dispatch"} /\ s[k] \in OwnFrame(l)
      /\ s[k].at = "handle" => s[k].conn = p /\ s[k].msg = m
  <2>1. s[k] \in OwnFrame(l)
    BY <1>1
  <2>2. QED BY <1>3, <2>1, NotCarrying
<1>5. k \in 1 .. n /\ k < n
  <2>1. k # n
    BY <1>2, <1>4 DEF Waits
  <2>2. QED BY <1>2, <2>1
<1>6. Beneath(s, n, MarkedFrame(p))
  <2>1. CASE s[k].at = "handle"
    <3>1. s[k] \in MarkedFrame(p)
      BY <1>4, <2>1 DEF MarkedFrame, OwnFrame
    <3>2. QED BY <1>5, <3>1 DEF Beneath
  <2>2. CASE s[k].at = "dispatch"
    <3>1. k + 1 \in DOMAIN s
      BY <1>2, <1>5
    <3>2. s[k + 1].at = "handle" /\ s[k + 1].msg.flagged
      BY <1>1, <2>2, <3>1 DEF Covered
    <3>3. s[k + 1] \in OwnFrame(l)
      BY <1>1, <3>1
    <3>4. s[k + 1] \in Frame /\ s[k + 1].conn = p
      BY <3>2, <3>3 DEF OwnFrame, Frame
    <3>5. s[k + 1] \in MarkedFrame(p)
      BY <3>2, <3>4 DEF MarkedFrame
    <3>6. k + 1 # n
      BY <1>2, <3>2 DEF Waits
    <3>7. k + 1 < n
      BY <1>2, <1>5, <3>6
    <3>8. QED BY <3>1, <3>5, <3>7 DEF Beneath
  <2>3. QED BY <1>4, <2>1, <2>2
<1>7. QED BY <1>0, <1>6

(* So nobody waits at the upper end of a connection between a process and    *)
(* one that has no other connection.                                         *)
LEMMA SupervisorReturns ==
  ASSUME Unblocked, Quiescent, NEW l \in RunLoops, stack[l] # <<>>, Supervises(Top(l).conn)
  PROVE  FALSE
<1>0. PICK e, m, p, k, a, b : /\ e = Top(l).conn /\ m = Top(l).msg /\ p = PeerOf[e] /\ k = LoopOf[p]
                              /\ a = Top(k).msg /\ b = Top(k).conn
  OBVIOUS
<1>i. Types /\ OwnConnections /\ ReceivedUnflagged /\ WaitsFlagged /\ Uncrossed
  BY DEF Unblocked, Scheduling
<1>1. /\ e \in Ends /\ LoopOf[e] = l /\ m \in Message /\ Waits(Top(l)) /\ Len(stack[l]) \in DOMAIN stack[l]
  BY <1>0, Asleep
<1>p. PeerOf[p] = e
  BY <1>0, <1>1, PeerAssumption
<1>2. /\ p \in Ends /\ k \in RunLoops /\ stack[k] # <<>> /\ PeerOf[p] = e
      /\ Has(incoming[p], {m}) \/ Has(stack[k], Carrying(p, m))
  BY <1>0, <1>p, AsleepOnPeer, ZenonT(60)
<1>3. /\ b \in Ends /\ LoopOf[b] = k /\ a \in Message /\ Waits(Top(k)) /\ Len(stack[k]) \in DOMAIN stack[k]
  BY <1>0, <1>2, Asleep
<1>4. e \notin OnlyMarked /\ b = p /\ \A d \in Ends : LoopOf[d] = k => d = p
  BY <1>0, <1>3 DEF Supervises
<1>5. m.flagged
  <2>1. FlaggedBelow(stack[l], Len(stack[l]))
    BY <1>1, <1>i DEF WaitsFlagged, Top
  <2>2. QED BY <1>0, <1>4, <2>1 DEF FlaggedBelow, Top
<1>6. \A d \in Ends, x \in Message : x.flagged => ~Has(incoming[d], {x})
  BY <1>i DEF ReceivedUnflagged, FlaggedMessage, Has
<1>7. Has(stack[k], Carrying(p, m))
  BY <1>1, <1>2, <1>5, <1>6
<1>8. Beneath(stack[k], Len(stack[k]), MarkedFrame(p))
  BY <1>1, <1>2, <1>3, <1>4, <1>5, <1>7, CarriedByHandler
<1>9. a.flagged
  <2>1. FlaggedBelow(stack[k], Len(stack[k]))
    BY <1>2, <1>3, <1>i DEF WaitsFlagged, Top
  <2>2. QED BY <1>0, <1>4, <1>8, <2>1 DEF FlaggedBelow, Top
<1>10. Has(incoming[e], {a}) \/ Has(stack[l], Carrying(e, a))
  BY <1>0, <1>1, <1>2, <1>4, AsleepOnPeer
<1>11. Has(stack[l], Carrying(e, a))
  BY <1>1, <1>3, <1>6, <1>9, <1>10
<1>12. /\ Beneath(stack[k], Len(stack[k]), Carrying(p, m))
       /\ Beneath(stack[l], Len(stack[l]), Carrying(e, a))
  BY <1>1, <1>2, <1>3, <1>7, <1>11, <1>i, CarriedBeneath
<1>13. Crossed(e, Len(stack[l]), Len(stack[k]))
  BY <1>0, <1>1, <1>2, <1>3, <1>4, <1>12 DEF Crossed, Top
<1>14. QED BY <1>0, <1>1, <1>2, <1>3, <1>13, <1>i DEF Uncrossed

(* In a hierarchy nobody sleeps for ever: of two processes that wait for     *)
(* each other one supervises the other, and a supervisor returns.            *)
LEMMA NobodyIsStuck ==
  ASSUME Hierarchy, Unblocked PROVE NoSyncDeadlock
<1>1. SUFFICES ASSUME Quiescent, NEW l \in RunLoops, stack[l] # <<>> PROVE FALSE
  BY DEF NoSyncDeadlock
<1>2. ASSUME NEW k \in RunLoops, stack[k] # <<>>
      PROVE  /\ Top(k).conn \in Ends /\ LoopOf[Top(k).conn] = k /\ PeerOf[Top(k).conn] \in Ends
             /\ PeerOf[PeerOf[Top(k).conn]] = Top(k).conn
             /\ LoopOf[PeerOf[Top(k).conn]] \in RunLoops /\ stack[LoopOf[PeerOf[Top(k).conn]]] # <<>>
             /\ ~NeverWaits(k)
  <2>1. /\ Top(k).conn \in Ends /\ LoopOf[Top(k).conn] = k /\ Waits(Top(k)) /\ Len(stack[k]) \in DOMAIN stack[k]
    BY <1>1, <1>2, Asleep
  <2>2. MaxSync[Top(k).conn] > 0 /\ MaxSync[Top(k).conn] \in Nat
    BY <1>2, <2>1, BoundsAssumption DEF Unblocked, WaitsFlagged, Top
  <2>3. ~NeverWaits(k)
    BY <2>1, <2>2 DEF NeverWaits
  <2>4. /\ PeerOf[Top(k).conn] \in Ends /\ LoopOf[PeerOf[Top(k).conn]] \in RunLoops
        /\ stack[LoopOf[PeerOf[Top(k).conn]]] # <<>>
    BY <1>1, <1>2, AsleepOnPeer, ZenonT(60)
  <2>5. QED BY <2>1, <2>3, <2>4, PeerAssumption
<1>3. PICK e, p, k, d : e = Top(l).conn /\ p = PeerOf[e] /\ k = LoopOf[p] /\ d = Top(k).conn
  OBVIOUS
<1>4. /\ e \in Ends /\ LoopOf[e] = l /\ p \in Ends /\ PeerOf[p] = e /\ k \in RunLoops /\ stack[k] # <<>>
      /\ ~NeverWaits(l)
  BY <1>1, <1>2, <1>3
<1>5. /\ d \in Ends /\ LoopOf[d] = k /\ PeerOf[d] \in Ends /\ PeerOf[PeerOf[d]] = d
      /\ ~NeverWaits(k) /\ ~NeverWaits(LoopOf[PeerOf[d]])
  BY <1>2, <1>3, <1>4
<1>6. ~Supervises(e) /\ ~Supervises(d)
  BY <1>1, <1>3, <1>4, SupervisorReturns
<1>7. Supervises(p)
  BY <1>3, <1>4, <1>5, <1>6 DEF Hierarchy
<1>8. Supervises(PeerOf[d])
  BY <1>5, <1>6 DEF Hierarchy
<1>9. p = d
  BY <1>3, <1>4, <1>5, <1>8 DEF Supervises
<1>10. QED BY <1>6, <1>7, <1>9

(* The invariant holds initially.                                            *)
LEMMA InitUnblocked == Init => Unblocked
<1>1. SUFFICES ASSUME Init PROVE Unblocked
  OBVIOUS
<1>2. Overtaking
  BY <1>1, InitOvertaking
<1>3. Scheduling /\ MarkedIsCount /\ RequestsNumbered
  BY <1>1, InitScheduling, InitTypes, InitRequests
<1>4. Closing
  <2>1. \A e \in Ends : alive[LoopOf[e]] /\ connected[e] /\ client[e] /\ queue[e] = <<>>
    BY <1>1, LoopAssumption DEF Init
  <2>2. \A l \in RunLoops : alive[l]
    BY <1>1 DEF Init
  <2>3. QED BY <2>1, <2>2, HasEmpty DEF Closing, EndCloses
<1>5. Flushed /\ ReceivedUnflagged
  BY <1>1, HasEmpty DEF Init, Flushed, ReceivedUnflagged
<1>6. \A l \in RunLoops : DOMAIN stack[l] = {}
  BY <1>1, EmptyFacts DEF Init
<1>7. Conserved /\ AllCovered /\ WaitsFlagged /\ Uncrossed
  BY <1>6, LoopAssumption, PeerAssumption DEF Conserved, AllCovered, Covered, WaitsFlagged, Uncrossed
<1>8. QED BY <1>2, <1>3, <1>4, <1>5, <1>7 DEF Unblocked

(* Every step keeps the invariant while sockets have room.                   *)
LEMMA UnblockedStep ==
  ASSUME MayNest = {}, MayInvalidate = {}, Unblocked, SocketsHaveRoom, [Next]_vars
  PROVE  Unblocked'
<1>1. /\ Scheduling /\ Types /\ OwnConnections /\ PendingMatchesStack /\ Wakeups /\ Order /\ Schedule /\ Shallow
      /\ Overtaking /\ HeldFlagged /\ MarkedIsCount /\ RequestsNumbered /\ UnderWayBounded
      /\ Closing /\ Flushed /\ ReceivedUnflagged /\ Conserved /\ AllCovered /\ WaitsFlagged /\ Uncrossed
  BY DEF Unblocked, Scheduling, Wakeups, Overtaking, RequestsNumbered
<1>2. Scheduling' /\ Overtaking' /\ MarkedIsCount' /\ RequestsNumbered'
  BY <1>1, SchedulingStep, OvertakingStep, MarkedStep, NumberedStep
<1>3. Closing' /\ Flushed' /\ ReceivedUnflagged' /\ Conserved'
  BY <1>1, ClosingStep, FlushedStep, ReceivedUnflaggedStep, ConservedStep
<1>4. AllCovered' /\ WaitsFlagged' /\ Uncrossed'
  BY <1>1, AllCoveredStep, WaitsFlaggedStep, UncrossedStep
<1>5. QED BY <1>2, <1>3, <1>4 DEF Unblocked

(***************************************************************************)
(* Client threads do not deadlock in waitForSyncReply(): once nothing can  *)
(* happen any more, each is back in its run loop. This is what the flag    *)
(* DispatchMessageEvenWhenWaitingForSyncReply is for. It holds where       *)
(* handlers spin no event loop, nobody calls invalidate(), connections     *)
(* form a hierarchy, and as long as sockets have room; processes may crash *)
(* and waits may time out.                                                 *)
(***************************************************************************)
THEOREM NoDeadlock ==
  ASSUME MayNest = {}, MayInvalidate = {}, Hierarchy
  PROVE  Spec /\ []SocketsHaveRoom => []NoSyncDeadlock
<1>1. Unblocked /\ SocketsHaveRoom /\ [Next]_vars => Unblocked'
  BY UnblockedStep
<1>2. Unblocked => NoSyncDeadlock
  BY NobodyIsStuck
<1>3. QED BY <1>1, <1>2, InitUnblocked, PTL DEF Spec
=============================================================================
