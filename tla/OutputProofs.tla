----------------------------- MODULE OutputProofs -----------------------------
(***************************************************************************)
(* Proofs about the two sides of the output: ResultPool, for any number of *)
(* workers, objects, browsers and hits and any capacity of the channels,   *)
(* and OutputFiles, for any findings, files and command lines.             *)
(***************************************************************************)
EXTENDS ResultPool, OutputFiles, FiniteSetTheorems, SequenceTheorems, TLAPS

-----------------------------------------------------------------------------
(* Where an object can be: everything a worker, a place in resultChan or   *)
(* the output loop holds has been allocated, and is nowhere else.  TypeOK  *)
(* rests on it: only an allocated object may be put back.                  *)
OwnerInv ==
  /\ \A w \in Worker : step[w] # "match" =>
       /\ hand[w][1] \in used \ pool
       /\ \A v \in Worker : v # w /\ step[v] # "match" => hand[v][1] # hand[w][1]
  /\ \A i \in 1 .. Len(results) :
       /\ results[i][1] \in used \ pool
       /\ \A w \in Worker : step[w] # "match" => hand[w][1] # results[i][1]
       /\ \A j \in 1 .. Len(results) : j # i => results[j][1] # results[i][1]
  /\ printing # None =>
       /\ printing[1] \in used \ pool
       /\ \A w \in Worker : step[w] # "match" => hand[w][1] # printing[1]
       /\ \A i \in 1 .. Len(results) : results[i][1] # printing[1]

(* Type correctness. *)

LEMMA NoView == \A v \in View : v # None /\ v[1] \in Object /\ v[2] \in Hit
BY DEF View, None

LEMMA HandIsView ==
  ASSUME TypeOK, NEW w \in Worker, step[w] # "match"
  PROVE  hand[w] \in View
BY DEF TypeOK

(* Something received or shown pairs a hit with what its object says now.  *)
LEMMA SeenIs ==
  ASSUME TypeOK, NEW v \in View
  PROVE  Seen(v) \in Hit \X (Hit \cup {Blank})
BY NoView DEF TypeOK, Seen

LEMMA WorkKeepsTypes ==
  ASSUME TypeOK, OwnerInv, NEW w \in Worker, Work(w)
  PROVE  TypeOK'
<1> USE CapAssumption DEF TypeOK
<1>1. CASE GetResult(w)
  <2>1. PICK o \in pool \cup (Object \ used) :
          /\ pool' = pool \ {o} /\ used' = used \cup {o}
          /\ content' = [content EXCEPT ![o] = Blank]
          /\ hand' = [hand EXCEPT ![w] = <<o, found + 1>>]
    BY <1>1 DEF GetResult
  <2>2. /\ <<o, found + 1>> \in View /\ found + 1 \in 0 .. NumHits
        /\ UNCHANGED <<outVars, dashVars, hookVars>>
        /\ found' = found + 1 /\ step' = [step EXCEPT ![w] = "fill"]
    BY <1>1 DEF GetResult, View, Hit
  <2>3. \A v \in Worker : hand'[v] = None <=> step'[v] = "match"
    BY <2>1, <2>2, NoView
  <2>4. /\ pool' \subseteq used' /\ used' \subseteq Object
        /\ content' \in [Object -> Hit \cup {Blank}]
        /\ hand' \in [Worker -> View \cup {None}]
        /\ step' \in [Worker -> {"match", "fill", "filter", "hook", "webhook", "send"}]
    BY <2>1, <2>2
  <2> QED
    BY <2>2, <2>3, <2>4 DEF outVars, dashVars, hookVars
<1>2. CASE FillResult(w)
  <2>1. hand[w] \in View
    BY <1>2, HandIsView DEF FillResult
  <2> QED
    BY <1>2, <2>1, NoView DEF FillResult, Goto, outVars, dashVars, hookVars
<1>3. CASE FilterResult(w)
  <2>1. hand[w] \in View /\ hand[w][1] \in Object /\ step[w] = "filter"
    BY <1>3, HandIsView, NoView DEF FilterResult
  <2>2. CASE Goto(w, "hook") /\ UNCHANGED pool
    BY <1>3, <2>1, <2>2 DEF FilterResult, Goto, outVars, dashVars, hookVars
  <2>3. CASE pool' = pool \cup {hand[w][1]} /\ Release(w)
    <3>1. /\ hand' = [hand EXCEPT ![w] = None]
          /\ step' = [step EXCEPT ![w] = "match"]
          /\ UNCHANGED <<found, used, content, outVars, dashVars, hookVars>>
          /\ hand[w][1] \in used
      BY <1>3, <2>1, <2>3 DEF FilterResult, Release, OwnerInv
    <3> QED
      BY <2>3, <3>1 DEF outVars, dashVars, hookVars
  <2> QED
    BY <1>3, <2>2, <2>3 DEF FilterResult
<1>4. CASE Broadcast(w)
  <2>1. hand[w] \in View
    BY <1>4, HandIsView DEF Broadcast
  <2>2. inbox' \in [Client -> Seq(View)] /\ \A c \in Client : Len(inbox'[c]) <= ClientCap
    <3> SUFFICES ASSUME NEW c \in Client
                 PROVE  inbox'[c] \in Seq(View) /\ Len(inbox'[c]) <= ClientCap
      BY <1>4 DEF Broadcast
    <3>1. CASE c \in registered /\ Len(inbox[c]) < ClientCap
      <4>1. inbox'[c] = Append(inbox[c], hand[w])
        BY <1>4, <3>1 DEF Broadcast
      <4> QED
        BY <2>1, <3>1, <4>1, AppendProperties, LenProperties
    <3>2. CASE ~(c \in registered /\ Len(inbox[c]) < ClientCap)
      BY <1>4, <3>2 DEF Broadcast
    <3> QED
      BY <3>1, <3>2
  <2> QED
    BY <1>4, <2>2 DEF Broadcast, Goto, poolVars, outVars, hookVars
<1>5. CASE StartWebhook(w)
  <2>1. hand[w] \in View
    BY <1>5, HandIsView DEF StartWebhook
  <2> QED
    BY <1>5, <2>1 DEF StartWebhook, Goto, poolVars, outVars, dashVars
<1>6. CASE SendResult(w)
  <2>1. hand[w] \in View
    BY <1>6, HandIsView DEF SendResult
  <2>2. results' \in Seq(View) /\ Len(results') <= ResultCap
    BY <1>6, <2>1, AppendProperties, LenProperties DEF SendResult
  <2> QED
    BY <1>6, <2>2 DEF SendResult, Release, poolVars, dashVars, hookVars
<1> QED
  BY <1>1, <1>2, <1>3, <1>4, <1>5, <1>6 DEF Work

LEMMA OutputKeepsTypes ==
  ASSUME TypeOK, OwnerInv, Output
  PROVE  TypeOK'
<1> USE DEF TypeOK
<1>1. CASE ReceiveResult
  <2>1. /\ results # <<>> /\ Head(results) \in View /\ Tail(results) \in Seq(View)
        /\ Len(Tail(results)) <= ResultCap
    BY <1>1, HeadTailProperties, LenProperties, CapAssumption DEF ReceiveResult
  <2>2. Seen(Head(results)) \in Hit \X (Hit \cup {Blank})
    BY <2>1, SeenIs
  <2> QED
    BY <1>1, <2>1, <2>2 DEF ReceiveResult, poolVars, workVars, dashVars, hookVars
<1>2. CASE WriteHtml
  <2>1. reported' \subseteq Hit \X (Hit \cup {Blank})
    BY <1>2, SeenIs DEF WriteHtml
  <2> QED
    BY <1>2, <2>1 DEF WriteHtml, poolVars, workVars, dashVars, hookVars
<1>3. CASE PutResult
  <2>1. printing[1] \in used
    BY <1>3 DEF PutResult, OwnerInv
  <2> QED
    BY <1>3, <2>1 DEF PutResult, workVars, dashVars, hookVars
<1> QED
  BY <1>1, <1>2, <1>3 DEF Output

LEMMA BrowseKeepsTypes ==
  ASSUME TypeOK, NEW c \in Client, Browse(c)
  PROVE  TypeOK'
<1> USE DEF TypeOK
<1>1. CASE ShowResult(c)
  <2>1. /\ inbox[c] \in Seq(View) /\ Len(inbox[c]) <= ClientCap /\ inbox[c] # <<>>
    BY <1>1 DEF ShowResult
  <2>2. /\ Head(inbox[c]) \in View /\ Tail(inbox[c]) \in Seq(View)
        /\ Len(Tail(inbox[c])) <= ClientCap
    BY <2>1, HeadTailProperties, LenProperties, CapAssumption
  <2>3. Seen(Head(inbox[c])) \in Hit \X (Hit \cup {Blank})
    BY <2>2, SeenIs
  <2>4. inbox' \in [Client -> Seq(View)] /\ \A d \in Client : Len(inbox'[d]) <= ClientCap
    BY <1>1, <2>2 DEF ShowResult
  <2> QED
    BY <1>1, <2>3, <2>4 DEF ShowResult, poolVars, workVars, outVars, hookVars
<1>2. CASE Connect(c) \/ Disconnect(c) \/ CloseChannel(c)
  BY <1>2 DEF Connect, Disconnect, CloseChannel, poolVars, workVars, outVars, hookVars
<1> QED
  BY <1>1, <1>2 DEF Browse

LEMMA PostKeepsTypes ==
  ASSUME TypeOK, NEW v \in hooks, PostWebhook(v)
  PROVE  TypeOK'
<1>1. Seen(v) \in Hit \X (Hit \cup {Blank})
  BY SeenIs DEF TypeOK
<1> QED
  BY <1>1 DEF PostWebhook, TypeOK, poolVars, workVars, outVars, dashVars

-----------------------------------------------------------------------------
(* Ownership. *)

(* The steps that move no object. *)
LEMMA StayKeepsOwner ==
  ASSUME OwnerInv, UNCHANGED <<pool, used, hand, results, printing>>,
         \A w \in Worker : step'[w] # "match" => step[w] # "match"
  PROVE  OwnerInv'
BY DEF OwnerInv

(* GetResult takes an object nobody holds: from the pool, or a new one. *)
LEMMA GetKeepsOwner ==
  ASSUME TypeOK, OwnerInv, NEW w \in Worker, GetResult(w)
  PROVE  OwnerInv'
<1>1. PICK o \in pool \cup (Object \ used) :
        /\ pool' = pool \ {o} /\ used' = used \cup {o}
        /\ hand' = [hand EXCEPT ![w] = <<o, found + 1>>]
  BY DEF GetResult
<1>2. /\ step[w] = "match" /\ step'[w] = "fill" /\ hand'[w][1] = o
      /\ \A v \in Worker : v # w => step'[v] = step[v] /\ hand'[v] = hand[v]
      /\ UNCHANGED <<results, printing>>
  BY <1>1 DEF GetResult, TypeOK, outVars
<1>3. o \notin used \ pool /\ o \in used' \ pool' /\ used \ pool \subseteq used' \ pool'
  BY <1>1 DEF OwnerInv
<1> QED
  BY <1>2, <1>3 DEF OwnerInv

(* An early return puts the object of the worker back. *)
LEMMA ReleaseKeepsOwner ==
  ASSUME TypeOK, OwnerInv, NEW w \in Worker, step[w] # "match",
         pool' = pool \cup {hand[w][1]}, Release(w),
         UNCHANGED <<used, results, printing>>
  PROVE  OwnerInv'
<1>1. /\ step'[w] = "match"
      /\ \A v \in Worker : v # w => step'[v] = step[v] /\ hand'[v] = hand[v]
  BY DEF Release, TypeOK
<1> QED
  BY <1>1 DEF OwnerInv

(* A send hands the object over to the channel. *)
LEMMA SendKeepsOwner ==
  ASSUME TypeOK, OwnerInv, NEW w \in Worker, SendResult(w)
  PROVE  OwnerInv'
<1>1. /\ step[w] = "send" /\ step'[w] = "match"
      /\ \A v \in Worker : v # w => step'[v] = step[v] /\ hand'[v] = hand[v]
      /\ results' = Append(results, hand[w]) /\ results \in Seq(View)
      /\ hand[w] \in View
      /\ UNCHANGED <<pool, used, printing>>
  BY HandIsView DEF SendResult, Release, TypeOK, poolVars
<1>2. /\ Len(results) \in Nat /\ Len(results') = Len(results) + 1
      /\ \A i \in 1 .. Len(results) : results'[i] = results[i]
      /\ results'[Len(results) + 1] = hand[w]
  BY <1>1, AppendProperties, LenProperties
<1>3. \A i \in 1 .. Len(results') : i \in 1 .. Len(results) \/ i = Len(results) + 1
  BY <1>2
<1>4. \A v \in Worker : step'[v] # "match" => v # w /\ step[v] # "match"
  BY <1>1
<1>5. \A i \in 1 .. Len(results') :
        /\ results'[i][1] \in used \ pool
        /\ \A v \in Worker : step'[v] # "match" => hand'[v][1] # results'[i][1]
        /\ printing # None => results'[i][1] # printing[1]
  BY <1>1, <1>2, <1>3, <1>4 DEF OwnerInv
<1>6. \A i, j \in 1 .. Len(results') : j # i => results'[j][1] # results'[i][1]
  BY <1>1, <1>2, <1>3 DEF OwnerInv
<1>7. \A v \in Worker : step'[v] # "match" =>
        /\ hand'[v][1] \in used \ pool
        /\ \A u \in Worker : u # v /\ step'[u] # "match" => hand'[u][1] # hand'[v][1]
        /\ printing # None => hand'[v][1] # printing[1]
  BY <1>1, <1>4 DEF OwnerInv
<1> QED
  BY <1>1, <1>5, <1>6, <1>7 DEF OwnerInv

(* The output loop takes the oldest result. *)
LEMMA ReceiveKeepsOwner ==
  ASSUME TypeOK, OwnerInv, ReceiveResult
  PROVE  OwnerInv'
<1>1. /\ results \in Seq(View) /\ results # <<>>
      /\ printing' = Head(results) /\ results' = Tail(results)
      /\ UNCHANGED <<pool, used, hand, step>>
  BY DEF ReceiveResult, TypeOK, poolVars, workVars
<1>2. /\ Len(results) \in Nat \ {0} /\ Len(results') = Len(results) - 1
      /\ \A i \in 1 .. Len(results') : results'[i] = results[i + 1]
      /\ printing' = results[1]
  BY <1>1, HeadTailProperties, LenProperties, EmptySeq
<1>3. /\ 1 \in 1 .. Len(results)
      /\ \A i \in 1 .. Len(results') : i + 1 \in 1 .. Len(results) /\ i + 1 # 1
      /\ \A i, j \in 1 .. Len(results') : i # j => i + 1 # j + 1
  BY <1>2
<1>4. \A i \in 1 .. Len(results') :
        /\ results'[i][1] \in used \ pool
        /\ \A w \in Worker : step[w] # "match" => hand[w][1] # results'[i][1]
        /\ results'[i][1] # printing'[1]
  <2> SUFFICES ASSUME NEW i \in 1 .. Len(results), i # 1
               PROVE  /\ results[i][1] \in used \ pool
                      /\ \A w \in Worker : step[w] # "match" => hand[w][1] # results[i][1]
                      /\ results[i][1] # results[1][1]
    BY <1>2, <1>3
  <2> QED
    BY <1>3 DEF OwnerInv
<1>5. \A i, j \in 1 .. Len(results') : j # i => results'[j][1] # results'[i][1]
  BY <1>2, <1>3 DEF OwnerInv
<1>6. /\ printing'[1] \in used \ pool
      /\ \A w \in Worker : step[w] # "match" => hand[w][1] # printing'[1]
  BY <1>2, <1>3 DEF OwnerInv
<1>7. \A w \in Worker : step[w] # "match" =>
        /\ hand[w][1] \in used \ pool
        /\ \A v \in Worker : v # w /\ step[v] # "match" => hand[v][1] # hand[w][1]
  BY DEF OwnerInv
<1> QED
  BY <1>1, <1>4, <1>5, <1>6, <1>7 DEF OwnerInv

(* PutResult of the output loop. *)
LEMMA PutKeepsOwner ==
  ASSUME TypeOK, OwnerInv, PutResult
  PROVE  OwnerInv'
<1>1. /\ printing # None /\ printing' = None /\ pool' = pool \cup {printing[1]}
      /\ UNCHANGED <<used, hand, step, results>>
  BY DEF PutResult, workVars
<1> QED
  BY <1>1 DEF OwnerInv

LEMMA PoolStep ==
  ASSUME TypeOK, OwnerInv, [Next]_vars
  PROVE  TypeOK' /\ OwnerInv'
<1>1. ASSUME NEW w \in Worker, Work(w) PROVE OwnerInv'
  <2>1. CASE GetResult(w)
    BY <2>1, GetKeepsOwner
  <2>2. CASE FilterResult(w)
    <3>1. CASE Goto(w, "hook") /\ UNCHANGED pool
      BY <2>2, <3>1, StayKeepsOwner DEF FilterResult, Goto, outVars, TypeOK
    <3>2. CASE pool' = pool \cup {hand[w][1]} /\ Release(w)
      BY <2>2, <3>2, ReleaseKeepsOwner DEF FilterResult, outVars
    <3> QED
      BY <2>2, <3>1, <3>2 DEF FilterResult
  <2>3. CASE SendResult(w)
    BY <2>3, SendKeepsOwner
  <2>4. CASE FillResult(w) \/ Broadcast(w) \/ StartWebhook(w)
    BY <2>4, StayKeepsOwner DEF FillResult, Broadcast, StartWebhook, Goto, outVars,
       poolVars, TypeOK
  <2> QED
    BY <1>1, <2>1, <2>2, <2>3, <2>4 DEF Work
<1>2. ASSUME Output PROVE OwnerInv'
  BY <1>2, StayKeepsOwner, ReceiveKeepsOwner, PutKeepsOwner
  DEF Output, WriteHtml, poolVars, workVars
<1>3. ASSUME NEW c \in Client, Browse(c) PROVE OwnerInv'
  BY <1>3, StayKeepsOwner DEF Browse, Connect, ShowResult, Disconnect, CloseChannel,
     poolVars, workVars, outVars
<1>4. ASSUME NEW v \in hooks, PostWebhook(v) PROVE OwnerInv'
  BY <1>4, StayKeepsOwner DEF PostWebhook, poolVars, workVars, outVars
<1>5. CASE UNCHANGED vars
  <2>1. OwnerInv'
    BY <1>5, StayKeepsOwner DEF vars, poolVars, workVars, outVars
  <2>2. TypeOK'
    BY <1>5 DEF TypeOK, vars, poolVars, workVars, outVars, dashVars, hookVars
  <2> QED
    BY <2>1, <2>2
<1> QED
  BY <1>1, <1>2, <1>3, <1>4, <1>5, WorkKeepsTypes, OutputKeepsTypes, BrowseKeepsTypes,
     PostKeepsTypes DEF Next, Over

LEMMA PoolHolds == Spec => [](TypeOK /\ OwnerInv)
<1>1. Init => TypeOK /\ OwnerInv
  <2> SUFFICES ASSUME Init PROVE TypeOK /\ OwnerInv
    OBVIOUS
  <2>1. /\ <<>> \in Seq(View) /\ Len(<<>>) = 0
    BY EmptySeq
  <2>2. 0 \in 0 .. NumHits /\ 0 <= ResultCap /\ 0 <= ClientCap
    BY CapAssumption
  <2>3. TypeOK
    BY <2>1, <2>2 DEF Init, TypeOK
  <2>4. OwnerInv
    BY <2>1 DEF Init, OwnerInv
  <2> QED
    BY <2>3, <2>4
<1> QED
  BY <1>1, PoolStep, PTL DEF Spec

(* The types hold: objects in resultPool have been allocated, the channels *)
(* stay within their capacities, a worker holds an object exactly while it *)
(* is in handleMatch.                                                      *)
THEOREM TypeCorrect == Spec => []TypeOK
BY PoolHolds, PTL

(* Whatever the order of workers, output loop and reuse by sync.Pool, no   *)
(* *Result is put back while somebody owns it, and nobody owns one that    *)
(* another owns too.                                                       *)
THEOREM OneOwnerHolds == Spec => []OneOwner
<1>1. TypeOK /\ OwnerInv => OneOwner
  <2> SUFFICES ASSUME TypeOK, OwnerInv PROVE OneOwner
    OBVIOUS
  <2>1. DOMAIN results = 1 .. Len(results)
    BY LenProperties DEF TypeOK
  <2>2. \A v \in Owned :
          \/ \E w \in Worker : step[w] # "match" /\ v = hand[w]
          \/ \E i \in 1 .. Len(results) : v = results[i]
          \/ printing # None /\ v = printing
    BY <2>1 DEF Owned
  <2>3. \A v \in Owned : v[1] \notin pool
    BY <2>2 DEF OwnerInv
  <2>4. \A u, v \in Owned : u[1] = v[1] => u = v
    BY <2>2 DEF OwnerInv
  <2>5. \A i, j \in DOMAIN results : i # j => results[i] # results[j]
    BY <2>1 DEF OwnerInv
  <2> QED
    BY <2>3, <2>4, <2>5 DEF OneOwner
<1> QED
  BY <1>1, PoolHolds, PTL

-----------------------------------------------------------------------------
(* The dashboard. *)

(* A handler unregisters its channel before it closes it. *)
OpenInv == conn \in [Client -> {"away", "open", "leaving", "closed"}]
           /\ \A c \in registered : conn[c] = "open"

(* Broadcast sends on no channel that its handler has closed: in the       *)
(* deferred function of handleSSE the delete comes before the close.       *)
THEOREM RegisteredOpen == Spec => []RegisteredIsOpen
<1>1. Init => OpenInv
  BY DEF Init, OpenInv
<1>2. OpenInv /\ [Next]_vars => OpenInv'
  <2> SUFFICES ASSUME OpenInv, [Next]_vars PROVE OpenInv'
    OBVIOUS
  <2>1. ASSUME UNCHANGED <<conn, registered>> PROVE OpenInv'
    BY <2>1 DEF OpenInv
  <2>2. ASSUME NEW w \in Worker, Work(w) PROVE UNCHANGED <<conn, registered>>
    BY <2>2 DEF Work, GetResult, FillResult, FilterResult, Broadcast, StartWebhook,
       SendResult, dashVars
  <2>3. ASSUME Output PROVE UNCHANGED <<conn, registered>>
    BY <2>3 DEF Output, ReceiveResult, PutResult, WriteHtml, dashVars
  <2>4. ASSUME NEW c \in Client, Browse(c) PROVE OpenInv'
    <3>1. CASE Connect(c)
      BY <3>1 DEF Connect, OpenInv
    <3>2. CASE ShowResult(c)
      BY <2>1, <3>2 DEF ShowResult
    <3>3. CASE Disconnect(c)
      BY <3>3 DEF Disconnect, OpenInv
    <3>4. CASE CloseChannel(c)
      BY <3>4 DEF CloseChannel, OpenInv
    <3> QED
      BY <2>4, <3>1, <3>2, <3>3, <3>4 DEF Browse
  <2> QED
    BY <2>1, <2>2, <2>3, <2>4 DEF Next, PostWebhook, Over, vars, dashVars
<1>3. OpenInv => RegisteredIsOpen
  BY DEF OpenInv, RegisteredIsOpen
<1> QED
  BY <1>1, <1>2, <1>3, PTL DEF Spec

-----------------------------------------------------------------------------
(* OutputFiles, from here on.  First, sequences: s is a beginning of t.    *)
Starts(s, t) == Len(s) <= Len(t) /\ \A i \in 1 .. Len(s) : s[i] = t[i]

LEMMA StartsIsPrefix ==
  ASSUME NEW S, NEW s \in Seq(S), NEW t \in Seq(S), Starts(s, t)
  PROVE  IsPrefix(s, t)
<1>1. Len(s) \in Nat /\ Len(t) \in Nat BY LenProperties
<1>2. SubSeq(s, 1, Len(s)) = s BY SubSeqFull
<1>3. \A i \in 1 .. Len(s) : t[i] \in S BY <1>1, ElementOfSeq DEF Starts
<1>4. /\ SubSeq(t, 1, Len(s)) \in Seq(S) /\ Len(SubSeq(t, 1, Len(s))) = Len(s)
      /\ \A i \in 1 .. Len(s) : SubSeq(t, 1, Len(s))[i] = t[i]
  <2>1. /\ SubSeq(t, 1, Len(s)) \in Seq(S)
        /\ Len(SubSeq(t, 1, Len(s))) = IF 1 <= Len(s) THEN Len(s) - 1 + 1 ELSE 0
        /\ \A i \in 1 .. Len(s) - 1 + 1 : SubSeq(t, 1, Len(s))[i] = t[1 + i - 1]
    BY <1>1, <1>3, SubSeqProperties, SMT
  <2> QED BY <2>1, <1>1
<1>5. SubSeq(t, 1, Len(s)) = s BY <1>4, SeqEqual DEF Starts
<1> QED BY <1>2, <1>5 DEF IsPrefix, Starts

LEMMA StartsConcat ==
  ASSUME NEW S, NEW s \in Seq(S), NEW t \in Seq(S)
  PROVE  Starts(s, s \o t)
<1>1. Len(s) \in Nat /\ Len(t) \in Nat BY LenProperties
<1> QED BY <1>1, ConcatProperties DEF Starts

LEMMA StartsTrans ==
  ASSUME NEW S, NEW s \in Seq(S), NEW t \in Seq(S), NEW u \in Seq(S),
         Starts(s, t), Starts(t, u)
  PROVE  Starts(s, u)
BY LenProperties DEF Starts

LEMMA StartsAll ==
  ASSUME NEW S, NEW s \in Seq(S), NEW t \in Seq(S), Starts(s, t), Len(t) <= Len(s)
  PROVE  s = t
BY LenProperties, SeqEqual DEF Starts

(* A piece moves from the front of one sequence to the end of another. *)
LEMMA Move ==
  ASSUME NEW S, NEW s \in Seq(S), NEW t \in Seq(S), t # <<>>
  PROVE  Append(s, Head(t)) \o Tail(t) = s \o t
<1>1. Head(t) \in S /\ Tail(t) \in Seq(S) BY HeadTailProperties
<1>2. Append(s, Head(t)) = s \o <<Head(t)>> BY <1>1, AppendIsConcat
<1>3. <<Head(t)>> \in Seq(S) BY <1>1
<1>4. <<Head(t)>> \o Tail(t) = t
  <2>1. /\ Len(<<Head(t)>>) = 1 /\ <<Head(t)>>[1] = Head(t)
        /\ Len(Tail(t)) = Len(t) - 1 /\ Len(t) \in Nat \ {0}
        /\ \A i \in 1 .. Len(Tail(t)) : Tail(t)[i] = t[i + 1]
        /\ Head(t) = t[1]
    BY HeadTailProperties, LenProperties, EmptySeq
  <2>2. /\ <<Head(t)>> \o Tail(t) \in Seq(S)
        /\ Len(<<Head(t)>> \o Tail(t)) = 1 + Len(Tail(t))
        /\ \A i \in 1 .. 1 + Len(Tail(t)) : (<<Head(t)>> \o Tail(t))[i] =
                     IF i <= 1 THEN <<Head(t)>>[1] ELSE Tail(t)[i - 1]
    BY <1>1, <1>3, <2>1, ConcatProperties
  <2>3. \A i \in 1 .. Len(t) : (<<Head(t)>> \o Tail(t))[i] = t[i]
    BY <2>1, <2>2
  <2> QED BY <2>1, <2>2, <2>3, SeqEqual
<1> QED BY <1>1, <1>2, <1>3, <1>4, ConcatAssociative

LEMMA PieceAssoc == \A s, t, u \in Seq(Piece) : (s \o t) \o u = s \o (t \o u)
<1> TAKE s, t, u \in Seq(Piece)
<1> QED BY ConcatAssociative

LEMMA MoveBehind ==
  \A s, t, u \in Seq(Piece) :
    u # <<>> => (s \o Append(t, Head(u))) \o Tail(u) = (s \o t) \o u
<1> TAKE s, t, u \in Seq(Piece)
<1> HAVE u # <<>>
<1>1. Append(t, Head(u)) \in Seq(Piece) /\ Tail(u) \in Seq(Piece)
  BY HeadTailProperties, AppendProperties
<1>2. Append(t, Head(u)) \o Tail(u) = t \o u BY Move
<1>3. \A a, b \in Seq(Piece) : (s \o a) \o b = s \o (a \o b) BY PieceAssoc, Zenon
<1>4. (s \o t) \o u = s \o (t \o u) BY PieceAssoc, Zenon
<1>5. (s \o Append(t, Head(u))) \o Tail(u) = s \o (Append(t, Head(u)) \o Tail(u))
  BY <1>1, <1>3, Zenon
<1> QED BY <1>2, <1>4, <1>5, Zenon

-----------------------------------------------------------------------------
(* The outstanding writes s have the pieces ps for the file p: they lie    *)
(* side by side, because each stream is written to once in a row.          *)
Owes(s, p, ps) ==
  \E a \in 0 .. Len(s) :
    /\ \A i \in DOMAIN ps : a + i \in DOMAIN s /\ s[a + i] = <<p, ps[i]>>
    /\ \A k \in DOMAIN s : s[k][1] = p <=> a < k /\ k <= a + Len(ps)

LEMMA OwesNothing == \A p : Owes(<<>>, p, <<>>)
BY DEF Owes

LEMMA NothingLeft ==
  ASSUME NEW S, NEW p, NEW ps \in Seq(S), Owes(<<>>, p, ps)
  PROVE  ps = <<>>
<1>1. \A i \in DOMAIN ps : FALSE BY DEF Owes
<1> QED BY <1>1, LenProperties, EmptySeq

LEMMA OwesHead ==
  ASSUME NEW F, NEW S, NEW s \in Seq(F \X S), s # <<>>, NEW p, NEW ps \in Seq(S),
         Owes(s, p, ps)
  PROVE  IF Head(s)[1] = p THEN /\ ps # <<>> /\ Head(s)[2] = Head(ps)
                                /\ Owes(Tail(s), p, Tail(ps))
                           ELSE Owes(Tail(s), p, ps)
<1>1. /\ Len(s) \in Nat \ {0} /\ DOMAIN s = 1 .. Len(s) /\ s[1] = Head(s)
      /\ Tail(s) \in Seq(F \X S)
      /\ DOMAIN Tail(s) = 1 .. Len(Tail(s)) /\ Len(Tail(s)) = Len(s) - 1
      /\ \A i \in 1 .. Len(s) - 1 : Tail(s)[i] = s[i + 1]
  BY HeadTailProperties, LenProperties, EmptySeq
<1>2. Len(ps) \in Nat /\ DOMAIN ps = 1 .. Len(ps) BY LenProperties
<1>3. PICK a \in 0 .. Len(s) :
        /\ \A i \in 1 .. Len(ps) : a + i \in 1 .. Len(s) /\ s[a + i] = <<p, ps[i]>>
        /\ \A k \in 1 .. Len(s) : s[k][1] = p <=> a < k /\ k <= a + Len(ps)
  BY <1>1, <1>2 DEF Owes
<1>4. CASE Head(s)[1] = p
  <2>1. a = 0 /\ Len(ps) >= 1 BY <1>1, <1>2, <1>3, <1>4
  <2>2. /\ ps # <<>> /\ ps[1] = Head(ps) /\ Tail(ps) \in Seq(S)
        /\ DOMAIN Tail(ps) = 1 .. Len(ps) - 1 /\ Len(Tail(ps)) = Len(ps) - 1
        /\ \A i \in 1 .. Len(ps) - 1 : Tail(ps)[i] = ps[i + 1]
    <3>1. ps # <<>> BY <2>1, EmptySeq
    <3> QED BY <2>1, <3>1, HeadTailProperties, LenProperties
  <2>3. Head(s)[2] = Head(ps) BY <1>1, <1>2, <1>3, <2>1, <2>2
  <2>4. \A i \in DOMAIN Tail(ps) :
          0 + i \in DOMAIN Tail(s) /\ Tail(s)[0 + i] = <<p, Tail(ps)[i]>>
    BY <1>1, <1>2, <1>3, <2>1, <2>2
  <2>5. \A k \in DOMAIN Tail(s) :
          Tail(s)[k][1] = p <=> 0 < k /\ k <= 0 + Len(Tail(ps))
    BY <1>1, <1>2, <1>3, <2>1, <2>2
  <2>6. Owes(Tail(s), p, Tail(ps))
    <3>1. 0 \in 0 .. Len(Tail(s)) BY <1>1
    <3> QED BY <3>1, <2>4, <2>5, Zenon DEF Owes
  <2> QED BY <1>4, <2>2, <2>3, <2>6
<1>5. CASE Head(s)[1] # p
  <2>1. a >= 1 \/ Len(ps) = 0 BY <1>1, <1>2, <1>3, <1>5
  <2> DEFINE b == IF a >= 1 THEN a - 1 ELSE 0
  <2>2. b \in 0 .. Len(s) - 1 BY <1>1, <1>3
  <2>3. \A i \in 1 .. Len(ps) : b + i \in 1 .. Len(s) - 1 /\ Tail(s)[b + i] = <<p, ps[i]>>
    BY <1>1, <1>2, <1>3, <2>1
  <2>4. \A k \in 1 .. Len(s) - 1 : Tail(s)[k][1] = p <=> b < k /\ k <= b + Len(ps)
    BY <1>1, <1>2, <1>3, <2>1
  <2>5. Owes(Tail(s), p, ps)
    <3> HIDE DEF b
    <3> QED BY <1>1, <1>2, <2>2, <2>3, <2>4 DEF Owes
  <2> QED BY <1>5, <2>5
<1> QED BY <1>4, <1>5

LEMMA OwesConcat ==
  ASSUME NEW F, NEW S, NEW s \in Seq(F \X S), NEW t \in Seq(F \X S), NEW p,
         NEW ps \in Seq(S), NEW qs \in Seq(S), Owes(s, p, ps), Owes(t, p, qs),
         ps = <<>> \/ qs = <<>>
  PROVE  Owes(s \o t, p, ps \o qs)
<1> DEFINE st == s \o t
<1>1. /\ Len(s) \in Nat /\ DOMAIN s = 1 .. Len(s)
      /\ Len(t) \in Nat /\ DOMAIN t = 1 .. Len(t)
      /\ Len(st) = Len(s) + Len(t) /\ DOMAIN st = 1 .. Len(s) + Len(t)
      /\ \A k \in 1 .. Len(s) : st[k] = s[k]
      /\ \A k \in Len(s) + 1 .. Len(s) + Len(t) : st[k] = t[k - Len(s)]
  <2>1. st \in Seq(F \X S) BY ConcatProperties
  <2> QED BY <2>1, ConcatProperties, LenProperties
<1>2. /\ Len(ps) \in Nat /\ DOMAIN ps = 1 .. Len(ps)
      /\ Len(qs) \in Nat /\ DOMAIN qs = 1 .. Len(qs)
  BY LenProperties
<1>3. PICK a \in 0 .. Len(s) :
        /\ \A i \in 1 .. Len(ps) : a + i \in 1 .. Len(s) /\ s[a + i] = <<p, ps[i]>>
        /\ \A k \in 1 .. Len(s) : s[k][1] = p <=> a < k /\ k <= a + Len(ps)
  BY <1>1, <1>2 DEF Owes
<1>4. PICK b \in 0 .. Len(t) :
        /\ \A i \in 1 .. Len(qs) : b + i \in 1 .. Len(t) /\ t[b + i] = <<p, qs[i]>>
        /\ \A k \in 1 .. Len(t) : t[k][1] = p <=> b < k /\ k <= b + Len(qs)
  BY <1>1, <1>2 DEF Owes
<1> HIDE DEF st
<1>5. CASE ps = <<>>
  <2>1. Len(ps) = 0 /\ ps \o qs = qs BY <1>5, ConcatEmptySeq
  <2>2. \A i \in DOMAIN qs : (Len(s) + b) + i \in DOMAIN st
                             /\ st[(Len(s) + b) + i] = <<p, qs[i]>>
    <3> SUFFICES ASSUME NEW i \in 1 .. Len(qs)
                 PROVE  (Len(s) + b) + i \in DOMAIN st
                        /\ st[(Len(s) + b) + i] = <<p, qs[i]>>
      BY <1>2
    <3>1. b + i \in 1 .. Len(t) /\ t[b + i] = <<p, qs[i]>> BY <1>4
    <3>2. (Len(s) + b) + i \in Len(s) + 1 .. Len(s) + Len(t)
          /\ ((Len(s) + b) + i) - Len(s) = b + i
      BY <1>1, <1>2, <3>1
    <3>3. st[(Len(s) + b) + i] = t[b + i] BY <1>1, <3>2
    <3> QED BY <1>1, <3>1, <3>2, <3>3
  <2>3. \A k \in DOMAIN st :
          st[k][1] = p <=> Len(s) + b < k /\ k <= (Len(s) + b) + Len(qs)
    <3> SUFFICES ASSUME NEW k \in 1 .. Len(s) + Len(t)
                 PROVE  st[k][1] = p <=> Len(s) + b < k /\ k <= (Len(s) + b) + Len(qs)
      BY <1>1
    <3>1. CASE k <= Len(s) BY <1>1, <1>2, <1>3, <2>1, <3>1
    <3>2. CASE k > Len(s)
      <4>1. k - Len(s) \in 1 .. Len(t) /\ st[k] = t[k - Len(s)] BY <1>1, <3>2
      <4>2. t[k - Len(s)][1] = p <=> b < k - Len(s) /\ k - Len(s) <= b + Len(qs)
        BY <1>4, <4>1
      <4>3. /\ b < k - Len(s) <=> Len(s) + b < k
            /\ k - Len(s) <= b + Len(qs) <=> k <= (Len(s) + b) + Len(qs)
        BY <1>1, <1>2
      <4> QED BY <4>1, <4>2, <4>3
    <3> QED BY <1>1, <3>1, <3>2
  <2>4. Len(s) + b \in 0 .. Len(st) BY <1>1
  <2>5. Owes(st, p, qs) BY <2>2, <2>3, <2>4, Zenon DEF Owes
  <2> QED BY <2>1, <2>5 DEF st
<1>6. CASE qs = <<>>
  <2>1. Len(qs) = 0 /\ ps \o qs = ps BY <1>6, ConcatEmptySeq
  <2>2. \A i \in DOMAIN ps : a + i \in DOMAIN st /\ st[a + i] = <<p, ps[i]>>
    BY <1>1, <1>2, <1>3
  <2>3. \A k \in DOMAIN st : st[k][1] = p <=> a < k /\ k <= a + Len(ps)
    <3> SUFFICES ASSUME NEW k \in 1 .. Len(s) + Len(t)
                 PROVE  st[k][1] = p <=> a < k /\ k <= a + Len(ps)
      BY <1>1
    <3>0. a + Len(ps) <= Len(s)
      <4>1. CASE Len(ps) = 0 BY <4>1, <1>1
      <4>2. CASE Len(ps) # 0
        <5>1. Len(ps) \in 1 .. Len(ps) BY <4>2, <1>2
        <5> QED BY <5>1, <1>3, <1>1
      <4> QED BY <4>1, <4>2
    <3>1. CASE k <= Len(s) BY <1>1, <1>2, <1>3, <3>1
    <3>2. CASE k > Len(s)
      <4>1. k - Len(s) \in 1 .. Len(t) /\ st[k] = t[k - Len(s)] BY <1>1, <3>2
      <4>2. t[k - Len(s)][1] # p BY <1>1, <1>2, <1>4, <2>1, <4>1
      <4> QED BY <1>1, <1>2, <3>0, <3>2, <4>1, <4>2
    <3> QED BY <1>1, <3>1, <3>2
  <2>4. a \in 0 .. Len(st) BY <1>1
  <2>5. Owes(st, p, ps) BY <2>2, <2>3, <2>4, Zenon DEF Owes
  <2> QED BY <2>1, <2>5 DEF st
<1> QED BY <1>5, <1>6

LEMMA OwesTo ==
  ASSUME NEW S, NEW q, NEW ps \in Seq(S), NEW p, p # NoWord
  PROVE  Owes(To(q, ps), p, IF p = q THEN ps ELSE <<>>)
<1>1. Len(ps) \in Nat /\ DOMAIN ps = 1 .. Len(ps) BY LenProperties
<1>2. CASE q = NoWord BY <1>2, OwesNothing DEF To
<1>3. CASE q # NoWord
  <2> DEFINE s == To(q, ps)
  <2>1. s = [k \in 1 .. Len(ps) |-> <<q, ps[k]>>] BY <1>1, <1>3 DEF To
  <2>2. DOMAIN s = 1 .. Len(ps) /\ Len(s) = Len(ps)
        /\ \A k \in 1 .. Len(ps) : s[k] = <<q, ps[k]>>
    BY <1>1, <2>1
  <2> HIDE DEF s
  <2>3. CASE p = q
    <3>1. \A i \in DOMAIN ps : 0 + i \in DOMAIN s /\ s[0 + i] = <<p, ps[i]>>
      BY <1>1, <2>2, <2>3
    <3>2. \A k \in DOMAIN s : s[k][1] = p <=> 0 < k /\ k <= 0 + Len(ps)
      BY <1>1, <2>2, <2>3
    <3>3. 0 \in 0 .. Len(s) BY <1>1, <2>2
    <3>4. Owes(s, p, ps) BY <3>1, <3>2, <3>3, Zenon DEF Owes
    <3> QED BY <2>3, <3>4 DEF s
  <2>4. CASE p # q
    <3>1. \A k \in DOMAIN s : s[k][1] = p <=> 0 < k /\ k <= 0 + Len(<<>>)
      BY <1>1, <2>2, <2>4
    <3>2. \A i \in DOMAIN <<>> : 0 + i \in DOMAIN s /\ s[0 + i] = <<p, <<>>[i]>>
      OBVIOUS
    <3>3. 0 \in 0 .. Len(s) BY <1>1, <2>2
    <3>4. Owes(s, p, <<>>) BY <3>1, <3>2, <3>3, Zenon DEF Owes
    <3> QED BY <2>4, <3>4 DEF s
  <2> QED BY <2>3, <2>4
<1> QED BY <1>2, <1>3

LEMMA ToType ==
  ASSUME NEW F, NEW S, NEW q \in F \cup {NoWord}, NEW ps \in Seq(S)
  PROVE  To(q, ps) \in Seq(F \X S)
<1>1. Len(ps) \in Nat /\ DOMAIN ps = 1 .. Len(ps)
      /\ \A k \in 1 .. Len(ps) : ps[k] \in S
  BY LenProperties, ElementOfSeq
<1>2. CASE q = NoWord BY <1>2 DEF To
<1>3. CASE q # NoWord
  <2>1. To(q, ps) = [k \in 1 .. Len(ps) |-> <<q, ps[k]>>] BY <1>1, <1>3 DEF To
  <2>2. \A k \in 1 .. Len(ps) : <<q, ps[k]>> \in F \X S BY <1>1, <1>3
  <2>3. [k \in 1 .. Len(ps) |-> <<q, ps[k]>>] \in [1 .. Len(ps) -> F \X S] BY <2>2
  <2>4. \E n \in Nat : To(q, ps) \in [1 .. n -> F \X S] BY <1>1, <2>1, <2>3, Zenon
  <2>5. To(q, ps) \in UNION {[1 .. n -> F \X S] : n \in Nat} BY <2>4
  <2> QED BY <2>5, SeqDef
<1> QED BY <1>2, <1>3

-----------------------------------------------------------------------------
(* JSON documents: a result is at every even place. *)

LEMMA EvenOrOdd ==
  ASSUME NEW k \in Nat
  PROVE  \E i \in Nat : k = 2 * i \/ k = 2 * i + 1
<1>1. k \div 2 \in Nat /\ (k = 2 * (k \div 2) \/ k = 2 * (k \div 2) + 1)
  OBVIOUS
<1> QED BY <1>1

LEMMA Halves ==
  ASSUME NEW i \in Int
  PROVE  /\ (2 * i) % 2 = 0 /\ (2 * i - 1) % 2 = 1
         /\ ((2 * i + 1) - 1) \div 2 = i /\ ((2 * i - 1) + 1) \div 2 = i
OBVIOUS

LEMMA InnerIs ==
  ASSUME NEW rs \in Seq(Piece), NEW n \in 0 .. Len(rs)
  PROVE  /\ Inner(rs, n) \in Seq(Piece)
         /\ Len(Inner(rs, n)) = IF n = 0 THEN 0 ELSE 2 * n - 1
         /\ \A i \in 1 .. n : Inner(rs, n)[2 * i - 1] = rs[i]
         /\ \A i \in 1 .. n - 1 : Inner(rs, n)[2 * i] = "comma"
<1> DEFINE l == IF n = 0 THEN 0 ELSE 2 * n - 1
           x == Inner(rs, n)
<1>1. Len(rs) \in Nat /\ n \in Nat /\ l \in Nat BY LenProperties
<1>2. x = [k \in 1 .. l |-> IF k % 2 = 1 THEN rs[(k + 1) \div 2] ELSE "comma"]
  BY DEF Inner
<1>3. \A i \in 1 .. n : 2 * i - 1 \in 1 .. l /\ x[2 * i - 1] = rs[i]
  <2> SUFFICES ASSUME NEW i \in 1 .. n
               PROVE  2 * i - 1 \in 1 .. l /\ x[2 * i - 1] = rs[i]
    OBVIOUS
  <2>1. 2 * i - 1 \in 1 .. l BY <1>1
  <2>2. (2 * i - 1) % 2 = 1 /\ ((2 * i - 1) + 1) \div 2 = i BY Halves
  <2> HIDE DEF l, x
  <2> QED BY <1>2, <2>1, <2>2
<1>4. \A i \in 1 .. n - 1 : 2 * i \in 1 .. l /\ x[2 * i] = "comma"
  <2> SUFFICES ASSUME NEW i \in 1 .. n - 1
               PROVE  2 * i \in 1 .. l /\ x[2 * i] = "comma"
    OBVIOUS
  <2>1. 2 * i \in 1 .. l BY <1>1
  <2>2. (2 * i) % 2 # 1 BY Halves
  <2> HIDE DEF l, x
  <2> QED BY <1>2, <2>1, <2>2
<1>5. \A k \in 1 .. l : x[k] \in Piece
  <2> SUFFICES ASSUME NEW k \in 1 .. l PROVE x[k] \in Piece
    OBVIOUS
  <2>0. k \in Nat BY <1>1
  <2>1. PICK i \in Nat : k = 2 * i \/ k = 2 * i + 1
    <3> HIDE DEF l, x
    <3> QED BY <2>0, EvenOrOdd
  <2>2. CASE k = 2 * i
    <3>1. i \in 1 .. n - 1 BY <1>1, <2>2
    <3> HIDE DEF x
    <3> QED BY <1>4, <2>2, <3>1 DEF Piece
  <2>3. CASE k = 2 * i + 1
    <3>1. i + 1 \in 1 .. n /\ k = 2 * (i + 1) - 1 BY <1>1, <2>3
    <3>2. rs[i + 1] \in Piece BY <1>1, <3>1, ElementOfSeq
    <3> HIDE DEF x, l
    <3> QED BY <1>3, <3>1, <3>2
  <2> QED BY <2>1, <2>2, <2>3
<1>6. x \in Seq(Piece) /\ Len(x) = l
  <2> HIDE DEF l
  <2>1. DOMAIN x = 1 .. l /\ x = [k \in 1 .. l |-> x[k]] BY <1>2
  <2> HIDE DEF x
  <2>2. x \in [1 .. l -> Piece] BY <1>5, <2>1
  <2>3. x \in UNION {[1 .. m -> Piece] : m \in Nat} BY <1>1, <2>2
  <2> QED BY <1>1, <2>1, <2>3, SeqDef
<1> QED BY <1>3, <1>4, <1>6

LEMMA InnerNext ==
  ASSUME NEW rs \in Seq(Piece), NEW n \in Nat, n < Len(rs)
  PROVE  Inner(rs, n + 1) =
           Inner(rs, n) \o (IF n = 0 THEN <<rs[1]>> ELSE <<"comma", rs[n + 1]>>)
<1> DEFINE more == IF n = 0 THEN <<rs[1]>> ELSE <<"comma", rs[n + 1]>>
           x == Inner(rs, n)
           y == Inner(rs, n + 1)
<1>1. Len(rs) \in Nat /\ n \in 0 .. Len(rs) /\ n + 1 \in 0 .. Len(rs)
      /\ rs[n + 1] \in Piece
  BY LenProperties, ElementOfSeq
<1>2. more \in Seq(Piece) /\ Len(more) = (IF n = 0 THEN 1 ELSE 2)
      /\ (n = 0 => more[1] = rs[1]) /\ (n # 0 => more[1] = "comma" /\ more[2] = rs[n + 1])
  <2>1. CASE n = 0
    <3>1. <<rs[1]>> \in Seq(Piece) /\ Len(<<rs[1]>>) = 1 /\ <<rs[1]>>[1] = rs[1]
      BY <1>1, <2>1
    <3> QED BY <2>1, <3>1
  <2>2. CASE n # 0
    <3> DEFINE e == rs[n + 1]
    <3>1. e \in Piece /\ "comma" \in Piece BY <1>1 DEF Piece
    <3> HIDE DEF e
    <3>2. /\ <<"comma", e>> \in Seq(Piece) /\ Len(<<"comma", e>>) = 2
          /\ <<"comma", e>>[1] = "comma" /\ <<"comma", e>>[2] = e
      BY <3>1
    <3> QED BY <2>2, <3>2 DEF e
  <2> QED BY <2>1, <2>2
<1>3. /\ x \in Seq(Piece) /\ Len(x) = IF n = 0 THEN 0 ELSE 2 * n - 1
      /\ \A i \in 1 .. n : x[2 * i - 1] = rs[i]
      /\ \A i \in 1 .. n - 1 : x[2 * i] = "comma"
  BY <1>1, InnerIs
<1>4. /\ y \in Seq(Piece) /\ Len(y) = 2 * n + 1
      /\ \A i \in 1 .. n + 1 : y[2 * i - 1] = rs[i]
      /\ \A i \in 1 .. n : y[2 * i] = "comma"
  <2>1. /\ y \in Seq(Piece) /\ Len(y) = IF n + 1 = 0 THEN 0 ELSE 2 * (n + 1) - 1
        /\ \A i \in 1 .. n + 1 : y[2 * i - 1] = rs[i]
        /\ \A i \in 1 .. n + 1 - 1 : y[2 * i] = "comma"
    BY <1>1, InnerIs
  <2> HIDE DEF y
  <2> QED BY <2>1
<1> HIDE DEF more, x, y
<1>5. /\ x \o more \in Seq(Piece) /\ Len(x \o more) = Len(x) + Len(more)
      /\ \A k \in 1 .. Len(x) + Len(more) :
           (x \o more)[k] = IF k <= Len(x) THEN x[k] ELSE more[k - Len(x)]
  BY <1>2, <1>3, ConcatProperties
<1>6. Len(x) + Len(more) = 2 * n + 1 BY <1>2, <1>3
<1>7. \A k \in 1 .. 2 * n + 1 : y[k] = (x \o more)[k]
  <2> SUFFICES ASSUME NEW k \in 1 .. 2 * n + 1 PROVE y[k] = (x \o more)[k]
    OBVIOUS
  <2>0. (x \o more)[k] = IF k <= Len(x) THEN x[k] ELSE more[k - Len(x)] BY <1>5, <1>6
  <2>1. k \in Nat OBVIOUS
  <2>2. PICK i \in Nat : k = 2 * i \/ k = 2 * i + 1 BY <2>1, EvenOrOdd
  <2>3. CASE k = 2 * i
    <3>1. i \in 1 .. n /\ n # 0 /\ (i \in 1 .. n - 1 \/ i = n) BY <2>3
    <3>2. y[k] = "comma" BY <1>4, <2>3, <3>1
    <3>3. CASE i \in 1 .. n - 1
      <4>1. k <= Len(x) BY <1>3, <2>3, <3>1, <3>3
      <4> QED BY <1>3, <2>0, <2>3, <3>2, <3>3, <4>1
    <3>4. CASE i = n
      <4>1. ~(k <= Len(x)) /\ k - Len(x) = 1 BY <1>3, <2>3, <3>1, <3>4
      <4> QED BY <1>2, <2>0, <3>1, <3>2, <4>1
    <3> QED BY <3>1, <3>3, <3>4, Zenon
  <2>4. CASE k = 2 * i + 1
    <3>1. i + 1 \in 1 .. n + 1 /\ k = 2 * (i + 1) - 1 /\ (i + 1 \in 1 .. n \/ i = n)
      BY <2>4
    <3>2. y[k] = rs[i + 1] BY <1>4, <3>1
    <3>3. CASE i + 1 \in 1 .. n
      <4>1. k <= Len(x) BY <1>3, <2>4, <3>1, <3>3
      <4> QED BY <1>3, <2>0, <3>1, <3>2, <3>3, <4>1
    <3>4. CASE i = n
      <4>1. ~(k <= Len(x)) /\ k - Len(x) = (IF n = 0 THEN 1 ELSE 2)
        BY <1>3, <2>4, <3>1, <3>4
      <4> QED BY <1>2, <2>0, <3>2, <3>4, <4>1
    <3> QED BY <3>1, <3>3, <3>4, Zenon
  <2> QED BY <2>2, <2>3, <2>4
<1>8. y = x \o more BY <1>4, <1>5, <1>6, <1>7, SeqEqual
<1> QED BY <1>8 DEF more, x, y

LEMMA JsonIs ==
  ASSUME NEW rs \in Seq(Piece)
  PROVE  /\ JsonOf(rs) \in Seq(Piece)
         /\ Len(JsonOf(rs)) = IF Len(rs) = 0 THEN 2 ELSE 2 * Len(rs) + 1
         /\ JsonOf(rs)[1] = "begin"
         /\ JsonOf(rs)[Len(JsonOf(rs))] = "end"
         /\ \A i \in 1 .. Len(rs) : JsonOf(rs)[2 * i] = rs[i]
         /\ \A i \in 1 .. Len(rs) - 1 : JsonOf(rs)[2 * i + 1] = "comma"
<1> DEFINE n == Len(rs)
           x == Inner(rs, n)
           a == <<"begin">> \o x
           J == a \o <<"end">>
<1>1. Len(rs) \in Nat /\ n \in Nat /\ n \in 0 .. Len(rs) BY LenProperties
<1>2. /\ x \in Seq(Piece) /\ Len(x) = IF n = 0 THEN 0 ELSE 2 * n - 1
      /\ \A i \in 1 .. n : x[2 * i - 1] = rs[i]
      /\ \A i \in 1 .. n - 1 : x[2 * i] = "comma"
  <2>1. \A m \in 0 .. Len(rs) :
          /\ Inner(rs, m) \in Seq(Piece)
          /\ Len(Inner(rs, m)) = IF m = 0 THEN 0 ELSE 2 * m - 1
          /\ \A i \in 1 .. m : Inner(rs, m)[2 * i - 1] = rs[i]
          /\ \A i \in 1 .. m - 1 : Inner(rs, m)[2 * i] = "comma"
    BY InnerIs
  <2> HIDE DEF n
  <2> QED BY <1>1, <2>1, Zenon
<1>3. <<"begin">> \in Seq(Piece) /\ <<"end">> \in Seq(Piece) BY DEF Piece
<1> HIDE DEF x, n
<1>4. /\ a \in Seq(Piece) /\ Len(a) = 1 + Len(x) /\ a[1] = "begin"
      /\ \A k \in 2 .. 1 + Len(x) : a[k] = x[k - 1]
  BY <1>2, <1>3, ConcatProperties
<1> HIDE DEF a
<1>5. /\ J \in Seq(Piece) /\ Len(J) = Len(a) + 1
      /\ \A k \in 1 .. Len(a) : J[k] = a[k]
      /\ J[Len(a) + 1] = "end"
  <2>1. /\ J \in Seq(Piece) /\ Len(J) = Len(a) + Len(<<"end">>)
        /\ \A k \in 1 .. Len(a) + Len(<<"end">>) :
             J[k] = IF k <= Len(a) THEN a[k] ELSE <<"end">>[k - Len(a)]
    BY <1>3, <1>4, ConcatProperties
  <2>2. Len(<<"end">>) = 1 /\ <<"end">>[1] = "end" /\ Len(a) \in Nat
    BY <1>4, LenProperties
  <2> HIDE DEF J
  <2>3. \A k \in 1 .. Len(a) : J[k] = a[k] BY <2>1, <2>2
  <2>4. Len(a) + 1 \in 1 .. Len(a) + Len(<<"end">>) /\ ~(Len(a) + 1 <= Len(a))
        /\ (Len(a) + 1) - Len(a) = 1
    BY <2>2
  <2> QED BY <2>1, <2>2, <2>3, <2>4
<1> HIDE DEF J
<1>6. \A i \in 1 .. n : J[2 * i] = rs[i]
  <2> SUFFICES ASSUME NEW i \in 1 .. n PROVE J[2 * i] = rs[i]
    OBVIOUS
  <2>1. 2 * i \in 2 .. 1 + Len(x) /\ 2 * i \in 1 .. Len(a) BY <1>1, <1>2, <1>4
  <2> QED BY <1>2, <1>4, <1>5, <2>1
<1>7. \A i \in 1 .. n - 1 : J[2 * i + 1] = "comma"
  <2> SUFFICES ASSUME NEW i \in 1 .. n - 1 PROVE J[2 * i + 1] = "comma"
    OBVIOUS
  <2>1. 2 * i + 1 \in 2 .. 1 + Len(x) /\ 2 * i + 1 \in 1 .. Len(a)
        /\ (2 * i + 1) - 1 = 2 * i
    BY <1>1, <1>2, <1>4
  <2>2. J[2 * i + 1] = a[2 * i + 1] BY <1>5, <2>1
  <2>3. a[2 * i + 1] = x[2 * i] BY <1>4, <2>1
  <2> QED BY <1>2, <2>2, <2>3
<1>8. Len(J) = IF n = 0 THEN 2 ELSE 2 * n + 1 BY <1>1, <1>2, <1>4, <1>5
<1>9. J[1] = "begin" /\ J[Len(J)] = "end" BY <1>1, <1>2, <1>4, <1>5
<1>10. J = JsonOf(rs) BY DEF J, a, x, n, JsonOf
<1> QED BY <1>5, <1>6, <1>7, <1>8, <1>9, <1>10 DEF n

LEMMA ResultIsPiece ==
  /\ Result \subseteq Piece
  /\ \A r \in Result : r # "begin" /\ r # "comma" /\ r # "end"
  /\ \A rs \in Seq(Result) : rs \in Seq(Piece)
<1>1. Result \subseteq Piece BY DEF Piece
<1>2. \A r \in Result : r # "begin" /\ r # "comma" /\ r # "end" BY FindingAssumption
<1>3. \A rs \in Seq(Result) : rs \in Seq(Piece)
  <2> TAKE rs \in Seq(Result)
  <2> QED BY <1>1, SeqMonotonic
<1> QED BY <1>1, <1>2, <1>3

(* The closing bracket of an array of results is its last piece. *)
LEMMA OnlyLastCloses ==
  ASSUME NEW rs \in Seq(Result), NEW k \in 1 .. Len(JsonOf(rs)), JsonOf(rs)[k] = "end"
  PROVE  k = Len(JsonOf(rs))
<1> DEFINE J == JsonOf(rs)
           n == Len(rs)
<1>1. rs \in Seq(Piece) /\ n \in Nat BY ResultIsPiece, LenProperties
<1>2. /\ Len(J) = IF n = 0 THEN 2 ELSE 2 * n + 1
      /\ J[1] = "begin"
      /\ \A i \in 1 .. n : J[2 * i] = rs[i]
      /\ \A i \in 1 .. n - 1 : J[2 * i + 1] = "comma"
  BY <1>1, JsonIs
<1>3. \A i \in 1 .. n : rs[i] # "end"
  <2> TAKE i \in 1 .. n
  <2>1. rs[i] \in Result BY ElementOfSeq
  <2> QED BY <2>1, ResultIsPiece
<1>4. "comma" # "end" /\ "begin" # "end" OBVIOUS
<1> HIDE DEF J, n
<1>5. k \in Nat /\ k >= 1 /\ k <= Len(J) BY <1>1, <1>2 DEF J
<1>6. J[k] = "end" BY DEF J
<1>7. PICK i \in Nat : k = 2 * i \/ k = 2 * i + 1 BY <1>5, EvenOrOdd
<1>8. k # 1 BY <1>2, <1>4, <1>6
<1>9. CASE k = 2 * i
  <2>1. i \in 1 .. n \/ k = Len(J) BY <1>1, <1>2, <1>5, <1>9
  <2>2. ~(i \in 1 .. n) BY <1>2, <1>3, <1>6, <1>9
  <2> QED BY <2>1, <2>2 DEF J
<1>10. CASE k = 2 * i + 1
  <2>1. i \in 1 .. n - 1 \/ k = Len(J) BY <1>1, <1>2, <1>5, <1>8, <1>10
  <2>2. ~(i \in 1 .. n - 1) BY <1>2, <1>4, <1>6, <1>10
  <2> QED BY <2>1, <2>2 DEF J
<1> QED BY <1>7, <1>9, <1>10

LEMMA ElementsOfJson ==
  ASSUME NEW rs \in Seq(Piece)
  PROVE  Elements(JsonOf(rs)) = rs
<1> DEFINE J == JsonOf(rs)
           n == Len(rs)
<1>1. n \in Nat /\ DOMAIN rs = 1 .. n /\ rs = [k \in 1 .. n |-> rs[k]] BY LenProperties
<1>2. /\ Len(J) = IF n = 0 THEN 2 ELSE 2 * n + 1
      /\ \A i \in 1 .. n : J[2 * i] = rs[i]
  BY JsonIs
<1> HIDE DEF J, n
<1>3. (Len(J) - 1) \div 2 = n
  <2>1. CASE n = 0 BY <1>2, <2>1
  <2>2. CASE n # 0 BY <1>1, <1>2, <2>2, Halves
  <2> QED BY <2>1, <2>2
<1>4. Elements(J) = [k \in 1 .. n |-> J[2 * k]] BY <1>3 DEF Elements
<1>5. [k \in 1 .. n |-> J[2 * k]] = [k \in 1 .. n |-> rs[k]] BY <1>2
<1> QED BY <1>1, <1>4, <1>5 DEF J

LEMMA ElementsType ==
  ASSUME NEW d \in Seq(Piece), Len(d) >= 2
  PROVE  Elements(d) \in Seq(Piece)
<1> DEFINE m == (Len(d) - 1) \div 2
<1>1. Len(d) \in Nat BY LenProperties
<1>2. m \in Nat /\ \A k \in 1 .. m : 2 * k \in 1 .. Len(d) BY <1>1
<1>3. \A k \in 1 .. m : d[2 * k] \in Piece
  <2> HIDE DEF m
  <2> QED BY <1>2, ElementOfSeq
<1>4. Elements(d) = [k \in 1 .. m |-> d[2 * k]] BY DEF Elements
<1> HIDE DEF m
<1>5. [k \in 1 .. m |-> d[2 * k]] \in [1 .. m -> Piece] BY <1>3
<1>6. Elements(d) \in UNION {[1 .. k -> Piece] : k \in Nat} BY <1>2, <1>4, <1>5
<1> QED BY <1>6, SeqDef

(* A beginning of an array of results that is itself an array, is it.      *)
LEMMA WholeJson ==
  ASSUME NEW d \in Seq(Piece), NEW rs \in Seq(Result), Len(d) >= 2,
         d = JsonOf(Elements(d)), Starts(d, JsonOf(rs))
  PROVE  d = JsonOf(rs) /\ Elements(d) = rs
<1>1. rs \in Seq(Piece) /\ Elements(d) \in Seq(Piece) BY ResultIsPiece, ElementsType
<1>2. d[Len(d)] = "end"
  <2>1. JsonOf(Elements(d))[Len(JsonOf(Elements(d)))] = "end" BY <1>1, JsonIs
  <2> QED BY <2>1
<1>3. JsonOf(rs) \in Seq(Piece) /\ Len(JsonOf(rs)) \in Nat /\ Len(d) \in Nat
  BY <1>1, JsonIs, LenProperties
<1>4. Len(d) \in 1 .. Len(JsonOf(rs)) /\ JsonOf(rs)[Len(d)] = "end"
  BY <1>2, <1>3 DEF Starts
<1>5. Len(d) = Len(JsonOf(rs)) BY <1>4, OnlyLastCloses
<1>6. d = JsonOf(rs) BY <1>3, <1>5, StartsAll
<1>7. Elements(JsonOf(rs)) = rs BY <1>1, ElementsOfJson
<1> QED BY <1>6, <1>7

LEMMA NotJson ==
  ASSUME NEW d \in Seq(Piece), Len(d) >= 2, d = <<>> \/ d[1] # "begin"
  PROVE  d # JsonOf(Elements(d))
<1>1. Elements(d) \in Seq(Piece) BY ElementsType
<1>2. JsonOf(Elements(d))[1] = "begin" BY <1>1, JsonIs
<1>3. d # <<>> BY LenProperties, EmptySeq
<1> QED BY <1>2, <1>3

-----------------------------------------------------------------------------
(* Commands and the streams they write.  Sound is what CommandAssumption   *)
(* says of a command that has started.                                     *)
Sound(c) ==
  /\ c \in Command
  /\ c.stdout \notin {c.oJ, c.oT, c.o}
  /\ \A q \in {c.oJ, c.oT, c.o} : q \in Path \cup {NoWord}
  /\ c.oJ = c.oT \/ c.oJ = c.o => c.oJ = NoWord
  /\ c.oT = c.o => c.oT = NoWord
  /\ ~(c.json /\ c.format = "table")

LEMMA CommandIsSound ==
  ASSUME NEW k \in 1 .. Len(Commands), NEW c \in Commands[k]
  PROVE  Sound(c)
<1>1. k \in DOMAIN Commands /\ Commands[k] \in SUBSET Command
  BY CommandAssumption, LenProperties, ElementOfSeq
<1>2. c \in Command /\ NoWord \notin Path BY <1>1, PathAssumption
<1>3. /\ c.stdout \in Path /\ c.oJ \in Path \cup {NoWord} /\ c.oT \in Path \cup {NoWord}
      /\ c.o \in Path \cup {NoWord}
  BY <1>2 DEF Command
<1>4. /\ c.stdout \notin Given(c)
      /\ \A f, g \in OutputFields : c[f] = c[g] => f = g \/ c[f] = NoWord
      /\ ~(c.json /\ c.format = "table")
  BY <1>1, CommandAssumption
<1>5. /\ c["oJ"] = c["oT"] \/ c["oJ"] = c["o"] => c["oJ"] = NoWord
      /\ c["oT"] = c["o"] => c["oT"] = NoWord
  BY <1>4 DEF OutputFields
<1>6. c.stdout # c["oJ"] /\ c.stdout # c["oT"] /\ c.stdout # c["o"]
  BY <1>2, <1>3, <1>4 DEF Given, OutputFields
<1> QED BY <1>2, <1>3, <1>4, <1>5, <1>6 DEF Sound

LEMMA Places ==
  ASSUME NEW c, Sound(c)
  PROVE  /\ {DataPath(c), ReportPath(c), JsonPath(c), TextPath(c)} \subseteq Path \cup {NoWord}
         /\ DataPath(c) \in {ReportPath(c), JsonPath(c), TextPath(c)} => DataPath(c) = NoWord
         /\ ReportPath(c) \in {JsonPath(c), TextPath(c)} => ReportPath(c) = NoWord
         /\ JsonPath(c) = TextPath(c) => JsonPath(c) = NoWord
         /\ c.stdout \in Path /\ (c.process = NoWord \/ c.process \in Path)
         /\ c.stdout # NoWord
         /\ \A p \in Streams(c) : p = c.stdout \/ (p \in Given(c) /\ Opens(c, p))
<1>1. c.stdout \in Path /\ (c.process = NoWord \/ c.process \in Path)
  BY DEF Sound, Command
<1>2. c.stdout # NoWord BY <1>1, PathAssumption
<1>3. /\ ReportPath(c) \in {NoWord, c.o} /\ JsonPath(c) \in {NoWord, c.oJ}
      /\ TextPath(c) \in {NoWord, c.oT} /\ DataPath(c) \in {NoWord, c.o, c.stdout}
      /\ ReportPath(c) # NoWord => DataPath(c) # c.o
      /\ \A q \in {ReportPath(c), JsonPath(c), TextPath(c)} : q = NoWord \/ Opens(c, q)
      /\ DataPath(c) \in {NoWord, c.stdout} \/ Opens(c, DataPath(c))
  BY <1>2 DEF ReportPath, JsonPath, TextPath, DataPath, Sound
<1>4. /\ DataPath(c) \in {ReportPath(c), JsonPath(c), TextPath(c)} => DataPath(c) = NoWord
      /\ ReportPath(c) \in {JsonPath(c), TextPath(c)} => ReportPath(c) = NoWord
      /\ JsonPath(c) = TextPath(c) => JsonPath(c) = NoWord
  BY <1>3 DEF Sound
<1>5. {DataPath(c), ReportPath(c), JsonPath(c), TextPath(c)} \subseteq Path \cup {NoWord}
  BY <1>1, <1>3 DEF Sound
<1>6. \A p \in Streams(c) : p = c.stdout \/ (p \in Given(c) /\ Opens(c, p))
  <2> SUFFICES ASSUME NEW p \in Streams(c), p # c.stdout
               PROVE  p \in Given(c) /\ Opens(c, p)
    OBVIOUS
  <2>1. p \in {c["oJ"], c["oT"], c["o"]} /\ p # NoWord /\ Opens(c, p)
    BY <1>3 DEF Streams
  <2> QED BY <2>1 DEF Given, OutputFields
<1> QED BY <1>1, <1>2, <1>4, <1>5, <1>6

LEMMA StreamsOnPath ==
  ASSUME NEW c, Sound(c)
  PROVE  Streams(c) \subseteq Path /\ NoWord \notin Streams(c)
BY Places DEF Streams

(* A stream is one of the four, and only one. *)
LEMMA StreamIs ==
  ASSUME NEW c, Sound(c), NEW p \in Streams(c)
  PROVE  /\ p # NoWord
         /\ \/ p = JsonPath(c) /\ p \notin {DataPath(c), ReportPath(c), TextPath(c)}
            \/ p = TextPath(c) /\ p \notin {DataPath(c), ReportPath(c), JsonPath(c)}
            \/ p = ReportPath(c) /\ p \notin {DataPath(c), JsonPath(c), TextPath(c)}
            \/ p = DataPath(c) /\ p \notin {ReportPath(c), JsonPath(c), TextPath(c)}
BY Places DEF Streams

-----------------------------------------------------------------------------
(* The streams on which a table is rendered, and those that are JSON.      *)
Table(c, p) == Rows(c, p) /\ c.format = "table"
Array(c, p) == p = JsonPath(c) \/ (p = DataPath(c) /\ IsJson(c))

(* What is written to the stream p of c when n of the results rs are       *)
(* through; what the next one adds, and the end of the loop; and what the  *)
(* file holds when c has ended.                                            *)
SoFar(c, rs, p, n) ==
  CASE Array(c, p) -> <<"begin">> \o Inner(rs, n)
    [] ~Array(c, p) /\ p = TextPath(c) -> SubSeq(rs, 1, n)
    [] ~Array(c, p) /\ p # TextPath(c) /\ p = ReportPath(c) ->
         <<"title">> \o SubSeq(rs, 1, n)
    [] ~Array(c, p) /\ p \notin {TextPath(c), ReportPath(c)} ->
         IF ShowsData(c) THEN SubSeq(rs, 1, n) ELSE <<>>
More(c, rs, p, n) ==
  CASE Array(c, p) -> IF n = 0 THEN <<rs[1]>> ELSE <<"comma", rs[n + 1]>>
    [] ~Array(c, p) /\ p \in {TextPath(c), ReportPath(c)} -> <<rs[n + 1]>>
    [] ~Array(c, p) /\ p \notin {TextPath(c), ReportPath(c)} ->
         IF ShowsData(c) THEN <<rs[n + 1]>> ELSE <<>>
Ending(c, p) == IF Array(c, p) THEN <<"end">> ELSE <<>>
Whole(c, rs, p) ==
  IF Table(c, p) THEN <<"header">> \o rs ELSE SoFar(c, rs, p, Len(rs)) \o Ending(c, p)

LEMMA FirstOf ==
  ASSUME NEW rs \in Seq(Result), NEW n \in 0 .. Len(rs)
  PROVE  /\ SubSeq(rs, 1, n) \in Seq(Result) /\ SubSeq(rs, 1, n) \in Seq(Piece)
         /\ Len(SubSeq(rs, 1, n)) = n
         /\ \A i \in 1 .. n : SubSeq(rs, 1, n)[i] = rs[i]
<1>1. Len(rs) \in Nat /\ n \in Nat BY LenProperties
<1>2. \A i \in 1 .. n : rs[i] \in Result BY <1>1, ElementOfSeq
<1>3. /\ SubSeq(rs, 1, n) \in Seq(Result)
      /\ Len(SubSeq(rs, 1, n)) = IF 1 <= n THEN n - 1 + 1 ELSE 0
      /\ \A i \in 1 .. n - 1 + 1 : SubSeq(rs, 1, n)[i] = rs[1 + i - 1]
  BY <1>1, <1>2, SubSeqProperties, SMT
<1>4. Len(SubSeq(rs, 1, n)) = n /\ \A i \in 1 .. n : SubSeq(rs, 1, n)[i] = rs[i]
  BY <1>1, <1>3
<1> QED BY <1>3, <1>4, ResultIsPiece

LEMMA SoFarType ==
  ASSUME NEW c, NEW rs \in Seq(Result), NEW p, NEW n \in 0 .. Len(rs)
  PROVE  SoFar(c, rs, p, n) \in Seq(Piece)
<1>1. rs \in Seq(Piece) BY ResultIsPiece
<1>2. Inner(rs, n) \in Seq(Piece) BY <1>1, InnerIs
<1>3. <<"begin">> \in Seq(Piece) /\ <<"title">> \in Seq(Piece) /\ <<>> \in Seq(Piece)
  BY DEF Piece
<1>4. <<"begin">> \o Inner(rs, n) \in Seq(Piece) BY <1>2, <1>3, ConcatProperties
<1>5. SubSeq(rs, 1, n) \in Seq(Piece) BY FirstOf
<1>6. <<"title">> \o SubSeq(rs, 1, n) \in Seq(Piece) BY <1>3, <1>5, ConcatProperties
<1> QED BY <1>3, <1>4, <1>5, <1>6 DEF SoFar

LEMMA MoreType ==
  ASSUME NEW c, NEW rs \in Seq(Result), NEW p, NEW n \in Nat, n < Len(rs)
  PROVE  More(c, rs, p, n) \in Seq(Piece)
<1>1. Len(rs) \in Nat /\ rs[n + 1] \in Piece /\ (n = 0 => rs[1] \in Piece)
  <2>1. Len(rs) \in Nat BY LenProperties
  <2>2. n + 1 \in 1 .. Len(rs) /\ (n = 0 => 1 \in 1 .. Len(rs)) BY <2>1
  <2> QED BY <2>1, <2>2, ElementOfSeq, ResultIsPiece
<1>2. <<"comma", rs[n + 1]>> \in Seq(Piece) /\ <<rs[n + 1]>> \in Seq(Piece)
      /\ (n = 0 => <<rs[1]>> \in Seq(Piece)) /\ <<>> \in Seq(Piece)
  <2> DEFINE e == rs[n + 1]
             e1 == rs[1]
  <2>1. e \in Piece /\ "comma" \in Piece /\ (n = 0 => e1 \in Piece) BY <1>1 DEF Piece
  <2> HIDE DEF e, e1
  <2>2. <<"comma", e>> \in Seq(Piece) /\ <<e>> \in Seq(Piece)
        /\ (n = 0 => <<e1>> \in Seq(Piece)) /\ <<>> \in Seq(Piece)
    BY <2>1
  <2> QED BY <2>2 DEF e, e1
<1> QED BY <1>2 DEF More

LEMMA SoFarNext ==
  ASSUME NEW c, NEW rs \in Seq(Result), NEW p, NEW n \in Nat, n < Len(rs)
  PROVE  SoFar(c, rs, p, n + 1) = SoFar(c, rs, p, n) \o More(c, rs, p, n)
<1>1. /\ Len(rs) \in Nat /\ n \in 0 .. Len(rs) /\ n + 1 \in 1 .. Len(rs)
      /\ rs \in Seq(Piece) /\ rs[n + 1] \in Piece
  <2>1. Len(rs) \in Nat /\ rs \in Seq(Piece) BY LenProperties, ResultIsPiece
  <2>2. n + 1 \in 1 .. Len(rs) BY <2>1
  <2> QED BY <2>1, <2>2, ElementOfSeq
<1> DEFINE m == IF n = 0 THEN <<rs[1]>> ELSE <<"comma", rs[n + 1]>>
           e == <<rs[n + 1]>>
           h == SubSeq(rs, 1, n)
           x == Inner(rs, n)
           b == <<"begin">>
           t == <<"title">>
<1>2. Inner(rs, n + 1) = x \o m BY <1>1, InnerNext
<1>3. SubSeq(rs, 1, n + 1) = h \o e
  <2>1. 1 \in 1 .. Len(rs) /\ n + 1 \in 1 .. Len(rs) /\ (n + 1) - 1 = n BY <1>1
  <2>2. SubSeq(rs, 1, n + 1) = SubSeq(rs, 1, (n + 1) - 1) \o <<rs[n + 1]>>
    BY <1>1, <2>1, SubSeqRecursiveSecond
  <2> QED BY <2>1, <2>2
<1>4. /\ h \in Seq(Piece) /\ x \in Seq(Piece) /\ e \in Seq(Piece)
      /\ b \in Seq(Piece) /\ t \in Seq(Piece)
  <2>1. h \in Seq(Piece) BY <1>1, FirstOf
  <2>2. x \in Seq(Piece) BY <1>1, InnerIs
  <2>3. b \in Seq(Piece) /\ t \in Seq(Piece) BY DEF Piece
  <2>4. e \in Seq(Piece) BY <1>1
  <2> QED BY <2>1, <2>2, <2>3, <2>4, Zenon
<1>5. m \in Seq(Piece)
  <2>1. CASE n = 0 BY <1>1, <2>1
  <2>2. CASE n # 0
    <3> DEFINE r == rs[n + 1]
    <3>1. r \in Piece /\ "comma" \in Piece BY <1>1 DEF Piece
    <3> HIDE DEF r
    <3>2. <<"comma", r>> \in Seq(Piece) BY <3>1
    <3> QED BY <2>2, <3>2 DEF r
  <2> QED BY <2>1, <2>2
<1>6. CASE Array(c, p)
  <2>1. SoFar(c, rs, p, n + 1) = b \o (x \o m) /\ SoFar(c, rs, p, n) = b \o x
        /\ More(c, rs, p, n) = m
    BY <1>2, <1>6 DEF SoFar, More
  <2>2. (b \o x) \o m = b \o (x \o m)
    <3> HIDE DEF b, x, m
    <3>1. b \in Seq(Piece) /\ x \in Seq(Piece) /\ m \in Seq(Piece) BY <1>4, <1>5
    <3> QED BY <3>1, PieceAssoc, Zenon
  <2> HIDE DEF b, x, m
  <2> QED BY <2>1, <2>2, Zenon
<1>7. CASE ~Array(c, p) /\ p = TextPath(c)
  <2>1. SoFar(c, rs, p, n + 1) = h \o e /\ SoFar(c, rs, p, n) = h
        /\ More(c, rs, p, n) = e
    <3> HIDE DEF h, e
    <3>1. SoFar(c, rs, p, n + 1) = SubSeq(rs, 1, n + 1) BY <1>7 DEF SoFar
    <3>2. SoFar(c, rs, p, n) = h BY <1>7 DEF SoFar, h
    <3>3. More(c, rs, p, n) = e BY <1>7, Zenon DEF More, e
    <3> QED BY <1>3, <3>1, <3>2, <3>3, Zenon
  <2> QED BY <2>1
<1>8. CASE ~Array(c, p) /\ p # TextPath(c) /\ p = ReportPath(c)
  <2>1. SoFar(c, rs, p, n + 1) = t \o (h \o e) /\ SoFar(c, rs, p, n) = t \o h
        /\ More(c, rs, p, n) = e
    BY <1>3, <1>8 DEF SoFar, More
  <2>2. (t \o h) \o e = t \o (h \o e)
    <3> HIDE DEF t, h, e
    <3> QED BY <1>4, PieceAssoc, Zenon
  <2> HIDE DEF t, h, e
  <2> QED BY <2>1, <2>2, Zenon
<1>9. CASE ~Array(c, p) /\ p \notin {TextPath(c), ReportPath(c)}
  <2>1. CASE ShowsData(c)
    <3>1. SoFar(c, rs, p, n + 1) = h \o e /\ SoFar(c, rs, p, n) = h
          /\ More(c, rs, p, n) = e
      BY <1>3, <1>9, <2>1 DEF SoFar, More
    <3> QED BY <3>1
  <2>2. CASE ~ShowsData(c)
    <3>1. SoFar(c, rs, p, n + 1) = <<>> /\ SoFar(c, rs, p, n) = <<>>
          /\ More(c, rs, p, n) = <<>>
      BY <1>9, <2>2 DEF SoFar, More
    <3> QED BY <3>1, ConcatEmptySeq
  <2> QED BY <2>1, <2>2
<1> QED BY <1>6, <1>7, <1>8, <1>9

LEMMA StartsBehind ==
  ASSUME NEW S, NEW a \in Seq(S), NEW s \in Seq(S), NEW t \in Seq(S), Starts(s, t)
  PROVE  Starts(a \o s, a \o t)
<1>1. Len(a) \in Nat /\ Len(s) \in Nat /\ Len(t) \in Nat BY LenProperties
<1>2. /\ Len(a \o s) = Len(a) + Len(s)
      /\ \A i \in 1 .. Len(a) + Len(s) :
           (a \o s)[i] = IF i <= Len(a) THEN a[i] ELSE s[i - Len(a)]
  BY ConcatProperties
<1>3. /\ Len(a \o t) = Len(a) + Len(t)
      /\ \A i \in 1 .. Len(a) + Len(t) :
           (a \o t)[i] = IF i <= Len(a) THEN a[i] ELSE t[i - Len(a)]
  BY ConcatProperties
<1>4. Len(s) <= Len(t) /\ \A i \in 1 .. Len(s) : s[i] = t[i] BY DEF Starts
<1>5. Len(a \o s) <= Len(a \o t) BY <1>1, <1>2, <1>3, <1>4
<1>6. \A i \in 1 .. Len(a) + Len(s) : (a \o s)[i] = (a \o t)[i]
  <2> TAKE i \in 1 .. Len(a) + Len(s)
  <2>1. i \in 1 .. Len(a) + Len(t) BY <1>1, <1>4
  <2>2. (a \o s)[i] = (IF i <= Len(a) THEN a[i] ELSE s[i - Len(a)])
        /\ (a \o t)[i] = (IF i <= Len(a) THEN a[i] ELSE t[i - Len(a)])
    BY <1>2, <1>3, <2>1
  <2>3. CASE i <= Len(a) BY <2>2, <2>3
  <2>4. CASE ~(i <= Len(a))
    <3>1. i - Len(a) \in 1 .. Len(s) BY <1>1, <2>4
    <3> QED BY <1>4, <2>2, <2>4, <3>1
  <2> QED BY <2>3, <2>4
<1> QED BY <1>2, <1>5, <1>6 DEF Starts

LEMMA InnerStarts ==
  ASSUME NEW rs \in Seq(Piece), NEW n \in 0 .. Len(rs)
  PROVE  Starts(Inner(rs, n), Inner(rs, Len(rs)))
<1> DEFINE m == Len(rs)
           l == IF n = 0 THEN 0 ELSE 2 * n - 1
           k == IF m = 0 THEN 0 ELSE 2 * m - 1
<1>1. m \in Nat /\ n \in Nat /\ n <= m BY LenProperties
<1>2. l \in Nat /\ k \in Nat /\ l <= k BY <1>1
<1>3. Len(Inner(rs, n)) = l BY InnerIs
<1>4. Len(Inner(rs, m)) = k
  <2>1. m \in 0 .. Len(rs) BY <1>1
  <2>2. \A j \in 0 .. Len(rs) : Len(Inner(rs, j)) = IF j = 0 THEN 0 ELSE 2 * j - 1
    BY InnerIs
  <2> QED BY <2>1, <2>2
<1>5. Inner(rs, n) = [i \in 1 .. l |-> IF i % 2 = 1 THEN rs[(i + 1) \div 2] ELSE "comma"]
  BY DEF Inner
<1>6. Inner(rs, m) = [i \in 1 .. k |-> IF i % 2 = 1 THEN rs[(i + 1) \div 2] ELSE "comma"]
  BY DEF Inner
<1> HIDE DEF l, k, m
<1>7. \A i \in 1 .. l : i \in 1 .. k BY <1>2
<1>8. \A i \in 1 .. l : Inner(rs, n)[i] = Inner(rs, m)[i] BY <1>5, <1>6, <1>7
<1> QED BY <1>2, <1>3, <1>4, <1>8 DEF Starts, m

LEMMA SoFarStarts ==
  ASSUME NEW c, NEW rs \in Seq(Result), NEW p, NEW n \in 0 .. Len(rs)
  PROVE  Starts(SoFar(c, rs, p, n), SoFar(c, rs, p, Len(rs)))
<1> DEFINE m == Len(rs)
           h == SubSeq(rs, 1, n)
           g == SubSeq(rs, 1, m)
           x == Inner(rs, n)
           y == Inner(rs, m)
           b == <<"begin">>
           t == <<"title">>
<1>1. rs \in Seq(Piece) /\ m \in Nat /\ n \in Nat /\ n <= m /\ m \in 0 .. Len(rs)
  BY ResultIsPiece, LenProperties
<1>2. /\ h \in Seq(Piece) /\ Len(h) = n /\ \A i \in 1 .. n : h[i] = rs[i]
  BY FirstOf
<1>3. /\ g \in Seq(Piece) /\ Len(g) = m /\ \A i \in 1 .. m : g[i] = rs[i]
  <2>1. m \in 0 .. Len(rs) BY <1>1
  <2>2. \A j \in 0 .. Len(rs) :
          /\ SubSeq(rs, 1, j) \in Seq(Piece) /\ Len(SubSeq(rs, 1, j)) = j
          /\ \A i \in 1 .. j : SubSeq(rs, 1, j)[i] = rs[i]
    BY FirstOf
  <2> HIDE DEF m
  <2> QED BY <2>1, <2>2
<1>4. x \in Seq(Piece) BY <1>1, InnerIs
<1>5. y \in Seq(Piece)
  <2>1. \A j \in 0 .. Len(rs) : Inner(rs, j) \in Seq(Piece) BY <1>1, InnerIs
  <2> HIDE DEF m
  <2> QED BY <1>1, <2>1
<1>6. Starts(x, y) BY <1>1, InnerStarts
<1>7. Starts(h, g)
  <2> HIDE DEF h, g, m
  <2> QED BY <1>1, <1>2, <1>3 DEF Starts
<1>8. b \in Seq(Piece) /\ t \in Seq(Piece) BY DEF Piece
<1> HIDE DEF h, g, x, y, b, t, m
<1>9. Starts(b \o x, b \o y) BY <1>4, <1>5, <1>6, <1>8, StartsBehind
<1>10. Starts(t \o h, t \o g) BY <1>2, <1>3, <1>7, <1>8, StartsBehind
<1>11. CASE Array(c, p)
  <2>1. SoFar(c, rs, p, n) = b \o x BY <1>11 DEF SoFar, b, x
  <2>2. SoFar(c, rs, p, m) = b \o y BY <1>11 DEF SoFar, b, y
  <2> QED BY <1>9, <2>1, <2>2 DEF m
<1>12. CASE ~Array(c, p) /\ p = TextPath(c)
  <2>1. SoFar(c, rs, p, n) = h BY <1>12 DEF SoFar, h
  <2>2. SoFar(c, rs, p, m) = g BY <1>12 DEF SoFar, g
  <2> QED BY <1>7, <2>1, <2>2 DEF m
<1>13. CASE ~Array(c, p) /\ p # TextPath(c) /\ p = ReportPath(c)
  <2>1. SoFar(c, rs, p, n) = t \o h BY <1>13 DEF SoFar, t, h
  <2>2. SoFar(c, rs, p, m) = t \o g BY <1>13 DEF SoFar, t, g
  <2> QED BY <1>10, <2>1, <2>2 DEF m
<1>14. CASE ~Array(c, p) /\ p \notin {TextPath(c), ReportPath(c)}
  <2>1. SoFar(c, rs, p, n) = IF ShowsData(c) THEN h ELSE <<>> BY <1>14 DEF SoFar, h
  <2>2. SoFar(c, rs, p, m) = IF ShowsData(c) THEN g ELSE <<>> BY <1>14 DEF SoFar, g
  <2>3. Starts(<<>>, <<>>) BY DEF Starts
  <2>4. CASE ShowsData(c) BY <1>7, <2>1, <2>2, <2>4 DEF m
  <2>5. CASE ~ShowsData(c)
    <3>1. SoFar(c, rs, p, n) = <<>> /\ SoFar(c, rs, p, m) = <<>> BY <2>1, <2>2, <2>5
    <3> QED BY <2>3, <3>1, Zenon DEF m
  <2> QED BY <2>4, <2>5
<1> QED BY <1>11, <1>12, <1>13, <1>14

LEMMA EndingType == \A c, p : Ending(c, p) \in Seq(Piece)
<1>1. "end" \in Piece BY DEF Piece
<1>2. <<"end">> \in Seq(Piece) /\ <<>> \in Seq(Piece) BY <1>1
<1> QED BY <1>2 DEF Ending

LEMMA WholeType ==
  ASSUME NEW c, NEW rs \in Seq(Result), NEW p
  PROVE  Whole(c, rs, p) \in Seq(Piece)
<1>1. rs \in Seq(Piece) /\ Len(rs) \in 0 .. Len(rs) BY ResultIsPiece, LenProperties
<1>2. <<"header">> \in Seq(Piece) BY DEF Piece
<1>3. <<"header">> \o rs \in Seq(Piece) BY <1>1, <1>2, ConcatProperties
<1>4. SoFar(c, rs, p, Len(rs)) \in Seq(Piece) BY <1>1, SoFarType
<1>5. SoFar(c, rs, p, Len(rs)) \o Ending(c, p) \in Seq(Piece)
  BY <1>4, EndingType, ConcatProperties
<1> QED BY <1>3, <1>5 DEF Whole

LEMMA SoFarBeginsWhole ==
  ASSUME NEW c, NEW rs \in Seq(Result), NEW p, NEW n \in 0 .. Len(rs), ~Table(c, p)
  PROVE  Starts(SoFar(c, rs, p, n), Whole(c, rs, p))
<1> DEFINE s == SoFar(c, rs, p, n)
           t == SoFar(c, rs, p, Len(rs))
           e == Ending(c, p)
<1>1. Len(rs) \in 0 .. Len(rs) BY LenProperties
<1>2. s \in Seq(Piece) /\ t \in Seq(Piece) /\ e \in Seq(Piece)
  BY <1>1, SoFarType, EndingType
<1>3. Starts(s, t) BY SoFarStarts
<1>4. Whole(c, rs, p) = t \o e BY DEF Whole
<1> HIDE DEF s, t, e
<1>5. Starts(t, t \o e) /\ t \o e \in Seq(Piece) BY <1>2, StartsConcat, ConcatProperties
<1>6. Starts(s, t \o e) BY <1>2, <1>3, <1>5, StartsTrans
<1> QED BY <1>4, <1>6 DEF s

(* What stands first in a document that is not an array. *)
LEMMA NoArray ==
  ASSUME NEW c, NEW rs \in Seq(Result), NEW p, ~Array(c, p), Whole(c, rs, p) # <<>>
  PROVE  Whole(c, rs, p)[1] # "begin"
<1> DEFINE h == SubSeq(rs, 1, Len(rs))
           t == <<"title">>
           a == <<"header">>
<1>1. Len(rs) \in Nat /\ Len(rs) \in 0 .. Len(rs) /\ rs \in Seq(Piece)
  BY ResultIsPiece, LenProperties
<1>2. h = rs BY SubSeqFull
<1>3. rs # <<>> => rs[1] # "begin"
  <2> SUFFICES ASSUME rs # <<>> PROVE rs[1] # "begin"
    OBVIOUS
  <2>1. 1 \in 1 .. Len(rs) BY EmptySeq
  <2>2. rs[1] \in Result BY <2>1, ElementOfSeq
  <2> QED BY <2>2, ResultIsPiece
<1>4. /\ a \in Seq(Piece) /\ Len(a) = 1 /\ a[1] = "header"
      /\ t \in Seq(Piece) /\ Len(t) = 1 /\ t[1] = "title"
  BY DEF Piece
<1> HIDE DEF a, t, h
<1>5. (a \o rs)[1] = "header" /\ (t \o rs)[1] = "title"
  <2>1. 1 \in 1 .. 1 + Len(rs) /\ 1 <= 1 BY <1>1
  <2> QED BY <1>1, <1>4, <2>1, ConcatProperties
<1>6. CASE Table(c, p)
  <2>1. Whole(c, rs, p) = a \o rs BY <1>6 DEF Whole, a
  <2> QED BY <1>5, <2>1
<1>7. CASE ~Table(c, p)
  <2>1. SoFar(c, rs, p, Len(rs)) \in Seq(Piece) BY <1>1, SoFarType
  <2>2. Whole(c, rs, p) = SoFar(c, rs, p, Len(rs))
    BY <1>7, <2>1, ConcatEmptySeq DEF Whole, Ending
  <2>3. CASE p = TextPath(c)
    <3>1. Whole(c, rs, p) = rs BY <1>2, <2>2, <2>3 DEF SoFar, h
    <3> QED BY <1>3, <3>1
  <2>4. CASE p # TextPath(c) /\ p = ReportPath(c)
    <3>1. Whole(c, rs, p) = t \o rs BY <1>2, <2>2, <2>4 DEF SoFar, h, t
    <3> QED BY <1>5, <3>1
  <2>5. CASE p \notin {TextPath(c), ReportPath(c)}
    <3>1. Whole(c, rs, p) = IF ShowsData(c) THEN rs ELSE <<>>
      BY <1>2, <2>2, <2>5 DEF SoFar, h
    <3> QED BY <1>3, <3>1
  <2> QED BY <2>3, <2>4, <2>5
<1> QED BY <1>6, <1>7

LEMMA WholeArray ==
  ASSUME NEW c, Sound(c), NEW rs \in Seq(Result), NEW p \in Streams(c),
         Array(c, p)
  PROVE  Whole(c, rs, p) = JsonOf(rs) /\ ~Table(c, p)
<1>1. ~Table(c, p) BY StreamIs DEF Table, Rows, Array
<1>2. Ending(c, p) = <<"end">> /\ SoFar(c, rs, p, Len(rs)) = <<"begin">> \o Inner(rs, Len(rs))
  BY DEF Ending, SoFar
<1> QED BY <1>1, <1>2 DEF Whole, JsonOf

-----------------------------------------------------------------------------
(* What the writes before, in and after the loop owe a stream. *)

(* Of writes to several files, p has those of the one that is p.           *)
LEMMA OwesOfThree ==
  ASSUME NEW F, NEW S, NEW s \in Seq(F \X S), NEW t \in Seq(F \X S), NEW u \in Seq(F \X S),
         NEW p, NEW ps \in Seq(S), NEW a, NEW b, NEW d,
         Owes(s, p, a), Owes(t, p, b), Owes(u, p, d),
         \/ a = ps /\ b = <<>> /\ d = <<>>
         \/ a = <<>> /\ b = ps /\ d = <<>>
         \/ a = <<>> /\ b = <<>> /\ d = ps
  PROVE  Owes((s \o t) \o u, p, ps) /\ (s \o t) \o u \in Seq(F \X S)
<1>1. s \o t \in Seq(F \X S) BY ConcatProperties
<1>2. (s \o t) \o u \in Seq(F \X S) BY <1>1, ConcatProperties
<1>3. <<>> \in Seq(S) /\ <<>> \o <<>> = <<>> OBVIOUS
<1>4. ps \o <<>> = ps /\ <<>> \o ps = ps BY ConcatEmptySeq
<1>5. CASE a = ps /\ b = <<>> /\ d = <<>>
  <2>1. Owes(s \o t, p, ps \o <<>>) BY <1>3, <1>5, OwesConcat
  <2>2. Owes(s \o t, p, ps) BY <1>4, <2>1, Zenon
  <2>3. Owes((s \o t) \o u, p, ps \o <<>>) BY <1>1, <1>3, <1>5, <2>2, OwesConcat
  <2> QED BY <1>2, <1>4, <2>3, Zenon
<1>6. CASE a = <<>> /\ b = ps /\ d = <<>>
  <2>1. Owes(s \o t, p, <<>> \o ps) BY <1>3, <1>6, OwesConcat
  <2>2. Owes(s \o t, p, ps) BY <1>4, <2>1, Zenon
  <2>3. Owes((s \o t) \o u, p, ps \o <<>>) BY <1>1, <1>3, <1>6, <2>2, OwesConcat
  <2> QED BY <1>2, <1>4, <2>3, Zenon
<1>7. CASE a = <<>> /\ b = <<>> /\ d = ps
  <2>1. Owes(s \o t, p, <<>> \o <<>>) BY <1>3, <1>7, OwesConcat
  <2>2. Owes(s \o t, p, <<>>) BY <1>3, <2>1, Zenon
  <2>3. Owes((s \o t) \o u, p, <<>> \o ps) BY <1>1, <1>3, <1>7, <2>2, OwesConcat
  <2> QED BY <1>2, <1>4, <2>3, Zenon
<1> QED BY <1>5, <1>6, <1>7

LEMMA FirstPieces ==
  ASSUME NEW c, NEW rs \in Seq(Result), NEW p
  PROVE  SoFar(c, rs, p, 0) = IF Array(c, p) THEN <<"begin">>
                              ELSE IF p # TextPath(c) /\ p = ReportPath(c) THEN <<"title">>
                              ELSE <<>>
<1> DEFINE b == <<"begin">>
           t == <<"title">>
<1>1. SubSeq(rs, 1, 0) = <<>> BY SubSeqEmpty
<1>2. Inner(rs, 0) = <<>>
  <2>1. rs \in Seq(Piece) /\ 0 \in 0 .. Len(rs) BY ResultIsPiece, LenProperties
  <2>2. Inner(rs, 0) \in Seq(Piece) /\ Len(Inner(rs, 0)) = 0 BY <2>1, InnerIs
  <2> QED BY <2>2, EmptySeq
<1>3. b \in Seq(Piece) /\ t \in Seq(Piece) BY DEF Piece
<1>4. b \o <<>> = b /\ t \o <<>> = t
  <2> HIDE DEF b, t
  <2> QED BY <1>3, ConcatEmptySeq
<1>5. CASE Array(c, p)
  <2>1. SoFar(c, rs, p, 0) = b \o Inner(rs, 0) BY <1>5 DEF SoFar
  <2> QED BY <1>2, <1>4, <1>5, <2>1, Zenon
<1>6. CASE ~Array(c, p) /\ p # TextPath(c) /\ p = ReportPath(c)
  <2>1. SoFar(c, rs, p, 0) = t \o SubSeq(rs, 1, 0) BY <1>6 DEF SoFar
  <2> QED BY <1>1, <1>4, <1>6, <2>1, Zenon
<1>7. CASE ~Array(c, p) /\ (p = TextPath(c) \/ p # ReportPath(c))
  <2>1. SoFar(c, rs, p, 0) = <<>> BY <1>1, <1>7 DEF SoFar
  <2> QED BY <1>7, <2>1
<1> QED BY <1>5, <1>6, <1>7

LEMMA OpeningOwes ==
  ASSUME NEW c, Sound(c), NEW rs \in Seq(Result), NEW p \in Streams(c)
  PROVE  /\ Opening(c) \in Seq(Streams(c) \X Piece)
         /\ Owes(Opening(c), p, SoFar(c, rs, p, 0))
<1> DEFINE F == Streams(c)
           b == <<"begin">>
           t == <<"title">>
           ps == SoFar(c, rs, p, 0)
           R == To(ReportPath(c), t)
           D == IF IsJson(c) THEN To(DataPath(c), b) ELSE <<>>
           J == To(JsonPath(c), b)
           r == IF p = ReportPath(c) THEN t ELSE <<>>
           d == IF p = DataPath(c) /\ IsJson(c) THEN b ELSE <<>>
           j == IF p = JsonPath(c) THEN b ELSE <<>>
<1>1. b \in Seq(Piece) /\ t \in Seq(Piece) /\ <<>> \in Seq(Piece) BY DEF Piece
<1>2. {ReportPath(c), DataPath(c), JsonPath(c)} \subseteq F \cup {NoWord}
  BY DEF Streams
<1>3. p # NoWord BY StreamIs
<1>4. R \in Seq(F \X Piece) /\ J \in Seq(F \X Piece) /\ To(DataPath(c), b) \in Seq(F \X Piece)
  <2> HIDE DEF b, t, F
  <2> QED BY <1>1, <1>2, ToType
<1>5. D \in Seq(F \X Piece) BY <1>4
<1>6. Owes(R, p, r) /\ Owes(J, p, j)
  <2> HIDE DEF b, t, F
  <2> QED BY <1>1, <1>3, OwesTo
<1>7. Owes(D, p, d)
  <2>1. CASE IsJson(c)
    <3>1. Owes(To(DataPath(c), b), p, IF p = DataPath(c) THEN b ELSE <<>>)
      <4> HIDE DEF b
      <4> QED BY <1>1, <1>3, OwesTo
    <3>2. D = To(DataPath(c), b) /\ d = (IF p = DataPath(c) THEN b ELSE <<>>) BY <2>1
    <3> QED BY <3>1, <3>2, Zenon
  <2>2. CASE ~IsJson(c)
    <3>1. D = <<>> /\ d = <<>> BY <2>2
    <3> QED BY <3>1, OwesNothing, Zenon
  <2> QED BY <2>1, <2>2
<1>8. \/ r = ps /\ d = <<>> /\ j = <<>>
      \/ r = <<>> /\ d = ps /\ j = <<>>
      \/ r = <<>> /\ d = <<>> /\ j = ps
  <2>1. ps = IF Array(c, p) THEN b
             ELSE IF p # TextPath(c) /\ p = ReportPath(c) THEN t ELSE <<>>
    BY FirstPieces
  <2> HIDE DEF ps, b, t
  <2> QED BY <2>1, StreamIs DEF Array
<1>9. ps \in Seq(Piece)
  <2>1. 0 \in 0 .. Len(rs) BY LenProperties
  <2> QED BY <2>1, SoFarType
<1>10. Opening(c) = (R \o D) \o J BY DEF Opening
<1> HIDE DEF R, D, J, r, d, j, ps, F
<1>11. Owes((R \o D) \o J, p, ps) /\ (R \o D) \o J \in Seq(F \X Piece)
  BY <1>4, <1>5, <1>6, <1>7, <1>8, <1>9, OwesOfThree
<1> QED BY <1>10, <1>11 DEF F, ps

LEMMA ClosingOwes ==
  ASSUME NEW c, Sound(c), NEW p \in Streams(c)
  PROVE  /\ Closing(c) \in Seq(Streams(c) \X Piece)
         /\ Owes(Closing(c), p, Ending(c, p))
<1> DEFINE F == Streams(c)
           b == <<"end">>
           ps == Ending(c, p)
           D == IF IsJson(c) THEN To(DataPath(c), b) ELSE <<>>
           J == To(JsonPath(c), b)
           d == IF p = DataPath(c) /\ IsJson(c) THEN b ELSE <<>>
           j == IF p = JsonPath(c) THEN b ELSE <<>>
<1>1. b \in Seq(Piece) /\ <<>> \in Seq(Piece) BY DEF Piece
<1>2. {DataPath(c), JsonPath(c)} \subseteq F \cup {NoWord} BY DEF Streams
<1>3. p # NoWord BY StreamIs
<1>4. J \in Seq(F \X Piece) /\ To(DataPath(c), b) \in Seq(F \X Piece)
  <2> HIDE DEF b, F
  <2> QED BY <1>1, <1>2, ToType
<1>5. D \in Seq(F \X Piece) BY <1>4
<1>6. Owes(J, p, j)
  <2> HIDE DEF b
  <2> QED BY <1>1, <1>3, OwesTo
<1>7. Owes(D, p, d)
  <2>1. CASE IsJson(c)
    <3>1. Owes(To(DataPath(c), b), p, IF p = DataPath(c) THEN b ELSE <<>>)
      <4> HIDE DEF b
      <4> QED BY <1>1, <1>3, OwesTo
    <3>2. D = To(DataPath(c), b) /\ d = (IF p = DataPath(c) THEN b ELSE <<>>) BY <2>1
    <3> QED BY <3>1, <3>2, Zenon
  <2>2. CASE ~IsJson(c)
    <3>1. D = <<>> /\ d = <<>> BY <2>2
    <3> QED BY <3>1, OwesNothing, Zenon
  <2> QED BY <2>1, <2>2
<1>8. (d = <<>> /\ j = ps) \/ (d = ps /\ j = <<>>)
  <2>1. ps = IF Array(c, p) THEN b ELSE <<>> BY DEF Ending
  <2> HIDE DEF ps, b
  <2> QED BY <2>1, StreamIs DEF Array
<1>9. ps \in Seq(Piece) BY EndingType
<1>10. Closing(c) = D \o J BY DEF Closing
<1> HIDE DEF D, J, d, j, ps, F
<1>11. Owes(D \o J, p, ps)
  <2>1. d \in Seq(Piece) /\ j \in Seq(Piece) BY <1>1, <1>8, <1>9
  <2>2. Owes(D \o J, p, d \o j) BY <1>4, <1>5, <1>6, <1>7, <1>8, <2>1, OwesConcat
  <2>3. ps \o <<>> = ps /\ <<>> \o ps = ps BY <1>9, ConcatEmptySeq
  <2> QED BY <1>8, <2>2, <2>3, Zenon
<1>12. D \o J \in Seq(F \X Piece) BY <1>4, <1>5, ConcatProperties
<1> QED BY <1>10, <1>11, <1>12, Zenon DEF F, ps

LEMMA ForResultOwes ==
  ASSUME NEW c, Sound(c), NEW rs \in Seq(Result), taken \in Nat, taken < Len(rs),
         NEW p \in Streams(c)
  PROVE  /\ ForResult(c, rs[taken + 1]) \in Seq(Streams(c) \X Piece)
         /\ Owes(ForResult(c, rs[taken + 1]), p, More(c, rs, p, taken))
<1> DEFINE F == Streams(c)
           e == rs[taken + 1]
           x == <<e>>
           y == Element(e)
           ps == More(c, rs, p, taken)
           T == To(TextPath(c), x)
           J == To(JsonPath(c), y)
           R == To(ReportPath(c), x)
           A == To(DataPath(c), y)
           B == To(DataPath(c), x)
           D == CASE IsJson(c) -> A
                  [] ~IsJson(c) /\ ShowsData(c) -> B
                  [] OTHER -> <<>>
           tt == IF p = TextPath(c) THEN x ELSE <<>>
           j == IF p = JsonPath(c) THEN y ELSE <<>>
           r == IF p = ReportPath(c) THEN x ELSE <<>>
           a == IF p = DataPath(c) THEN y ELSE <<>>
           b == IF p = DataPath(c) THEN x ELSE <<>>
           d == IF IsJson(c) THEN a ELSE IF ShowsData(c) THEN b ELSE <<>>
<1>1. e \in Piece
  <2>1. Len(rs) \in Nat BY LenProperties
  <2>2. taken + 1 \in 1 .. Len(rs) BY <2>1
  <2> QED BY <2>2, ElementOfSeq, ResultIsPiece
<1>2. x \in Seq(Piece) /\ y \in Seq(Piece) /\ <<>> \in Seq(Piece)
  <2>1. "comma" \in Piece BY DEF Piece
  <2> HIDE DEF e
  <2>2. <<e>> \in Seq(Piece) /\ <<"comma", e>> \in Seq(Piece) BY <1>1, <2>1
  <2> QED BY <2>2 DEF Element
<1>3. {TextPath(c), JsonPath(c), ReportPath(c), DataPath(c)} \subseteq F \cup {NoWord}
  BY DEF Streams
<1>4. p # NoWord BY StreamIs
<1>5. ps \in Seq(Piece) BY MoreType
<1>6. \/ ps = tt /\ j = <<>> /\ r = <<>> /\ d = <<>>
      \/ ps = j /\ tt = <<>> /\ r = <<>> /\ d = <<>>
      \/ ps = r /\ tt = <<>> /\ j = <<>> /\ d = <<>>
      \/ ps = d /\ tt = <<>> /\ j = <<>> /\ r = <<>>
  <2>1. /\ Array(c, p) => ps = y
        /\ ~Array(c, p) /\ p \in {TextPath(c), ReportPath(c)} => ps = x
        /\ ~Array(c, p) /\ p \notin {TextPath(c), ReportPath(c)} =>
             ps = IF ShowsData(c) THEN x ELSE <<>>
    <3>1. y = IF taken = 0 THEN <<rs[1]>> ELSE <<"comma", rs[taken + 1]>>
      <4>1. CASE taken = 0
        <5>1. taken + 1 = 1 BY <4>1
        <5> QED BY <4>1, <5>1 DEF Element
      <4>2. CASE taken # 0 BY <4>2 DEF Element
      <4> QED BY <4>1, <4>2
    <3> HIDE DEF y
    <3> QED BY <3>1 DEF More
  <2> HIDE DEF ps, x, y
  <2> QED BY <2>1, StreamIs DEF Array
<1>7. ForResult(c, e) = ((T \o J) \o R) \o D BY DEF ForResult
<1> HIDE DEF x, y, e, F, ps
<1>8. /\ T \in Seq(F \X Piece) /\ J \in Seq(F \X Piece) /\ R \in Seq(F \X Piece)
      /\ A \in Seq(F \X Piece) /\ B \in Seq(F \X Piece)
  BY <1>2, <1>3, ToType
<1>9. Owes(T, p, tt) /\ Owes(J, p, j) /\ Owes(R, p, r) /\ Owes(A, p, a) /\ Owes(B, p, b)
  BY <1>2, <1>4, OwesTo
<1>10. /\ tt \in Seq(Piece) /\ j \in Seq(Piece) /\ r \in Seq(Piece)
       /\ a \in Seq(Piece) /\ b \in Seq(Piece) /\ d \in Seq(Piece)
  BY <1>2
<1> HIDE DEF T, J, R, A, B, tt, j, r, a, b
<1>11. D \in Seq(F \X Piece) /\ Owes(D, p, d)
  <2>1. CASE IsJson(c) BY <1>8, <1>9, <2>1
  <2>2. CASE ~IsJson(c) /\ ShowsData(c) BY <1>8, <1>9, <2>2
  <2>3. CASE ~IsJson(c) /\ ~ShowsData(c)
    <3>1. D = <<>> /\ d = <<>> BY <2>3
    <3>2. <<>> \in Seq(F \X Piece) OBVIOUS
    <3> QED BY <3>1, <3>2, OwesNothing, Zenon
  <2> QED BY <2>1, <2>2, <2>3
<1> HIDE DEF D, d
<1>12. CASE ps = d /\ tt = <<>> /\ j = <<>> /\ r = <<>>
  <2>1. Owes((T \o J) \o R, p, <<>>) /\ (T \o J) \o R \in Seq(F \X Piece)
    BY <1>2, <1>8, <1>9, <1>12, OwesOfThree
  <2>2. Owes(((T \o J) \o R) \o D, p, <<>> \o ps)
    BY <1>2, <1>5, <1>11, <1>12, <2>1, OwesConcat
  <2>3. <<>> \o ps = ps BY <1>5, ConcatEmptySeq
  <2>4. ((T \o J) \o R) \o D \in Seq(F \X Piece) BY <1>11, <2>1, ConcatProperties
  <2> QED BY <1>7, <2>2, <2>3, <2>4, Zenon DEF F, ps, e
<1>13. CASE /\ d = <<>>
            /\ \/ ps = tt /\ j = <<>> /\ r = <<>>
               \/ ps = j /\ tt = <<>> /\ r = <<>>
               \/ ps = r /\ tt = <<>> /\ j = <<>>
  <2>1. Owes((T \o J) \o R, p, ps) /\ (T \o J) \o R \in Seq(F \X Piece)
    BY <1>5, <1>8, <1>9, <1>13, OwesOfThree
  <2>2. Owes(((T \o J) \o R) \o D, p, ps \o <<>>)
    BY <1>2, <1>5, <1>11, <1>13, <2>1, OwesConcat
  <2>3. ps \o <<>> = ps BY <1>5, ConcatEmptySeq
  <2>4. ((T \o J) \o R) \o D \in Seq(F \X Piece) BY <1>11, <2>1, ConcatProperties
  <2> QED BY <1>7, <2>2, <2>3, <2>4, Zenon DEF F, ps, e
<1> QED BY <1>6, <1>12, <1>13

-----------------------------------------------------------------------------
(* Every write goes to a stream of the command. *)
LEMMA WritesType ==
  ASSUME NEW c, NEW r \in Piece, taken \in Nat
  PROVE  /\ Opening(c) \in Seq(Streams(c) \X Piece)
         /\ Closing(c) \in Seq(Streams(c) \X Piece)
         /\ ForResult(c, r) \in Seq(Streams(c) \X Piece)
<1> DEFINE F == Streams(c)
           T == Seq(F \X Piece)
<1>1. {DataPath(c), ReportPath(c), JsonPath(c), TextPath(c)} \subseteq F \cup {NoWord}
  BY DEF Streams
<1>2. /\ <<"begin">> \in Seq(Piece) /\ <<"title">> \in Seq(Piece) /\ <<"end">> \in Seq(Piece)
      /\ <<r>> \in Seq(Piece) /\ Element(r) \in Seq(Piece)
  <2>1. "begin" \in Piece /\ "title" \in Piece /\ "end" \in Piece /\ "comma" \in Piece
    BY DEF Piece
  <2>2. <<"comma", r>> \in Seq(Piece) /\ <<r>> \in Seq(Piece) BY <2>1
  <2> QED BY <2>1, <2>2 DEF Element
<1>3. <<>> \in T OBVIOUS
<1> HIDE DEF F
<1>4. \A q \in {DataPath(c), ReportPath(c), JsonPath(c), TextPath(c)} :
        \A ps \in Seq(Piece) : To(q, ps) \in T
  BY <1>1, ToType
<1>5. \A s, t \in T : s \o t \in T BY ConcatProperties
<1> HIDE DEF T
<1>6. Opening(c) \in T
  <2>1. To(ReportPath(c), <<"title">>) \in T /\ To(JsonPath(c), <<"begin">>) \in T
        /\ To(DataPath(c), <<"begin">>) \in T
    BY <1>2, <1>4
  <2> QED BY <1>3, <1>5, <2>1 DEF Opening
<1>7. Closing(c) \in T
  <2>1. To(JsonPath(c), <<"end">>) \in T /\ To(DataPath(c), <<"end">>) \in T
    BY <1>2, <1>4
  <2> QED BY <1>3, <1>5, <2>1 DEF Closing
<1>8. ForResult(c, r) \in T
  <2> DEFINE D == CASE IsJson(c) -> To(DataPath(c), Element(r))
                    [] ~IsJson(c) /\ ShowsData(c) -> To(DataPath(c), <<r>>)
                    [] OTHER -> <<>>
  <2>1. /\ To(TextPath(c), <<r>>) \in T /\ To(JsonPath(c), Element(r)) \in T
        /\ To(ReportPath(c), <<r>>) \in T /\ To(DataPath(c), Element(r)) \in T
        /\ To(DataPath(c), <<r>>) \in T
    BY <1>2, <1>4
  <2>2. D \in T
    <3>1. CASE IsJson(c) BY <2>1, <3>1
    <3>2. CASE ~IsJson(c) /\ ShowsData(c) BY <2>1, <3>2
    <3>3. CASE ~IsJson(c) /\ ~ShowsData(c) BY <1>3, <3>3
    <3> QED BY <3>1, <3>2, <3>3
  <2>3. ForResult(c, r) =
          To(TextPath(c), <<r>>) \o To(JsonPath(c), Element(r)) \o To(ReportPath(c), <<r>>) \o D
    BY DEF ForResult
  <2> HIDE DEF D
  <2>4. To(TextPath(c), <<r>>) \o To(JsonPath(c), Element(r)) \in T BY <1>5, <2>1, Zenon
  <2>5. To(TextPath(c), <<r>>) \o To(JsonPath(c), Element(r)) \o To(ReportPath(c), <<r>>) \in T
    BY <1>5, <2>1, <2>4, Zenon
  <2> QED BY <1>5, <2>2, <2>3, <2>5, Zenon
<1> QED BY <1>6, <1>7, <1>8 DEF F, T

LEMMA TodoType ==
  ASSUME NEW c, Sound(c), NEW s \in Seq(Streams(c) \X Piece)
  PROVE  s \in Seq(Path \X Piece) /\ \A k \in DOMAIN s : s[k][1] \in Streams(c)
<1>1. Streams(c) \X Piece \subseteq Path \X Piece BY StreamsOnPath
<1>2. s \in Seq(Path \X Piece) BY <1>1, SeqMonotonic
<1>3. \A k \in 1 .. Len(s) : s[k] \in Streams(c) \X Piece BY ElementOfSeq
<1>4. DOMAIN s = 1 .. Len(s) BY LenProperties
<1> QED BY <1>2, <1>3, <1>4

-----------------------------------------------------------------------------
(* What a file holds that was written as o says. *)
FileIs(o, d) ==
  IF o.json THEN Starts(d, JsonOf(o.of)) /\ (o.whole => d = JsonOf(o.of))
            ELSE d = <<>> \/ d[1] # "begin"

LEMMA EmptyFile ==
  ASSUME NEW o \in Origin, ~o.whole
  PROVE  FileIs(o, <<>>)
<1>1. o.of \in Seq(Piece) BY ResultIsPiece DEF Origin
<1>2. JsonOf(o.of) \in Seq(Piece) BY <1>1, JsonIs
<1>3. Starts(<<>>, JsonOf(o.of)) BY <1>2, LenProperties DEF Starts
<1> QED BY <1>3 DEF FileIs

LEMMA StreamStarts ==
  ASSUME NEW c, Sound(c), NEW rs \in Seq(Result), NEW p \in Streams(c),
         NEW n \in 0 .. Len(rs), NEW d \in Seq(Piece), NEW h \in Seq(Piece),
         NEW ps \in Seq(Piece), Table(c, p) => d = <<>>,
         \/ (d \o h) \o ps = SoFar(c, rs, p, n)
         \/ n = Len(rs) /\ (d \o h) \o ps = SoFar(c, rs, p, n) \o Ending(c, p)
  PROVE  Starts(d, Whole(c, rs, p))
<1> DEFINE w == Whole(c, rs, p)
           s == SoFar(c, rs, p, n)
<1>1. w \in Seq(Piece) /\ s \in Seq(Piece) BY WholeType, SoFarType
<1>2. CASE Table(c, p) BY <1>1, <1>2, LenProperties DEF Starts
<1>3. CASE ~Table(c, p)
  <2>1. d \o h \in Seq(Piece) BY ConcatProperties
  <2>2. Starts(d, d \o h) BY StartsConcat
  <2>3. Starts(d \o h, (d \o h) \o ps) /\ (d \o h) \o ps \in Seq(Piece)
    BY <2>1, StartsConcat, ConcatProperties
  <2>4. Starts((d \o h) \o ps, w)
    <3>1. CASE (d \o h) \o ps = s
      <4>1. Starts(s, w) BY <1>3, SoFarBeginsWhole
      <4> QED BY <3>1, <4>1, Zenon
    <3>2. CASE n = Len(rs) /\ (d \o h) \o ps = s \o Ending(c, p)
      <4>1. w = s \o Ending(c, p) BY <1>3, <3>2 DEF Whole
      <4>2. Starts(w, w) BY <1>1, LenProperties DEF Starts
      <4> QED BY <3>2, <4>1, <4>2, Zenon
    <3> QED BY <3>1, <3>2
  <2> HIDE DEF w, s
  <2>5. Starts(d \o h, w) BY <1>1, <2>1, <2>3, <2>4, StartsTrans
  <2> QED BY <1>1, <2>1, <2>2, <2>5, StartsTrans DEF w
<1> QED BY <1>2, <1>3

LEMMA StreamFile ==
  ASSUME NEW c, Sound(c), NEW rs \in Seq(Result), NEW p \in Streams(c),
         NEW d \in Seq(Piece), Starts(d, Whole(c, rs, p)), NEW o \in Origin,
         o.of = rs, o.json = Array(c, p), o.whole => d = Whole(c, rs, p)
  PROVE  FileIs(o, d)
<1>1. CASE Array(c, p)
  <2>1. Whole(c, rs, p) = JsonOf(rs) BY <1>1, WholeArray
  <2> QED BY <1>1, <2>1 DEF FileIs
<1>2. CASE ~Array(c, p)
  <2>1. CASE d # <<>>
    <3>1. Len(d) \in Nat \ {0} BY <2>1, EmptySeq
    <3>2. Whole(c, rs, p) \in Seq(Piece) BY WholeType
    <3>3. d[1] = Whole(c, rs, p)[1] /\ Len(Whole(c, rs, p)) # 0
      BY <3>1, <3>2, LenProperties DEF Starts
    <3>4. Whole(c, rs, p) # <<>> BY <3>2, <3>3, EmptySeq
    <3>5. d[1] # "begin" BY <1>2, <3>3, <3>4, NoArray
    <3> QED BY <1>2, <3>5 DEF FileIs
  <2> QED BY <1>2, <2>1 DEF FileIs
<1> QED BY <1>1, <1>2

(* --process gets from a file the results it was written for. *)
LEMMA FileGives ==
  ASSUME NEW o \in Origin, NEW d \in Seq(Piece), FileIs(o, d), Len(d) >= 2,
         d = JsonOf(Elements(d))
  PROVE  o.json /\ Elements(d) = o.of
<1>1. o.json BY NotJson DEF FileIs
<1>2. o.of \in Seq(Result) BY DEF Origin
<1> QED BY <1>1, <1>2, WholeJson DEF FileIs

LEMMA WholeFileGives ==
  ASSUME NEW o \in Origin, NEW d \in Seq(Piece), FileIs(o, d), o.json, o.whole
  PROVE  Len(d) >= 2 /\ d = JsonOf(Elements(d))
<1>1. o.of \in Seq(Piece) /\ d = JsonOf(o.of) BY ResultIsPiece DEF FileIs, Origin
<1>2. Elements(d) = o.of BY <1>1, ElementsOfJson
<1>3. Len(o.of) \in Nat BY <1>1, LenProperties
<1>4. Len(d) = IF Len(o.of) = 0 THEN 2 ELSE 2 * Len(o.of) + 1 BY <1>1, JsonIs
<1> QED BY <1>1, <1>2, <1>3, <1>4

-----------------------------------------------------------------------------
(* The inductive invariant of the session.  PhaseInv is what each phase    *)
(* may rely on.  StreamInv is the heart: what is on disk, in the buffer    *)
(* and outstanding for a stream is, in this order, what the loop has       *)
(* written to it so far.  FileInv is about every file, those of commands   *)
(* that were killed included, because --process may be given any of them;  *)
(* DoneInv is about those of the command that has just ended.              *)
PhaseInv ==
  /\ phase # "ready" => turn > 0 /\ outcome = "none"
  /\ phase \notin {"run", "close"} => todo = <<>> /\ held = Nowhere
  /\ phase \in {"open", "run", "close"} => ~GivesHelp(command)
  /\ phase \in {"start", "open"} => disk[command.stdout] = <<>> /\ taken = 0
  /\ phase = "start" => source = NoOrigin
  /\ phase = "close" => taken = Len(delivered)

Written(p) ==
  IF phase = "close" THEN SoFar(command, delivered, p, taken) \o Ending(command, p)
                     ELSE SoFar(command, delivered, p, taken)
StreamInv ==
  phase \in {"run", "close"} =>
    /\ \A p \in Path : held[p] # <<>> => p \in Streams(command)
    /\ \A p \in Streams(command) :
         /\ origin[p] = [of |-> delivered, whole |-> FALSE, json |-> Array(command, p)]
         /\ Table(command, p) => disk[p] = <<>>
         /\ \E ps \in Seq(Piece) :
              Owes(todo, p, ps) /\ (disk[p] \o held[p]) \o ps = Written(p)

FileInv == \A p \in Path : FileIs(origin[p], disk[p])

DoneInv ==
  turn > 0 /\ outcome = "done" =>
    \A p \in Streams(command) : disk[p] = Whole(command, delivered, p)

-----------------------------------------------------------------------------
LEMMA CommandSound == FilesTypeOK /\ turn > 0 => Sound(command)
<1> SUFFICES ASSUME FilesTypeOK, turn > 0 PROVE Sound(command)
  OBVIOUS
<1>1. turn \in 0 .. Len(Commands) /\ command \in Commands[turn] BY DEF FilesTypeOK
<1>2. Len(Commands) \in Nat BY CommandAssumption, LenProperties
<1>3. turn \in 1 .. Len(Commands) BY <1>1, <1>2
<1> QED BY <1>1, <1>3, CommandIsSound

LEMMA NoOriginType == NoOrigin \in Origin /\ NoOrigin.whole = FALSE
BY DEF NoOrigin, Origin

LEMMA NowhereType == Nowhere \in [Path -> Seq(Piece)] /\ \A p \in Path : Nowhere[p] = <<>>
BY DEF Nowhere

LEMMA StartKeepsTypes ==
  ASSUME FilesTypeOK, PhaseInv, StartCommand
  PROVE  FilesTypeOK' /\ PhaseInv'
<1>1. /\ phase = "ready" /\ turn < Len(Commands) /\ turn' = turn + 1
      /\ phase' = "start" /\ outcome' = "none" /\ delivered' = <<>> /\ taken' = 0
      /\ source' = NoOrigin /\ todo' = todo /\ held' = held /\ kills' = kills
  BY DEF StartCommand
<1>2. PICK c \in Commands[turn'] :
        /\ command' = c
        /\ disk' = [disk EXCEPT ![c.stdout] = <<>>]
        /\ origin' = [origin EXCEPT ![c.stdout] = NoOrigin]
  BY DEF StartCommand
<1>3. Len(Commands) \in Nat /\ turn \in 0 .. Len(Commands)
  BY CommandAssumption, LenProperties DEF FilesTypeOK
<1>4. turn' \in 1 .. Len(Commands) BY <1>1, <1>3
<1>5. Sound(c) BY <1>2, <1>4, CommandIsSound
<1>6. c.stdout \in Path BY <1>5, Places
<1>7. todo = <<>> /\ held = Nowhere BY <1>1 DEF PhaseInv
<1>8. disk' \in [Path -> Seq(Piece)] /\ disk'[c.stdout] = <<>>
  BY <1>2, <1>6 DEF FilesTypeOK
<1>9. origin' \in [Path -> Origin] BY <1>2, <1>6, NoOriginType DEF FilesTypeOK
<1>10. delivered' \in Seq(Result) /\ taken' \in 0 .. Len(delivered') BY <1>1
<1>11. todo' \in Seq(Path \X Piece) /\ \A k \in DOMAIN todo' : todo'[k][1] \in Streams(command')
  BY <1>1, <1>7
<1>12. \A p \in Path : held'[p] = <<>> BY <1>1, <1>7, NowhereType
<1>13. FilesTypeOK'
  BY <1>1, <1>2, <1>3, <1>4, <1>7, <1>8, <1>9, <1>10, <1>11, <1>12, NoOriginType, NowhereType
  DEF FilesTypeOK
<1>14. PhaseInv' BY <1>1, <1>2, <1>3, <1>7, <1>8 DEF PhaseInv, Nowhere
<1> QED BY <1>13, <1>14

-----------------------------------------------------------------------------
(* Types and phases, action by action. *)

LEMMA ProcessPath ==
  ASSUME FilesTypeOK, turn > 0, Processes(command)
  PROVE  /\ command.process \in Path
         /\ origin[command.process] \in Origin
         /\ disk[command.process] \in Seq(Piece)
<1>1. command.process \in Path BY CommandSound, Places DEF Processes
<1> QED BY <1>1 DEF FilesTypeOK

LEMMA ProcessGives ==
  ASSUME FilesTypeOK, FileInv, turn > 0, Processes(command), Unmarshals(command.process)
  PROVE  /\ origin[command.process].json
         /\ Elements(disk[command.process]) = origin[command.process].of
         /\ Elements(disk[command.process]) \in Seq(Result)
<1> DEFINE o == origin[command.process]
           d == disk[command.process]
<1>1. command.process \in Path /\ o \in Origin /\ d \in Seq(Piece) BY ProcessPath
<1>2. FileIs(o, d) BY <1>1 DEF FileInv
<1>3. Len(d) >= 2 /\ d = JsonOf(Elements(d)) BY DEF Unmarshals
<1> HIDE DEF o, d
<1>4. o.json /\ Elements(d) = o.of BY <1>1, <1>2, <1>3, FileGives
<1>5. o.of \in Seq(Result) BY <1>1 DEF Origin
<1> QED BY <1>4, <1>5 DEF o, d

LEMMA LeaveKeepsTypes ==
  ASSUME FilesTypeOK, PhaseInv, ShowHelp \/ ConfigFails \/ DryRun \/ ProcessFails
  PROVE  FilesTypeOK' /\ PhaseInv'
<1>1. /\ phase = "start" /\ phase' = "ready"
      /\ outcome' \in {"help", "exit-1", "dry-run"}
      /\ turn' = turn /\ command' = command /\ delivered' = delivered /\ taken' = taken
      /\ todo' = todo /\ held' = held /\ disk' = disk /\ origin' = origin /\ kills' = kills
  BY DEF ShowHelp, ConfigFails, DryRun, ProcessFails, Leave, ioVars
<1>2. source' \in Origin
  <2>1. CASE source' = source BY <2>1 DEF FilesTypeOK
  <2>2. CASE ProcessFails
    <3>1. turn > 0 BY <1>1 DEF PhaseInv
    <3> QED BY <2>2, <3>1, ProcessPath DEF ProcessFails
  <2> QED BY <2>1, <2>2 DEF ShowHelp, ConfigFails, DryRun
<1>3. todo = <<>> /\ held = Nowhere BY <1>1 DEF PhaseInv
<1>4. FilesTypeOK' BY <1>1, <1>2, <1>3, NowhereType DEF FilesTypeOK
<1>5. PhaseInv' BY <1>1, <1>3 DEF PhaseInv, Nowhere
<1> QED BY <1>4, <1>5

LEMMA BeginKeepsTypes ==
  ASSUME FilesTypeOK, PhaseInv, FileInv, BeginScan \/ BeginProcess
  PROVE  FilesTypeOK' /\ PhaseInv'
<1>1. /\ phase = "start" /\ phase' = "open" /\ ~GivesHelp(command)
      /\ turn' = turn /\ command' = command /\ outcome' = outcome /\ taken' = taken
      /\ todo' = todo /\ held' = held /\ disk' = disk /\ origin' = origin /\ kills' = kills
  BY DEF BeginScan, BeginProcess, Proceeds, ioVars
<1>2. /\ todo = <<>> /\ held = Nowhere /\ turn > 0 /\ taken = 0 /\ outcome = "none"
      /\ disk[command.stdout] = <<>>
  BY <1>1 DEF PhaseInv
<1>3. delivered' \in Seq(Result) /\ source' \in Origin
  <2>1. CASE BeginScan
    <3>1. PICK n \in 0 .. Len(Findings) : delivered' = SubSeq(Findings, 1, n)
      BY <2>1 DEF BeginScan
    <3>2. SubSeq(Findings, 1, n) \in Seq(Result) BY FindingAssumption, FirstOf
    <3>3. source' = source BY <2>1 DEF BeginScan
    <3> QED BY <3>1, <3>2, <3>3 DEF FilesTypeOK
  <2>2. CASE BeginProcess
    <3>1. /\ Processes(command) /\ Unmarshals(command.process)
          /\ delivered' = Elements(disk[command.process])
          /\ source' = origin[command.process]
      BY <2>2 DEF BeginProcess
    <3> QED BY <1>2, <3>1, ProcessPath, ProcessGives
  <2> QED BY <2>1, <2>2
<1>4. taken' \in 0 .. Len(delivered') BY <1>1, <1>2, <1>3, LenProperties
<1>5. FilesTypeOK' BY <1>1, <1>2, <1>3, <1>4, NowhereType DEF FilesTypeOK
<1>6. PhaseInv' BY <1>1, <1>2 DEF PhaseInv, Nowhere
<1> QED BY <1>5, <1>6

(* What OpenOutputs leaves: every stream empty. *)
LEMMA OpenMakes ==
  ASSUME FilesTypeOK, PhaseInv, OpenOutputs
  PROVE  /\ Sound(command) /\ Streams(command) \subseteq Path
         /\ disk' \in [Path -> Seq(Piece)] /\ origin' \in [Path -> Origin]
         /\ \A p \in Streams(command) :
              /\ disk'[p] = <<>>
              /\ origin'[p] = [of |-> delivered, whole |-> FALSE, json |-> Array(command, p)]
         /\ \A p \in Path : \/ disk'[p] = <<>> /\ origin'[p].whole = FALSE
                            \/ disk'[p] = disk[p] /\ origin'[p] = origin[p]
<1> DEFINE opened == {p \in Given(command) : Opens(command, p)}
           o(p) == [of |-> delivered, whole |-> FALSE, json |-> Array(command, p)]
<1>1. phase = "open" /\ turn > 0 BY DEF OpenOutputs, PhaseInv
<1>2. Sound(command) BY <1>1, CommandSound
<1>3. Streams(command) \subseteq Path BY <1>2, StreamsOnPath
<1>4. disk' = [p \in Path |-> IF p \in opened THEN <<>> ELSE disk[p]]
  BY DEF OpenOutputs
<1>5. origin' = [p \in Path |-> IF p \in Streams(command) THEN o(p)
                               ELSE IF p \in opened THEN NoOrigin ELSE origin[p]]
  BY DEF OpenOutputs, Array
<1>6. \A p : o(p) \in Origin /\ o(p).whole = FALSE
  <2>1. delivered \in Seq(Result) BY DEF FilesTypeOK
  <2>2. \A p : Array(command, p) \in BOOLEAN BY DEF Array
  <2> QED BY <2>1, <2>2 DEF Origin
<1>7. \A p \in Streams(command) : p = command.stdout \/ p \in opened
  BY <1>2, Places
<1>8. disk[command.stdout] = <<>> BY <1>1 DEF PhaseInv
<1> HIDE DEF opened, o
<1>9. \A p \in Streams(command) : disk'[p] = <<>> /\ origin'[p] = o(p)
  BY <1>3, <1>4, <1>5, <1>7, <1>8
<1>10. disk' \in [Path -> Seq(Piece)] BY <1>4 DEF FilesTypeOK
<1>11. origin' \in [Path -> Origin] BY <1>5, <1>6, NoOriginType DEF FilesTypeOK
<1>12. \A p \in Path : \/ disk'[p] = <<>> /\ origin'[p].whole = FALSE
                       \/ disk'[p] = disk[p] /\ origin'[p] = origin[p]
  <2> TAKE p \in Path
  <2>1. CASE p \in Streams(command) BY <1>6, <1>9, <2>1
  <2>2. CASE p \notin Streams(command) /\ p \in opened BY <1>4, <1>5, <2>2, NoOriginType
  <2>3. CASE p \notin Streams(command) /\ p \notin opened BY <1>4, <1>5, <2>3
  <2> QED BY <2>1, <2>2, <2>3
<1> QED BY <1>2, <1>3, <1>9, <1>10, <1>11, <1>12 DEF o

LEMMA OpenKeepsTypes ==
  ASSUME FilesTypeOK, PhaseInv, OpenOutputs
  PROVE  FilesTypeOK' /\ PhaseInv'
<1>1. /\ phase = "open" /\ phase' = "run" /\ todo' = Opening(command)
      /\ turn' = turn /\ command' = command /\ outcome' = outcome /\ taken' = taken
      /\ delivered' = delivered /\ held' = held /\ source' = source /\ kills' = kills
  BY DEF OpenOutputs
<1>2. held = Nowhere /\ turn > 0 /\ outcome = "none" /\ ~GivesHelp(command)
  BY <1>1 DEF PhaseInv
<1>3. disk' \in [Path -> Seq(Piece)] /\ origin' \in [Path -> Origin] /\ Sound(command)
  BY OpenMakes
<1>4. taken \in Nat BY LenProperties DEF FilesTypeOK
<1>5. todo' \in Seq(Streams(command) \X Piece)
  <2>1. "end" \in Piece BY DEF Piece
  <2> QED BY <1>1, <1>4, <2>1, WritesType
<1>6. todo' \in Seq(Path \X Piece) /\ \A k \in DOMAIN todo' : todo'[k][1] \in Streams(command)
  BY <1>3, <1>5, TodoType
<1>7. FilesTypeOK' BY <1>1, <1>2, <1>3, <1>6, NowhereType DEF FilesTypeOK
<1>8. PhaseInv' BY <1>1, <1>2 DEF PhaseInv
<1> QED BY <1>7, <1>8

-----------------------------------------------------------------------------
(* What one write does, and one spill. *)
LEMMA WriteMakes ==
  ASSUME FilesTypeOK, PhaseInv, Write
  PROVE  \E p \in Streams(command) \cap Path, x \in Piece :
           /\ p = Head(todo)[1] /\ x = Head(todo)[2]
           /\ todo \in Seq(Path \X Piece) /\ todo # <<>> /\ todo' = Tail(todo)
           /\ \/ Held(command, p) /\ held' = [held EXCEPT ![p] = Append(held[p], x)]
                 /\ disk' = disk
              \/ ~Held(command, p) /\ disk' = [disk EXCEPT ![p] = Append(disk[p], x)]
                 /\ held' = held
<1> DEFINE p == Head(todo)[1]
           x == Head(todo)[2]
<1>1. todo \in Seq(Path \X Piece) /\ todo # <<>> /\ todo' = Tail(todo)
  BY DEF Write, FilesTypeOK
<1>2. Head(todo) \in Path \X Piece BY <1>1, HeadTailProperties
<1>3. Head(todo) = todo[1] /\ 1 \in DOMAIN todo BY <1>1, LenProperties, EmptySeq
<1>4. p \in Streams(command) BY <1>3 DEF FilesTypeOK
<1>5. \/ Held(command, p) /\ held' = [held EXCEPT ![p] = Append(held[p], x)] /\ disk' = disk
      \/ ~Held(command, p) /\ disk' = [disk EXCEPT ![p] = Append(disk[p], x)] /\ held' = held
  BY DEF Write
<1> QED BY <1>1, <1>2, <1>4, <1>5

LEMMA TailKeeps ==
  ASSUME NEW F, NEW s \in Seq(Path \X Piece), s # <<>>, \A k \in DOMAIN s : s[k][1] \in F
  PROVE  Tail(s) \in Seq(Path \X Piece) /\ \A k \in DOMAIN Tail(s) : Tail(s)[k][1] \in F
<1>1. /\ Tail(s) \in Seq(Path \X Piece) /\ Len(Tail(s)) = Len(s) - 1
      /\ \A i \in 1 .. Len(Tail(s)) : Tail(s)[i] = s[i + 1]
      /\ Len(s) \in Nat \ {0}
  BY HeadTailProperties, LenProperties, EmptySeq
<1>2. DOMAIN s = 1 .. Len(s) /\ DOMAIN Tail(s) = 1 .. Len(Tail(s)) BY <1>1, LenProperties
<1>3. \A i \in 1 .. Len(Tail(s)) : i + 1 \in 1 .. Len(s) BY <1>1
<1> QED BY <1>1, <1>2, <1>3

LEMMA WriteKeepsTypes ==
  ASSUME FilesTypeOK, PhaseInv, Write
  PROVE  FilesTypeOK' /\ PhaseInv'
<1>1. /\ phase \in {"run", "close"} /\ phase' = phase
      /\ turn' = turn /\ command' = command /\ outcome' = outcome /\ taken' = taken
      /\ delivered' = delivered /\ origin' = origin /\ source' = source /\ kills' = kills
  BY DEF Write
<1>2. PICK p \in Streams(command) \cap Path, x \in Piece :
        /\ todo \in Seq(Path \X Piece) /\ todo # <<>> /\ todo' = Tail(todo)
        /\ \/ Held(command, p) /\ held' = [held EXCEPT ![p] = Append(held[p], x)]
              /\ disk' = disk
           \/ ~Held(command, p) /\ disk' = [disk EXCEPT ![p] = Append(disk[p], x)]
              /\ held' = held
  BY WriteMakes
<1>3. Append(held[p], x) \in Seq(Piece) /\ Append(disk[p], x) \in Seq(Piece)
  BY AppendProperties DEF FilesTypeOK
<1>4. held' \in [Path -> Seq(Piece)] /\ disk' \in [Path -> Seq(Piece)]
  BY <1>2, <1>3 DEF FilesTypeOK
<1>5. \A q \in Path : held'[q] # <<>> => Held(command, q)
  BY <1>2 DEF FilesTypeOK
<1>6. todo' \in Seq(Path \X Piece) /\ \A k \in DOMAIN todo' : todo'[k][1] \in Streams(command)
  <2>1. \A k \in DOMAIN todo : todo[k][1] \in Streams(command) BY DEF FilesTypeOK
  <2> QED BY <1>2, <2>1, TailKeeps
<1>7. FilesTypeOK' BY <1>1, <1>4, <1>5, <1>6 DEF FilesTypeOK
<1>8. PhaseInv' BY <1>1 DEF PhaseInv
<1> QED BY <1>7, <1>8

LEMMA SpillMakes ==
  ASSUME FilesTypeOK, NEW p \in Path, Spill(p)
  PROVE  /\ held[p] \in Seq(Piece) /\ held[p] # <<>> /\ ~Table(command, p)
         /\ Head(held[p]) \in Piece /\ Tail(held[p]) \in Seq(Piece)
         /\ disk' = [disk EXCEPT ![p] = Append(disk[p], Head(held[p]))]
         /\ held' = [held EXCEPT ![p] = Tail(held[p])]
         /\ disk' \in [Path -> Seq(Piece)] /\ held' \in [Path -> Seq(Piece)]
         /\ phase \in {"run", "close"} /\ phase' = phase
         /\ turn' = turn /\ command' = command /\ outcome' = outcome /\ taken' = taken
         /\ delivered' = delivered /\ origin' = origin /\ source' = source /\ kills' = kills
         /\ todo' = todo
<1>1. /\ held[p] # <<>> /\ ~Table(command, p)
      /\ disk' = [disk EXCEPT ![p] = Append(disk[p], Head(held[p]))]
      /\ held' = [held EXCEPT ![p] = Tail(held[p])]
      /\ phase \in {"run", "close"} /\ phase' = phase
      /\ turn' = turn /\ command' = command /\ outcome' = outcome /\ taken' = taken
      /\ delivered' = delivered /\ origin' = origin /\ source' = source /\ kills' = kills
      /\ todo' = todo
  BY DEF Spill, Table
<1>2. held[p] \in Seq(Piece) /\ disk[p] \in Seq(Piece) BY DEF FilesTypeOK
<1>3. Head(held[p]) \in Piece /\ Tail(held[p]) \in Seq(Piece)
  BY <1>1, <1>2, HeadTailProperties
<1>4. Append(disk[p], Head(held[p])) \in Seq(Piece) BY <1>2, <1>3, AppendProperties
<1>5. disk' \in [Path -> Seq(Piece)] /\ held' \in [Path -> Seq(Piece)]
  BY <1>1, <1>3, <1>4 DEF FilesTypeOK
<1> QED BY <1>1, <1>2, <1>3, <1>5

LEMMA SpillKeepsTypes ==
  ASSUME FilesTypeOK, PhaseInv, NEW p \in Path, Spill(p)
  PROVE  FilesTypeOK' /\ PhaseInv'
<1>1. /\ held[p] # <<>> /\ held' = [held EXCEPT ![p] = Tail(held[p])]
      /\ disk' \in [Path -> Seq(Piece)] /\ held' \in [Path -> Seq(Piece)]
      /\ phase \in {"run", "close"} /\ phase' = phase
      /\ turn' = turn /\ command' = command /\ outcome' = outcome /\ taken' = taken
      /\ delivered' = delivered /\ origin' = origin /\ source' = source /\ kills' = kills
      /\ todo' = todo
  BY SpillMakes
<1>2. \A q \in Path : held'[q] # <<>> => Held(command, q)
  <2>1. \A q \in Path : held[q] # <<>> => Held(command, q) BY DEF FilesTypeOK
  <2>2. \A q \in Path : held'[q] # <<>> => held[q] # <<>> BY <1>1 DEF FilesTypeOK
  <2> QED BY <2>1, <2>2
<1>3. FilesTypeOK' BY <1>1, <1>2 DEF FilesTypeOK
<1>4. PhaseInv' BY <1>1 DEF PhaseInv
<1> QED BY <1>3, <1>4

LEMMA TakeKeepsTypes ==
  ASSUME FilesTypeOK, PhaseInv, TakeResult
  PROVE  FilesTypeOK' /\ PhaseInv'
<1>1. /\ phase = "run" /\ phase' = "run" /\ taken < Len(delivered) /\ taken' = taken + 1
      /\ todo' = ForResult(command, delivered[taken + 1])
      /\ turn' = turn /\ command' = command /\ outcome' = outcome /\ held' = held
      /\ disk' = disk
      /\ delivered' = delivered /\ origin' = origin /\ source' = source /\ kills' = kills
  BY DEF TakeResult
<1>2. turn > 0 /\ Sound(command) BY <1>1, CommandSound DEF PhaseInv
<1>3. /\ delivered \in Seq(Result) /\ Len(delivered) \in Nat /\ taken \in Nat
      /\ taken + 1 \in 1 .. Len(delivered) /\ taken + 1 \in 0 .. Len(delivered)
  BY <1>1, LenProperties DEF FilesTypeOK
<1>4. delivered[taken + 1] \in Piece BY <1>3, ElementOfSeq, ResultIsPiece
<1>5. todo' \in Seq(Streams(command) \X Piece) BY <1>1, <1>3, <1>4, WritesType
<1>6. todo' \in Seq(Path \X Piece) /\ \A k \in DOMAIN todo' : todo'[k][1] \in Streams(command)
  BY <1>2, <1>5, TodoType
<1>7. FilesTypeOK' BY <1>1, <1>3, <1>6 DEF FilesTypeOK
<1>8. PhaseInv' BY <1>1 DEF PhaseInv
<1> QED BY <1>7, <1>8

LEMMA EndKeepsTypes ==
  ASSUME FilesTypeOK, PhaseInv, EndLoop
  PROVE  FilesTypeOK' /\ PhaseInv'
<1>1. /\ phase = "run" /\ phase' = "close" /\ taken = Len(delivered) /\ taken' = taken
      /\ todo' = Closing(command)
      /\ turn' = turn /\ command' = command /\ outcome' = outcome /\ held' = held
      /\ disk' = disk
      /\ delivered' = delivered /\ origin' = origin /\ source' = source /\ kills' = kills
  BY DEF EndLoop
<1>2. turn > 0 /\ Sound(command) BY <1>1, CommandSound DEF PhaseInv
<1>3. taken \in Nat BY LenProperties DEF FilesTypeOK
<1>4. todo' \in Seq(Streams(command) \X Piece)
  <2>1. "end" \in Piece BY DEF Piece
  <2> QED BY <1>1, <1>3, <2>1, WritesType
<1>5. todo' \in Seq(Path \X Piece) /\ \A k \in DOMAIN todo' : todo'[k][1] \in Streams(command)
  BY <1>2, <1>4, TodoType
<1>6. FilesTypeOK' BY <1>1, <1>5 DEF FilesTypeOK
<1>7. PhaseInv' BY <1>1 DEF PhaseInv
<1> QED BY <1>6, <1>7

LEMMA FinishMakes ==
  ASSUME FilesTypeOK, PhaseInv, Finish
  PROVE  /\ Sound(command) /\ Streams(command) \subseteq Path
         /\ disk' \in [Path -> Seq(Piece)] /\ origin' \in [Path -> Origin]
         /\ \A p \in Streams(command) :
              /\ disk'[p] = disk[p] \o Title(p) \o held[p]
              /\ origin'[p] = [origin[p] EXCEPT !.whole = TRUE]
         /\ \A p \in Path \ Streams(command) : disk'[p] = disk[p] /\ origin'[p] = origin[p]
         /\ phase = "close" /\ phase' = "ready" /\ outcome' = "done" /\ held' = Nowhere
         /\ todo = <<>> /\ turn > 0
         /\ turn' = turn /\ command' = command /\ taken' = taken
         /\ delivered' = delivered /\ source' = source /\ kills' = kills /\ todo' = todo
<1>1. /\ phase = "close" /\ phase' = "ready" /\ outcome' = "done" /\ held' = Nowhere
      /\ turn' = turn /\ command' = command /\ taken' = taken
      /\ delivered' = delivered /\ source' = source /\ kills' = kills
      /\ todo = <<>> /\ todo' = todo
      /\ disk' = [p \in Path |-> IF p \in Streams(command)
                                 THEN disk[p] \o Title(p) \o held[p] ELSE disk[p]]
      /\ origin' = [p \in Path |-> IF p \in Streams(command)
                                   THEN [origin[p] EXCEPT !.whole = TRUE] ELSE origin[p]]
  BY DEF Finish
<1>2. turn > 0 /\ Sound(command) BY <1>1, CommandSound DEF PhaseInv
<1>3. Streams(command) \subseteq Path BY <1>2, StreamsOnPath
<1>4. \A p \in Path : disk[p] \o Title(p) \o held[p] \in Seq(Piece)
  <2> TAKE p \in Path
  <2>1. "header" \in Piece BY DEF Piece
  <2>2. Title(p) \in Seq(Piece) BY <2>1 DEF Title
  <2>3. disk[p] \in Seq(Piece) /\ held[p] \in Seq(Piece) BY DEF FilesTypeOK
  <2>4. disk[p] \o Title(p) \in Seq(Piece) BY <2>2, <2>3, ConcatProperties
  <2> QED BY <2>3, <2>4, ConcatProperties
<1>5. disk' \in [Path -> Seq(Piece)] BY <1>1, <1>4 DEF FilesTypeOK
<1>6. \A p \in Path : [origin[p] EXCEPT !.whole = TRUE] \in Origin BY DEF FilesTypeOK, Origin
<1>7. origin' \in [Path -> Origin] BY <1>1, <1>6 DEF FilesTypeOK
<1>8. \A p \in Streams(command) :
              /\ disk'[p] = disk[p] \o Title(p) \o held[p]
              /\ origin'[p] = [origin[p] EXCEPT !.whole = TRUE]
  BY <1>1, <1>3
<1>9. \A p \in Path \ Streams(command) : disk'[p] = disk[p] /\ origin'[p] = origin[p]
  BY <1>1
<1> QED BY <1>1, <1>2, <1>3, <1>5, <1>7, <1>8, <1>9

LEMMA FinishKeepsTypes ==
  ASSUME FilesTypeOK, PhaseInv, Finish
  PROVE  FilesTypeOK' /\ PhaseInv'
<1>1. /\ phase' = "ready" /\ outcome' = "done" /\ held' = Nowhere
      /\ disk' \in [Path -> Seq(Piece)] /\ origin' \in [Path -> Origin]
      /\ todo = <<>> /\ turn' = turn /\ command' = command /\ taken' = taken
      /\ delivered' = delivered /\ source' = source /\ kills' = kills /\ todo' = todo
  BY FinishMakes
<1>2. FilesTypeOK' BY <1>1, NowhereType DEF FilesTypeOK
<1>3. PhaseInv' BY <1>1 DEF PhaseInv, Nowhere
<1> QED BY <1>2, <1>3

LEMMA KillKeepsTypes ==
  ASSUME FilesTypeOK, PhaseInv, Kill
  PROVE  FilesTypeOK' /\ PhaseInv'
<1>1. /\ phase' = "ready" /\ outcome' = "killed" /\ held' = Nowhere /\ todo' = <<>>
      /\ disk' = disk /\ origin' = origin /\ turn' = turn /\ command' = command
      /\ taken' = taken /\ delivered' = delivered /\ source' = source
      /\ kills < MaxKills /\ kills' = kills + 1
  BY DEF Kill
<1>2. kills' \in 0 .. MaxKills BY <1>1, PathAssumption DEF FilesTypeOK
<1>3. FilesTypeOK' BY <1>1, <1>2, NowhereType DEF FilesTypeOK
<1>4. PhaseInv' BY <1>1 DEF PhaseInv, Nowhere
<1> QED BY <1>3, <1>4

LEMMA TypeStep ==
  FilesTypeOK /\ PhaseInv /\ FileInv /\ [FilesNext]_filesVars => FilesTypeOK' /\ PhaseInv'
<1> SUFFICES ASSUME FilesTypeOK, PhaseInv, FileInv, [FilesNext]_filesVars
             PROVE  FilesTypeOK' /\ PhaseInv'
  OBVIOUS
<1>1. CASE StartCommand BY <1>1, StartKeepsTypes
<1>2. CASE ShowHelp \/ ConfigFails \/ DryRun \/ ProcessFails BY <1>2, LeaveKeepsTypes
<1>3. CASE BeginScan \/ BeginProcess BY <1>3, BeginKeepsTypes
<1>4. CASE OpenOutputs BY <1>4, OpenKeepsTypes
<1>5. CASE Write BY <1>5, WriteKeepsTypes
<1>6. CASE TakeResult BY <1>6, TakeKeepsTypes
<1>7. CASE EndLoop BY <1>7, EndKeepsTypes
<1>8. CASE Finish BY <1>8, FinishKeepsTypes
<1>9. ASSUME NEW p \in Path, Spill(p) PROVE FilesTypeOK' /\ PhaseInv'
  BY <1>9, SpillKeepsTypes
<1>10. CASE Kill BY <1>10, KillKeepsTypes
<1>11. CASE UNCHANGED filesVars
  BY <1>11 DEF filesVars, ioVars, FilesTypeOK, PhaseInv, Nowhere
<1> QED BY <1>1, <1>2, <1>3, <1>4, <1>5, <1>6, <1>7, <1>8, <1>9, <1>10, <1>11
        DEF FilesNext, AllRun

-----------------------------------------------------------------------------
(* The streams, action by action. *)

LEMMA OpenKeepsStreams ==
  ASSUME FilesTypeOK, PhaseInv, OpenOutputs
  PROVE  StreamInv'
<1>1. /\ phase = "open" /\ phase' = "run" /\ todo' = Opening(command) /\ command' = command
      /\ taken' = taken /\ delivered' = delivered /\ held' = held
  BY DEF OpenOutputs
<1>2. held = Nowhere /\ taken = 0 /\ delivered \in Seq(Result)
  BY <1>1 DEF PhaseInv, FilesTypeOK
<1>3. /\ Sound(command) /\ Streams(command) \subseteq Path
      /\ \A p \in Streams(command) :
           /\ disk'[p] = <<>>
           /\ origin'[p] = [of |-> delivered, whole |-> FALSE, json |-> Array(command, p)]
  BY OpenMakes
<1>4. \A p \in Path : held'[p] = <<>> BY <1>1, <1>2, NowhereType
<1>5. ASSUME NEW p \in Streams(command)
      PROVE  \E ps \in Seq(Piece) :
               Owes(todo', p, ps) /\ (disk'[p] \o held'[p]) \o ps = Written(p)'
  <2> DEFINE ps == SoFar(command, delivered, p, 0)
  <2>1. ps \in Seq(Piece)
    <3>1. 0 \in 0 .. Len(delivered) BY <1>2, LenProperties
    <3> QED BY <1>2, <3>1, SoFarType
  <2>2. Owes(todo', p, ps) BY <1>1, <1>2, <1>3, OpeningOwes
  <2>3. Written(p)' = ps BY <1>1, <1>2 DEF Written
  <2>4. disk'[p] = <<>> /\ held'[p] = <<>> BY <1>3, <1>4
  <2> HIDE DEF ps
  <2>5. (<<>> \o <<>>) \o ps = ps
    <3>1. <<>> \o <<>> = <<>> OBVIOUS
    <3>2. <<>> \o ps = ps BY <2>1, ConcatEmptySeq
    <3> QED BY <3>1, <3>2, Zenon
  <2> QED BY <2>1, <2>2, <2>3, <2>4, <2>5, Zenon
<1> QED BY <1>1, <1>3, <1>4, <1>5 DEF StreamInv

LEMMA WriteKeepsStreams ==
  ASSUME FilesTypeOK, PhaseInv, StreamInv, Write
  PROVE  StreamInv'
<1>1. /\ phase \in {"run", "close"} /\ phase' = phase /\ command' = command
      /\ taken' = taken /\ delivered' = delivered /\ origin' = origin
  BY DEF Write
<1>2. turn > 0 /\ Sound(command) BY <1>1, CommandSound DEF PhaseInv
<1>3. PICK p \in Streams(command) \cap Path, x \in Piece :
        /\ p = Head(todo)[1] /\ x = Head(todo)[2]
        /\ todo \in Seq(Path \X Piece) /\ todo # <<>> /\ todo' = Tail(todo)
        /\ \/ Held(command, p) /\ held' = [held EXCEPT ![p] = Append(held[p], x)]
              /\ disk' = disk
           \/ ~Held(command, p) /\ disk' = [disk EXCEPT ![p] = Append(disk[p], x)]
              /\ held' = held
  BY WriteMakes
<1>4. Streams(command) \subseteq Path BY <1>2, StreamsOnPath
<1>5. \A q \in Path : held'[q] # <<>> => q \in Streams(command)
  BY <1>1, <1>3 DEF FilesTypeOK, StreamInv
<1>6. ASSUME NEW q \in Streams(command)
      PROVE  /\ origin'[q] = [of |-> delivered, whole |-> FALSE, json |-> Array(command, q)]
             /\ Table(command, q) => disk'[q] = <<>>
             /\ \E ps \in Seq(Piece) :
                  Owes(todo', q, ps) /\ (disk'[q] \o held'[q]) \o ps = Written(q)'
  <2>1. Written(q)' = Written(q) BY <1>1 DEF Written
  <2>2. origin'[q] = [of |-> delivered, whole |-> FALSE, json |-> Array(command, q)]
    BY <1>1 DEF StreamInv
  <2>3. Table(command, q) => disk'[q] = <<>>
    <3>1. Table(command, q) => disk[q] = <<>> /\ Held(command, q)
      BY <1>1 DEF StreamInv, Table, Held
    <3> QED BY <1>3, <1>4, <3>1 DEF FilesTypeOK
  <2>4. PICK ps \in Seq(Piece) :
          Owes(todo, q, ps) /\ (disk[q] \o held[q]) \o ps = Written(q)
    BY <1>1 DEF StreamInv
  <2>5. disk[q] \in Seq(Piece) /\ held[q] \in Seq(Piece) BY <1>4 DEF FilesTypeOK
  <2>6. CASE q = p
    <3>1. ps # <<>> /\ x = Head(ps) /\ Owes(Tail(todo), q, Tail(ps))
      <4>1. todo \in Seq(Path \X Piece) /\ todo # <<>> /\ Owes(todo, q, ps)
        BY <1>3, <2>4
      <4>2. IF Head(todo)[1] = q THEN /\ ps # <<>> /\ Head(todo)[2] = Head(ps)
                                      /\ Owes(Tail(todo), q, Tail(ps))
                                 ELSE Owes(Tail(todo), q, ps)
        BY <4>1, OwesHead
      <4> QED BY <1>3, <2>6, <4>2, Zenon
    <3>2. Tail(ps) \in Seq(Piece) BY <3>1, HeadTailProperties
    <3>3. (disk'[q] \o held'[q]) \o Tail(ps) = (disk[q] \o held[q]) \o ps
      <4>1. CASE held' = [held EXCEPT ![p] = Append(held[p], x)] /\ disk' = disk
        <5>1. held'[q] = Append(held[q], Head(ps)) /\ disk'[q] = disk[q]
          BY <1>4, <2>6, <3>1, <4>1 DEF FilesTypeOK
        <5>2. (disk[q] \o Append(held[q], Head(ps))) \o Tail(ps) = (disk[q] \o held[q]) \o ps
          <6>1. ps # <<>> BY <3>1
          <6> QED BY <2>5, <6>1, MoveBehind, Zenon
        <5> QED BY <5>1, <5>2, Zenon
      <4>2. CASE /\ ~Held(command, p) /\ disk' = [disk EXCEPT ![p] = Append(disk[p], x)]
                 /\ held' = held
        <5>1. disk'[q] = Append(disk[q], Head(ps)) /\ held'[q] = <<>> /\ held[q] = <<>>
          BY <1>4, <2>6, <3>1, <4>2 DEF FilesTypeOK
        <5>2. Append(disk[q], Head(ps)) \in Seq(Piece)
          BY <2>5, <3>1, HeadTailProperties, AppendProperties
        <5>3. Append(disk[q], Head(ps)) \o <<>> = Append(disk[q], Head(ps))
          BY <5>2, ConcatEmptySeq
        <5>4. disk[q] \o <<>> = disk[q] BY <2>5, ConcatEmptySeq
        <5>5. Append(disk[q], Head(ps)) \o Tail(ps) = disk[q] \o ps
          BY <2>5, <3>1, Move
        <5> QED BY <5>1, <5>3, <5>4, <5>5, Zenon
      <4> QED BY <1>3, <4>1, <4>2
    <3>4. Owes(todo', q, Tail(ps)) BY <1>3, <3>1, Zenon
    <3> QED BY <2>1, <2>2, <2>3, <2>4, <3>2, <3>3, <3>4, Zenon
  <2>7. CASE q # p
    <3>1. Owes(Tail(todo), q, ps) BY <1>3, <2>4, <2>7, OwesHead
    <3>2. Owes(todo', q, ps) BY <1>3, <3>1, Zenon
    <3>3. disk'[q] = disk[q] /\ held'[q] = held[q] BY <1>3, <1>4, <2>7 DEF FilesTypeOK
    <3> QED BY <2>1, <2>2, <2>3, <2>4, <3>2, <3>3, Zenon
  <2> QED BY <2>6, <2>7
<1> QED BY <1>1, <1>5, <1>6 DEF StreamInv

LEMMA SpillKeepsStreams ==
  ASSUME FilesTypeOK, PhaseInv, StreamInv, NEW p \in Path, Spill(p)
  PROVE  StreamInv'
<1>1. /\ held[p] \in Seq(Piece) /\ held[p] # <<>> /\ ~Table(command, p)
      /\ Head(held[p]) \in Piece /\ Tail(held[p]) \in Seq(Piece)
      /\ disk' = [disk EXCEPT ![p] = Append(disk[p], Head(held[p]))]
      /\ held' = [held EXCEPT ![p] = Tail(held[p])]
      /\ phase \in {"run", "close"} /\ phase' = phase /\ command' = command
      /\ taken' = taken /\ delivered' = delivered /\ origin' = origin /\ todo' = todo
  BY SpillMakes
<1>2. turn > 0 /\ Sound(command) BY <1>1, CommandSound DEF PhaseInv
<1>3. Streams(command) \subseteq Path BY <1>2, StreamsOnPath
<1>4. \A q \in Path : held'[q] # <<>> => q \in Streams(command)
  <2>1. \A q \in Path : held'[q] # <<>> => held[q] # <<>> BY <1>1 DEF FilesTypeOK
  <2> QED BY <1>1, <2>1 DEF StreamInv
<1>5. ASSUME NEW q \in Streams(command)
      PROVE  /\ origin'[q] = [of |-> delivered, whole |-> FALSE, json |-> Array(command, q)]
             /\ Table(command, q) => disk'[q] = <<>>
             /\ \E ps \in Seq(Piece) :
                  Owes(todo', q, ps) /\ (disk'[q] \o held'[q]) \o ps = Written(q)'
  <2>1. Written(q)' = Written(q) BY <1>1 DEF Written
  <2>2. origin'[q] = [of |-> delivered, whole |-> FALSE, json |-> Array(command, q)]
    BY <1>1 DEF StreamInv
  <2>3. Table(command, q) => disk'[q] = <<>>
    <3>1. Table(command, q) => disk[q] = <<>> BY <1>1 DEF StreamInv
    <3> QED BY <1>1, <1>3, <3>1 DEF FilesTypeOK
  <2>4. PICK ps \in Seq(Piece) :
          Owes(todo, q, ps) /\ (disk[q] \o held[q]) \o ps = Written(q)
    BY <1>1 DEF StreamInv
  <2>5. disk[q] \in Seq(Piece) /\ held[q] \in Seq(Piece) BY <1>3 DEF FilesTypeOK
  <2>6. disk'[q] \o held'[q] = disk[q] \o held[q]
    <3>1. CASE q = p
      <4>1. disk'[q] = Append(disk[q], Head(held[q])) /\ held'[q] = Tail(held[q])
        BY <1>1, <1>3, <3>1 DEF FilesTypeOK
      <4>2. Append(disk[q], Head(held[q])) \o Tail(held[q]) = disk[q] \o held[q]
        BY <1>1, <2>5, <3>1, Move
      <4> QED BY <4>1, <4>2, Zenon
    <3>2. CASE q # p
      <4>1. disk'[q] = disk[q] /\ held'[q] = held[q] BY <1>1, <1>3, <3>2 DEF FilesTypeOK
      <4> QED BY <4>1
    <3> QED BY <3>1, <3>2
  <2>7. Owes(todo', q, ps) BY <1>1, <2>4
  <2> QED BY <2>1, <2>2, <2>3, <2>4, <2>6, <2>7, Zenon
<1> QED BY <1>1, <1>4, <1>5 DEF StreamInv

(* With nothing outstanding a stream has all that is written. *)
LEMMA NothingOwed ==
  ASSUME FilesTypeOK, PhaseInv, StreamInv, phase \in {"run", "close"}, todo = <<>>,
         NEW p \in Streams(command)
  PROVE  /\ disk[p] \in Seq(Piece) /\ held[p] \in Seq(Piece)
         /\ disk[p] \o held[p] = Written(p)
<1>1. turn > 0 /\ Sound(command) BY CommandSound DEF PhaseInv
<1>2. disk[p] \in Seq(Piece) /\ held[p] \in Seq(Piece)
  BY <1>1, StreamsOnPath DEF FilesTypeOK
<1>3. PICK ps \in Seq(Piece) :
        Owes(<<>>, p, ps) /\ (disk[p] \o held[p]) \o ps = Written(p)
  BY DEF StreamInv
<1>4. ps = <<>> BY <1>3, NothingLeft
<1>5. (disk[p] \o held[p]) \o <<>> = disk[p] \o held[p]
  <2>1. disk[p] \o held[p] \in Seq(Piece) BY <1>2, ConcatProperties
  <2> QED BY <2>1, ConcatEmptySeq
<1> QED BY <1>2, <1>3, <1>4, <1>5, Zenon

LEMMA TakeKeepsStreams ==
  ASSUME FilesTypeOK, PhaseInv, StreamInv, TakeResult
  PROVE  StreamInv'
<1>1. /\ phase = "run" /\ phase' = "run" /\ taken < Len(delivered) /\ taken' = taken + 1
      /\ todo = <<>> /\ todo' = ForResult(command, delivered[taken + 1])
      /\ command' = command /\ held' = held /\ disk' = disk
      /\ delivered' = delivered /\ origin' = origin
  BY DEF TakeResult
<1>2. turn > 0 /\ Sound(command) BY <1>1, CommandSound DEF PhaseInv
<1>3. delivered \in Seq(Result) /\ Len(delivered) \in Nat /\ taken \in Nat
  BY <1>1, LenProperties DEF FilesTypeOK
<1>4. ASSUME NEW q \in Streams(command)
      PROVE  \E ps \in Seq(Piece) :
               Owes(todo', q, ps) /\ (disk'[q] \o held'[q]) \o ps = Written(q)'
  <2> DEFINE ps == More(command, delivered, q, taken)
  <2>1. ps \in Seq(Piece) BY <1>1, <1>3, MoreType
  <2>2. Owes(todo', q, ps) BY <1>1, <1>2, <1>3, ForResultOwes
  <2>3. disk[q] \o held[q] = SoFar(command, delivered, q, taken)
    BY <1>1, NothingOwed DEF Written
  <2>4. Written(q)' = SoFar(command, delivered, q, taken + 1) BY <1>1 DEF Written
  <2>5. SoFar(command, delivered, q, taken + 1) = SoFar(command, delivered, q, taken) \o ps
    BY <1>1, <1>3, SoFarNext
  <2>6. disk'[q] = disk[q] /\ held'[q] = held[q] BY <1>1
  <2> HIDE DEF ps
  <2> QED BY <2>1, <2>2, <2>3, <2>4, <2>5, <2>6, Zenon
<1>5. \A p \in Path : held'[p] # <<>> => p \in Streams(command) BY <1>1 DEF StreamInv
<1>6. \A p \in Streams(command) :
        /\ origin'[p] = [of |-> delivered, whole |-> FALSE, json |-> Array(command, p)]
        /\ Table(command, p) => disk'[p] = <<>>
  BY <1>1 DEF StreamInv
<1> QED BY <1>1, <1>4, <1>5, <1>6 DEF StreamInv

LEMMA EndKeepsStreams ==
  ASSUME FilesTypeOK, PhaseInv, StreamInv, EndLoop
  PROVE  StreamInv'
<1>1. /\ phase = "run" /\ phase' = "close" /\ taken' = taken
      /\ todo = <<>> /\ todo' = Closing(command)
      /\ command' = command /\ held' = held /\ disk' = disk
      /\ delivered' = delivered /\ origin' = origin
  BY DEF EndLoop
<1>2. turn > 0 /\ Sound(command) BY <1>1, CommandSound DEF PhaseInv
<1>4. ASSUME NEW q \in Streams(command)
      PROVE  \E ps \in Seq(Piece) :
               Owes(todo', q, ps) /\ (disk'[q] \o held'[q]) \o ps = Written(q)'
  <2> DEFINE ps == Ending(command, q)
  <2>1. ps \in Seq(Piece) BY EndingType
  <2>2. Owes(todo', q, ps) BY <1>1, <1>2, ClosingOwes
  <2>3. disk[q] \o held[q] = SoFar(command, delivered, q, taken)
    BY <1>1, NothingOwed DEF Written
  <2>4. Written(q)' = SoFar(command, delivered, q, taken) \o ps BY <1>1 DEF Written
  <2>6. disk'[q] = disk[q] /\ held'[q] = held[q] BY <1>1
  <2> HIDE DEF ps
  <2> QED BY <2>1, <2>2, <2>3, <2>4, <2>6, Zenon
<1>5. \A p \in Path : held'[p] # <<>> => p \in Streams(command) BY <1>1 DEF StreamInv
<1>6. \A p \in Streams(command) :
        /\ origin'[p] = [of |-> delivered, whole |-> FALSE, json |-> Array(command, p)]
        /\ Table(command, p) => disk'[p] = <<>>
  BY <1>1 DEF StreamInv
<1> QED BY <1>1, <1>4, <1>5, <1>6 DEF StreamInv

LEMMA StreamStep ==
  FilesTypeOK /\ PhaseInv /\ StreamInv /\ [FilesNext]_filesVars => StreamInv'
<1> SUFFICES ASSUME FilesTypeOK, PhaseInv, StreamInv, [FilesNext]_filesVars
             PROVE  StreamInv'
  OBVIOUS
<1>1. CASE StartCommand BY <1>1 DEF StartCommand, StreamInv
<1>2. CASE ShowHelp \/ ConfigFails \/ DryRun \/ ProcessFails
  BY <1>2 DEF ShowHelp, ConfigFails, DryRun, ProcessFails, Leave, StreamInv
<1>3. CASE BeginScan \/ BeginProcess BY <1>3 DEF BeginScan, BeginProcess, StreamInv
<1>4. CASE OpenOutputs BY <1>4, OpenKeepsStreams
<1>5. CASE Write BY <1>5, WriteKeepsStreams
<1>6. CASE TakeResult BY <1>6, TakeKeepsStreams
<1>7. CASE EndLoop BY <1>7, EndKeepsStreams
<1>8. CASE Finish BY <1>8 DEF Finish, StreamInv
<1>9. ASSUME NEW p \in Path, Spill(p) PROVE StreamInv' BY <1>9, SpillKeepsStreams
<1>10. CASE Kill BY <1>10 DEF Kill, StreamInv
<1>11. CASE UNCHANGED filesVars BY <1>11 DEF filesVars, ioVars, StreamInv, Written
<1> QED BY <1>1, <1>2, <1>3, <1>4, <1>5, <1>6, <1>7, <1>8, <1>9, <1>10, <1>11
        DEF FilesNext, AllRun

-----------------------------------------------------------------------------
(* The files, the end of a command, and --process, action by action. *)

LEMMA StreamBegins ==
  ASSUME FilesTypeOK, PhaseInv, StreamInv, phase \in {"run", "close"},
         NEW p \in Streams(command)
  PROVE  Starts(disk[p], Whole(command, delivered, p))
<1>1. turn > 0 /\ Sound(command) BY CommandSound DEF PhaseInv
<1>2. disk[p] \in Seq(Piece) /\ held[p] \in Seq(Piece)
  BY <1>1, StreamsOnPath DEF FilesTypeOK
<1>3. delivered \in Seq(Result) /\ taken \in 0 .. Len(delivered) BY DEF FilesTypeOK
<1>4. Table(command, p) => disk[p] = <<>> BY DEF StreamInv
<1>5. PICK ps \in Seq(Piece) : (disk[p] \o held[p]) \o ps = Written(p) BY DEF StreamInv
<1>6. \/ (disk[p] \o held[p]) \o ps = SoFar(command, delivered, p, taken)
      \/ /\ taken = Len(delivered)
         /\ (disk[p] \o held[p]) \o ps =
              SoFar(command, delivered, p, taken) \o Ending(command, p)
  BY <1>5 DEF Written, PhaseInv
<1> QED BY <1>1, <1>2, <1>3, <1>4, <1>6, StreamStarts

(* The same of the next state. *)
LEMMA StreamBeginsNext ==
  ASSUME FilesTypeOK', PhaseInv', StreamInv', phase' \in {"run", "close"},
         Sound(command'), NEW p \in Streams(command')
  PROVE  Starts(disk'[p], Whole(command', delivered', p))
<1>1. disk'[p] \in Seq(Piece) /\ held'[p] \in Seq(Piece)
  BY StreamsOnPath DEF FilesTypeOK
<1>2. delivered' \in Seq(Result) /\ taken' \in 0 .. Len(delivered') BY DEF FilesTypeOK
<1>3. Table(command', p) => disk'[p] = <<>> BY DEF StreamInv
<1>4. PICK ps \in Seq(Piece) : (disk'[p] \o held'[p]) \o ps = Written(p)'
  BY DEF StreamInv
<1>5. \/ (disk'[p] \o held'[p]) \o ps = SoFar(command', delivered', p, taken')
      \/ /\ taken' = Len(delivered')
         /\ (disk'[p] \o held'[p]) \o ps =
              SoFar(command', delivered', p, taken') \o Ending(command', p)
  BY <1>4 DEF Written, PhaseInv
<1> QED BY <1>1, <1>2, <1>3, <1>5, StreamStarts

(* When a command ends every stream has its whole document. *)
LEMMA FinishIsWhole ==
  ASSUME FilesTypeOK, PhaseInv, StreamInv, Finish
  PROVE  \A p \in Streams(command) : disk'[p] = Whole(command, delivered, p)
<1>1. /\ phase = "close" /\ todo = <<>> /\ Sound(command)
      /\ \A p \in Streams(command) : disk'[p] = disk[p] \o Title(p) \o held[p]
  BY FinishMakes
<1> SUFFICES ASSUME NEW p \in Streams(command)
             PROVE  disk'[p] = Whole(command, delivered, p)
  OBVIOUS
<1>2. /\ disk[p] \in Seq(Piece) /\ held[p] \in Seq(Piece)
      /\ disk[p] \o held[p] = Written(p)
  BY <1>1, NothingOwed
<1>3. /\ taken = Len(delivered) /\ delivered \in Seq(Result)
      /\ Written(p) = SoFar(command, delivered, p, taken) \o Ending(command, p)
  BY <1>1 DEF PhaseInv, FilesTypeOK, Written
<1>4. CASE Table(command, p)
  <2>1. Title(p) = <<"header">> BY <1>4 DEF Title, Table
  <2>2. disk[p] = <<>> BY <1>1, <1>4 DEF StreamInv
  <2>3. held[p] = delivered
    <3>1. <<>> \o held[p] = held[p] BY <1>2, ConcatEmptySeq
    <3>2. SoFar(command, delivered, p, taken) = delivered
      <4>1. p = DataPath(command) /\ ~IsJson(command) /\ ShowsData(command)
        BY <1>4 DEF Table, Rows, ShowsData
      <4>2. p \notin {JsonPath(command), TextPath(command), ReportPath(command)}
        BY <1>1, <4>1, StreamIs
      <4>3. SubSeq(delivered, 1, taken) = delivered BY <1>3, SubSeqFull
      <4> QED BY <4>1, <4>2, <4>3 DEF SoFar, Array
    <3>3. Ending(command, p) = <<>>
      <4>1. ~Array(command, p) BY <1>1, <1>4, StreamIs DEF Table, Rows, Array
      <4> QED BY <4>1 DEF Ending
    <3>4. delivered \o <<>> = delivered BY <1>3, ConcatEmptySeq
    <3> QED BY <1>2, <1>3, <2>2, <3>1, <3>2, <3>3, <3>4, Zenon
  <2>4. <<>> \o <<"header">> = <<"header">>
    <3>1. <<"header">> \in Seq(Piece) BY DEF Piece
    <3> QED BY <3>1, ConcatEmptySeq
  <2>5. disk'[p] = <<"header">> \o delivered BY <1>1, <2>1, <2>2, <2>3, <2>4, Zenon
  <2> QED BY <1>4, <2>5 DEF Whole
<1>5. CASE ~Table(command, p)
  <2>1. Title(p) = <<>> BY <1>5 DEF Title, Table
  <2>2. disk[p] \o <<>> = disk[p] BY <1>2, ConcatEmptySeq
  <2>3. disk'[p] = disk[p] \o held[p] BY <1>1, <2>1, <2>2, Zenon
  <2> QED BY <1>2, <1>3, <1>5, <2>3, Zenon DEF Whole
<1> QED BY <1>4, <1>5

LEMMA FileStep ==
  /\ FilesTypeOK /\ PhaseInv /\ StreamInv /\ FileInv /\ [FilesNext]_filesVars
  /\ FilesTypeOK' /\ PhaseInv' /\ StreamInv'
  => FileInv'
<1> SUFFICES ASSUME FilesTypeOK, PhaseInv, StreamInv, FileInv, [FilesNext]_filesVars,
                    FilesTypeOK', PhaseInv', StreamInv'
             PROVE  FileInv'
  OBVIOUS
<1>1. CASE disk' = disk /\ origin' = origin BY <1>1 DEF FileInv
<1>2. CASE StartCommand
  <2>1. PICK c \in Commands[turn'] :
          /\ disk' = [disk EXCEPT ![c.stdout] = <<>>]
          /\ origin' = [origin EXCEPT ![c.stdout] = NoOrigin]
    BY <1>2 DEF StartCommand
  <2>2. FileIs(NoOrigin, <<>>) BY NoOriginType, EmptyFile
  <2> QED BY <2>1, <2>2 DEF FileInv, FilesTypeOK
<1>3. CASE OpenOutputs
  <2>1. /\ origin' \in [Path -> Origin]
        /\ \A p \in Path : \/ disk'[p] = <<>> /\ origin'[p].whole = FALSE
                           \/ disk'[p] = disk[p] /\ origin'[p] = origin[p]
    BY <1>3, OpenMakes
  <2> SUFFICES ASSUME NEW p \in Path PROVE FileIs(origin'[p], disk'[p])
    BY DEF FileInv
  <2>2. CASE disk'[p] = <<>> /\ origin'[p].whole = FALSE
    <3>1. origin'[p] \in Origin BY <2>1
    <3>2. FileIs(origin'[p], <<>>) BY <2>2, <3>1, EmptyFile
    <3> QED BY <2>2, <3>2
  <2>3. CASE disk'[p] = disk[p] /\ origin'[p] = origin[p] BY <2>3 DEF FileInv
  <2> QED BY <2>1, <2>2, <2>3
<1>4. CASE /\ phase \in {"run", "close"} /\ phase' = phase /\ command' = command
           /\ delivered' = delivered /\ origin' = origin
           /\ \A p \in Path \ Streams(command) : disk'[p] = disk[p]
  <2>1. turn > 0 /\ Sound(command) BY <1>4, CommandSound DEF PhaseInv
  <2> SUFFICES ASSUME NEW p \in Path PROVE FileIs(origin'[p], disk'[p])
    BY DEF FileInv
  <2>2. CASE p \in Streams(command)
    <3>1. Starts(disk'[p], Whole(command, delivered, p))
      BY <1>4, <2>1, <2>2, StreamBeginsNext
    <3>2. disk'[p] \in Seq(Piece) /\ origin'[p] \in Origin /\ delivered \in Seq(Result)
      BY DEF FilesTypeOK
    <3>3. origin'[p] = [of |-> delivered, whole |-> FALSE, json |-> Array(command, p)]
      BY <1>4, <2>2 DEF StreamInv
    <3>4. /\ origin'[p].of = delivered /\ origin'[p].json = Array(command, p)
          /\ origin'[p].whole = FALSE
      BY <3>3
    <3> QED BY <2>1, <2>2, <3>1, <3>2, <3>4, StreamFile
  <2>3. CASE p \notin Streams(command) BY <1>4, <2>3 DEF FileInv
  <2> QED BY <2>2, <2>3
<1>5. CASE Write
  <2>1. PICK p \in Streams(command) \cap Path, x \in Piece :
          \/ held' = [held EXCEPT ![p] = Append(held[p], x)] /\ disk' = disk
          \/ disk' = [disk EXCEPT ![p] = Append(disk[p], x)] /\ held' = held
    BY <1>5, WriteMakes
  <2>2. \A q \in Path \ Streams(command) : disk'[q] = disk[q] BY <2>1 DEF FilesTypeOK
  <2> QED BY <1>4, <1>5, <2>2 DEF Write
<1>6. ASSUME NEW p \in Path, Spill(p) PROVE FileInv'
  <2>1. /\ held[p] # <<>> /\ disk' = [disk EXCEPT ![p] = Append(disk[p], Head(held[p]))]
        /\ phase \in {"run", "close"} /\ phase' = phase /\ command' = command
        /\ delivered' = delivered /\ origin' = origin
    BY <1>6, SpillMakes
  <2>2. p \in Streams(command) BY <2>1 DEF StreamInv
  <2>3. \A q \in Path \ Streams(command) : disk'[q] = disk[q] BY <2>1, <2>2 DEF FilesTypeOK
  <2> QED BY <1>4, <2>1, <2>3
<1>7. CASE Finish
  <2>1. /\ Sound(command) /\ origin' \in [Path -> Origin]
        /\ \A p \in Streams(command) :
             /\ disk'[p] = disk[p] \o Title(p) \o held[p]
             /\ origin'[p] = [origin[p] EXCEPT !.whole = TRUE]
        /\ \A p \in Path \ Streams(command) : disk'[p] = disk[p] /\ origin'[p] = origin[p]
    BY <1>7, FinishMakes
  <2>2. \A p \in Streams(command) : disk'[p] = Whole(command, delivered, p)
    BY <1>7, FinishIsWhole
  <2> SUFFICES ASSUME NEW p \in Path PROVE FileIs(origin'[p], disk'[p])
    BY DEF FileInv
  <2>3. CASE p \in Streams(command)
    <3>1. disk'[p] = Whole(command, delivered, p) BY <2>2, <2>3
    <3>2. disk'[p] \in Seq(Piece) /\ origin'[p] \in Origin /\ delivered \in Seq(Result)
          /\ origin[p] \in Origin
      BY <2>1 DEF FilesTypeOK
    <3>3. origin[p] = [of |-> delivered, whole |-> FALSE, json |-> Array(command, p)]
      BY <1>7, <2>3 DEF StreamInv, Finish
    <3>4. origin'[p] = [origin[p] EXCEPT !.whole = TRUE] BY <2>1, <2>3
    <3>5. origin'[p].of = delivered /\ origin'[p].json = Array(command, p)
      BY <3>2, <3>3, <3>4 DEF Origin
    <3>6. Starts(disk'[p], Whole(command, delivered, p))
      BY <3>1, <3>2, LenProperties DEF Starts
    <3> QED BY <2>1, <2>3, <3>1, <3>2, <3>5, <3>6, StreamFile
  <2>4. CASE p \notin Streams(command) BY <2>1, <2>4 DEF FileInv
  <2> QED BY <2>3, <2>4
<1>8. CASE \/ ShowHelp \/ ConfigFails \/ DryRun \/ ProcessFails \/ BeginScan \/ BeginProcess
           \/ TakeResult \/ EndLoop \/ Kill \/ UNCHANGED filesVars
  BY <1>1, <1>8 DEF ShowHelp, ConfigFails, DryRun, ProcessFails, Leave, BeginScan,
                    BeginProcess, TakeResult, EndLoop, Kill, filesVars, ioVars
<1> QED BY <1>2, <1>3, <1>5, <1>6, <1>7, <1>8 DEF FilesNext, AllRun

LEMMA DoneStep ==
  /\ FilesTypeOK /\ PhaseInv /\ StreamInv /\ DoneInv /\ [FilesNext]_filesVars
  => DoneInv'
<1> SUFFICES ASSUME FilesTypeOK, PhaseInv, StreamInv, DoneInv, [FilesNext]_filesVars
             PROVE  DoneInv'
  OBVIOUS
<1>1. CASE outcome' # "done" BY <1>1 DEF DoneInv
<1>2. CASE Finish
  <2>1. turn' = turn /\ command' = command /\ delivered' = delivered BY <1>2 DEF Finish
  <2>2. \A p \in Streams(command) : disk'[p] = Whole(command, delivered, p)
    BY <1>2, FinishIsWhole
  <2> QED BY <2>1, <2>2 DEF DoneInv
<1>3. CASE UNCHANGED filesVars BY <1>3 DEF DoneInv, filesVars, ioVars
<1>4. CASE phase # "ready" /\ outcome' = outcome BY <1>1, <1>4 DEF PhaseInv
<1>5. CASE StartCommand BY <1>1, <1>5 DEF StartCommand
<1>6. CASE ShowHelp \/ ConfigFails \/ DryRun \/ ProcessFails \/ Kill
  BY <1>1, <1>6 DEF ShowHelp, ConfigFails, DryRun, ProcessFails, Kill, Leave
<1>7. CASE \/ BeginScan \/ BeginProcess \/ OpenOutputs \/ Write \/ TakeResult \/ EndLoop
           \/ \E p \in Path : Spill(p)
  BY <1>4, <1>7 DEF BeginScan, BeginProcess, OpenOutputs, Write, TakeResult, EndLoop, Spill,
                    Proceeds
<1> QED BY <1>2, <1>3, <1>5, <1>6, <1>7 DEF FilesNext, AllRun

(* --process, from the step that opens its file to the end of the command. *)
LEMMA ProcessStep ==
  /\ FilesTypeOK /\ PhaseInv /\ FileInv /\ ProcessReadsWhole /\ [FilesNext]_filesVars
  => ProcessReadsWhole'
<1> SUFFICES ASSUME FilesTypeOK, PhaseInv, FileInv, ProcessReadsWhole,
                    [FilesNext]_filesVars
             PROVE  ProcessReadsWhole'
  OBVIOUS
<1>1. CASE StartCommand
  <2>1. phase' = "start" BY <1>1 DEF StartCommand
  <2> QED BY <2>1 DEF ProcessReadsWhole
<1>2. CASE ShowHelp \/ DryRun \/ Kill \/ Finish
  <2>1. phase' = "ready" /\ outcome' # "exit-1"
    BY <1>2 DEF ShowHelp, DryRun, Kill, Finish, Leave
  <2> QED BY <2>1 DEF ProcessReadsWhole
<1>3. CASE ConfigFails
  <2>1. phase = "start" /\ phase' = "ready" /\ source' = source
    BY <1>3 DEF ConfigFails, Leave
  <2> QED BY <2>1 DEF ProcessReadsWhole, PhaseInv
<1>4. CASE ProcessFails
  <2> DEFINE o == origin[command.process]
             d == disk[command.process]
  <2>1. /\ phase = "start" /\ phase' = "ready" /\ command' = command /\ source' = o
        /\ Processes(command) /\ ~Unmarshals(command.process) /\ turn > 0
    BY <1>4 DEF ProcessFails, Proceeds, Leave, PhaseInv
  <2>2. command.process \in Path /\ o \in Origin /\ d \in Seq(Piece) BY <2>1, ProcessPath
  <2>3. FileIs(o, d) BY <2>2 DEF FileInv
  <2>4. ~(Len(d) >= 2 /\ d = JsonOf(Elements(d))) \/ command.process \in Zst
    BY <2>1 DEF Unmarshals
  <2> HIDE DEF o, d
  <2>5. ~o.whole \/ ~o.json \/ command.process \in Zst
    BY <2>2, <2>3, <2>4, WholeFileGives
  <2> QED BY <2>1, <2>5 DEF ProcessReadsWhole
<1>5. CASE BeginScan
  <2>1. command' = command /\ ~Processes(command) BY <1>5 DEF BeginScan
  <2> QED BY <2>1 DEF ProcessReadsWhole, Processes
<1>6. CASE BeginProcess
  <2>1. /\ phase = "start" /\ phase' = "open" /\ source' = origin[command.process]
        /\ Processes(command) /\ Unmarshals(command.process) /\ turn > 0
        /\ delivered' = Elements(disk[command.process])
    BY <1>6 DEF BeginProcess, Proceeds, PhaseInv
  <2>2. source'.json /\ delivered' = source'.of BY <2>1, ProcessGives
  <2> QED BY <2>1, <2>2 DEF ProcessReadsWhole
<1>7. CASE /\ phase \in {"open", "run", "close"} /\ phase' \in {"open", "run", "close"}
           /\ turn' = turn /\ command' = command
           /\ delivered' = delivered /\ source' = source
  BY <1>7 DEF ProcessReadsWhole, Processes
<1>8. CASE \/ OpenOutputs \/ Write \/ TakeResult \/ EndLoop \/ \E p \in Path : Spill(p)
  BY <1>7, <1>8 DEF OpenOutputs, Write, TakeResult, EndLoop, Spill
<1>9. CASE UNCHANGED filesVars
  BY <1>9 DEF ProcessReadsWhole, Processes, filesVars, ioVars
<1> QED BY <1>1, <1>2, <1>3, <1>4, <1>5, <1>6, <1>8, <1>9 DEF FilesNext, AllRun

-----------------------------------------------------------------------------
FilesInv == PhaseInv /\ StreamInv /\ FileInv /\ DoneInv

LEMMA FilesStart == FilesInit => FilesTypeOK /\ FilesInv /\ ProcessReadsWhole
<1> SUFFICES ASSUME FilesInit PROVE FilesTypeOK /\ FilesInv /\ ProcessReadsWhole
  OBVIOUS
<1>1. /\ turn = 0 /\ phase = "ready" /\ outcome = "none" /\ delivered = <<>> /\ taken = 0
      /\ todo = <<>> /\ held = Nowhere /\ disk = Nowhere /\ source = NoOrigin /\ kills = 0
      /\ origin = [p \in Path |-> NoOrigin]
  BY DEF FilesInit
<1>2. Len(Commands) \in Nat BY CommandAssumption, LenProperties
<1>3. FilesTypeOK BY <1>1, <1>2, NowhereType, NoOriginType, PathAssumption DEF FilesTypeOK
<1>4. PhaseInv /\ StreamInv /\ DoneInv BY <1>1 DEF PhaseInv, StreamInv, DoneInv
<1>5. FileIs(NoOrigin, <<>>) BY NoOriginType, EmptyFile
<1>6. FileInv BY <1>1, <1>5, NowhereType DEF FileInv
<1>7. ProcessReadsWhole BY <1>1 DEF ProcessReadsWhole
<1> QED BY <1>3, <1>4, <1>6, <1>7 DEF FilesInv

LEMMA FilesHold == FilesSpec => [](FilesTypeOK /\ FilesInv /\ ProcessReadsWhole)
<1>1. /\ FilesTypeOK /\ FilesInv /\ ProcessReadsWhole /\ [FilesNext]_filesVars
      => (FilesTypeOK /\ FilesInv /\ ProcessReadsWhole)'
  <2> SUFFICES ASSUME FilesTypeOK, FilesInv, ProcessReadsWhole, [FilesNext]_filesVars
               PROVE  (FilesTypeOK /\ FilesInv /\ ProcessReadsWhole)'
    OBVIOUS
  <2>1. PhaseInv /\ StreamInv /\ FileInv /\ DoneInv BY DEF FilesInv
  <2>2. FilesTypeOK' /\ PhaseInv' BY <2>1, TypeStep
  <2>3. StreamInv' BY <2>1, <2>2, StreamStep
  <2>4. FileInv' BY <2>1, <2>2, <2>3, FileStep
  <2>5. DoneInv' BY <2>1, DoneStep
  <2>6. ProcessReadsWhole' BY <2>1, ProcessStep
  <2> QED BY <2>2, <2>3, <2>4, <2>5, <2>6 DEF FilesInv
<1> QED BY <1>1, FilesStart, PTL DEF FilesSpec

-----------------------------------------------------------------------------
(* Whole is the Document of the property.                                  *)
LEMMA DocumentIs ==
  ASSUME FilesTypeOK, Sound(command), NEW p \in Streams(command)
  PROVE  Document(command, p) = Whole(command, delivered, p)
<1> DEFINE c == command
           rs == delivered
           w == Whole(command, delivered, p)
<1>1. rs \in Seq(Result) /\ rs \in Seq(Piece) BY ResultIsPiece DEF FilesTypeOK
<1>2. /\ p # NoWord
      /\ \/ p = JsonPath(c) /\ p \notin {DataPath(c), ReportPath(c), TextPath(c)}
         \/ p = TextPath(c) /\ p \notin {DataPath(c), ReportPath(c), JsonPath(c)}
         \/ p = ReportPath(c) /\ p \notin {DataPath(c), JsonPath(c), TextPath(c)}
         \/ p = DataPath(c) /\ p \notin {ReportPath(c), JsonPath(c), TextPath(c)}
  BY StreamIs
<1>3. SubSeq(rs, 1, Len(rs)) = rs BY <1>1, SubSeqFull
<1>4. rs \o <<>> = rs /\ <<>> \o <<>> = <<>> BY <1>1, ConcatEmptySeq
<1>5. (<<"title">> \o rs) \o <<>> = <<"title">> \o rs
  <2>1. "title" \in Piece BY DEF Piece
  <2>2. <<"title">> \o rs \in Seq(Piece) BY <1>1, <2>1, ConcatProperties
  <2> QED BY <2>2, ConcatEmptySeq
<1>6. CASE Array(c, p)
  <2>1. w = JsonOf(rs) BY <1>1, <1>6, WholeArray
  <2>2. p = JsonPath(c) \/ (p = DataPath(c) /\ IsJson(c)) BY <1>6 DEF Array
  <2> HIDE DEF w
  <2>3. Document(c, p) = JsonOf(rs) BY <1>2, <2>2 DEF Document
  <2> QED BY <2>1, <2>3 DEF w
<1>7. CASE p = TextPath(c)
  <2>1. ~Array(c, p) /\ ~Table(c, p) BY <1>2, <1>7 DEF Array, Table, Rows
  <2>2. w = SubSeq(rs, 1, Len(rs)) \o <<>> BY <1>7, <2>1 DEF Whole, SoFar, Ending
  <2>3. Document(c, p) = rs BY <1>2, <1>7 DEF Document
  <2> QED BY <1>3, <1>4, <2>2, <2>3, Zenon
<1>8. CASE p = ReportPath(c)
  <2>1. ~Array(c, p) /\ ~Table(c, p) /\ p # TextPath(c)
    BY <1>2, <1>8 DEF Array, Table, Rows
  <2>2. w = (<<"title">> \o SubSeq(rs, 1, Len(rs))) \o <<>>
    BY <1>8, <2>1 DEF Whole, SoFar, Ending
  <2>3. Document(c, p) = <<"title">> \o rs BY <1>2, <1>8 DEF Document
  <2> QED BY <1>3, <1>5, <2>2, <2>3, Zenon
<1>9. CASE p = DataPath(c) /\ ~IsJson(c)
  <2>1. ~Array(c, p) /\ p \notin {TextPath(c), ReportPath(c), JsonPath(c)}
    BY <1>2, <1>9 DEF Array
  <2>2. CASE c.format = "table"
    <3>1. Table(c, p) BY <1>9, <2>2 DEF Table, Rows
    <3>2. w = <<"header">> \o rs BY <3>1 DEF Whole
    <3>3. Document(c, p) = <<"header">> \o rs BY <1>9, <2>1, <2>2 DEF Document
    <3> QED BY <3>2, <3>3
  <2>3. CASE c.format # "table"
    <3>1. ~Table(c, p) BY <2>3 DEF Table
    <3>2. w = (IF ShowsData(c) THEN SubSeq(rs, 1, Len(rs)) ELSE <<>>) \o <<>>
      BY <1>9, <2>1, <3>1 DEF Whole, SoFar, Ending
    <3>3. Document(c, p) = IF ShowsData(c) THEN rs ELSE <<>>
      BY <1>9, <2>1, <2>3 DEF Document
    <3>4. CASE ShowsData(c)
      <4>1. w = SubSeq(rs, 1, Len(rs)) \o <<>> BY <3>2, <3>4
      <4>2. Document(c, p) = rs BY <3>3, <3>4
      <4> QED BY <1>3, <1>4, <4>1, <4>2, Zenon
    <3>5. CASE ~ShowsData(c)
      <4>1. w = <<>> \o <<>> BY <3>2, <3>5
      <4>2. Document(c, p) = <<>> BY <3>3, <3>5
      <4> QED BY <1>4, <4>1, <4>2, Zenon
    <3> QED BY <3>4, <3>5
  <2> QED BY <2>2, <2>3
<1> QED BY <1>2, <1>6, <1>7, <1>8, <1>9 DEF Array

LEMMA StreamsAreWhole == FilesTypeOK /\ FilesInv => StreamsWhole
<1> SUFFICES ASSUME FilesTypeOK, FilesInv, turn > 0, NEW p \in Streams(command)
             PROVE  /\ phase \in {"run", "close"} =>
                         IsPrefix(disk[p], Document(command, p))
                    /\ outcome = "done" => disk[p] = Document(command, p)
  BY DEF StreamsWhole
<1>1. Sound(command) /\ p \in Path BY CommandSound, StreamsOnPath
<1>2. Document(command, p) = Whole(command, delivered, p) BY <1>1, DocumentIs
<1>3. /\ disk[p] \in Seq(Piece) /\ delivered \in Seq(Result)
      /\ Whole(command, delivered, p) \in Seq(Piece)
  BY <1>1, WholeType DEF FilesTypeOK
<1>4. ASSUME phase \in {"run", "close"}
      PROVE  IsPrefix(disk[p], Document(command, p))
  <2>1. Starts(disk[p], Whole(command, delivered, p))
    BY <1>4, StreamBegins DEF FilesInv
  <2>2. IsPrefix(disk[p], Whole(command, delivered, p)) BY <1>3, <2>1, StartsIsPrefix
  <2> QED BY <1>2, <2>2, Zenon
<1>5. outcome = "done" => disk[p] = Document(command, p) BY <1>2 DEF FilesInv, DoneInv
<1> QED BY <1>4, <1>5

(* The last element moved to the front is still there as often. *)
LEMMA TimesMoved ==
  ASSUME NEW S, NEW s \in Seq(S), NEW t \in Seq(S), Len(s) > 0, Len(t) = Len(s),
         t[1] = s[Len(s)], \A k \in 2 .. Len(s) : t[k] = s[k - 1], NEW x
  PROVE  Times(x, t) = Times(x, s)
<1> DEFINE n == Len(s)
           A == {k \in DOMAIN t : t[k] = x}
           B == {k \in DOMAIN s : s[k] = x}
           from(k) == IF k = 1 THEN n ELSE k - 1
           f == [k \in A |-> from(k)]
<1>1. n \in Nat /\ DOMAIN s = 1 .. n /\ DOMAIN t = 1 .. n BY LenProperties
<1>2. \A k \in 1 .. n : t[k] = s[from(k)] /\ from(k) \in 1 .. n BY <1>1
<1>3. \A k, j \in 1 .. n : from(k) = from(j) => k = j BY <1>1
<1>4. \A j \in 1 .. n : \E k \in 1 .. n : from(k) = j
  <2> TAKE j \in 1 .. n
  <2>1. CASE j = n
    <3>1. 1 \in 1 .. n /\ from(1) = j BY <1>1, <2>1
    <3> QED BY <3>1
  <2>2. CASE j # n
    <3>1. j + 1 \in 1 .. n /\ j + 1 # 1 /\ (j + 1) - 1 = j
      <4> HIDE DEF n
      <4> QED BY <1>1, <2>2
    <3>2. from(j + 1) = j BY <3>1
    <3> QED BY <3>1, <3>2
  <2> QED BY <2>1, <2>2
<1> HIDE DEF n, from
<1>5. f \in [A -> B] BY <1>1, <1>2
<1>6. \A k, j \in A : f[k] = f[j] => k = j BY <1>1, <1>3
<1>7. \A j \in B : \E k \in A : f[k] = j
  <2> TAKE j \in B
  <2>1. PICK k \in 1 .. n : from(k) = j BY <1>1, <1>4
  <2>2. k \in A BY <1>1, <1>2, <2>1
  <2> QED BY <2>1, <2>2
<1> HIDE DEF A, B, f
<1>8. f \in Bijection(A, B)
  BY <1>5, <1>6, <1>7 DEF Bijection, Injection, Surjection, IsInjective
<1>9. ExistsBijection(A, B) BY <1>8 DEF ExistsBijection
<1>10. IsFiniteSet(A)
  <2>1. IsFiniteSet(1 .. n) BY <1>1, FS_Interval
  <2>2. A \in SUBSET (1 .. n) BY <1>1 DEF A
  <2> QED BY <2>1, <2>2, FS_Subset
<1>11. Cardinality(B) = Cardinality(A) BY <1>9, <1>10, FS_Bijection
<1> QED BY <1>11 DEF Times, A, B

LEMMA ArgumentsStep == FilesTypeOK /\ PhaseInv => ArgumentsUsedOnce
<1> DEFINE c == command
           a == command.args
<1> SUFFICES ASSUME FilesTypeOK, PhaseInv, phase = "open", ~Processes(c), ~c.stdin, ~c.list
             PROVE  /\ \A x : Times(x, FromArguments(c)) = Times(x, a)
                    /\ Guesses(c) /\ Head(Patterns(c)) \in Existing => Last(a) \in Existing
  BY DEF ArgumentsUsedOnce
<1>1. /\ Sound(c) /\ ~GivesHelp(c) BY CommandSound DEF PhaseInv
<1>2. a \in Seq(STRING) BY <1>1 DEF Sound, Command
<1>3. Len(a) \in Nat BY <1>2, LenProperties
<1>4. CASE ~Guesses(c)
  <2>1. FromArguments(c) = a BY <1>4 DEF FromArguments, TargetArgs, PatternIsLast
  <2> QED BY <1>4, <2>1
<1>5. CASE Guesses(c)
  <2>1. a # <<>> /\ c.pattern = NoWord /\ ~c.all /\ ~c.tags
    BY <1>1, <1>5 DEF Guesses, GivesHelp
  <2>2. Len(a) > 0 /\ 1 \in DOMAIN a /\ Head(a) = a[1] /\ Last(a) = a[Len(a)]
    BY <1>2, <1>3, <2>1, LenProperties, EmptySeq DEF Last
  <2>3. Len(a) = 1 \/ Len(a) >= 2
    <3>1. \A n \in Nat : n > 0 => n = 1 \/ n >= 2 OBVIOUS
    <3> QED BY <1>3, <2>2, <3>1, Zenon
  <2>4. FromArguments(c) = Patterns(c) \o TargetArgs(c) BY <1>5 DEF FromArguments
  <2>5. CASE PatternIsLast(c)
    <3>1. Patterns(c) = <<Last(a)>> /\ TargetArgs(c) = Front(a)
      <4>1. Patterns(c) = <<Last(a)>> BY <2>1, <2>5 DEF Patterns
      <4>2. TargetArgs(c) = Front(a) BY <1>5, <2>5 DEF TargetArgs
      <4> QED BY <4>1, <4>2
    <3>2. Len(a) >= 2 BY <2>5 DEF PatternIsLast
    <3>3. /\ Front(a) \in Seq(STRING) /\ Len(Front(a)) = Len(a) - 1
          /\ \A i \in 1 .. Len(a) - 1 : Front(a)[i] = a[i]
      <4>1. \A i \in 1 .. Len(a) - 1 : a[i] \in STRING BY <1>2, <1>3, ElementOfSeq
      <4>2. /\ SubSeq(a, 1, Len(a) - 1) \in Seq(STRING)
            /\ Len(SubSeq(a, 1, Len(a) - 1)) =
                 IF 1 <= Len(a) - 1 THEN Len(a) - 1 - 1 + 1 ELSE 0
            /\ \A i \in 1 .. Len(a) - 1 - 1 + 1 : SubSeq(a, 1, Len(a) - 1)[i] = a[1 + i - 1]
        BY <1>2, <1>3, <4>1, SubSeqProperties, SMT
      <4> QED BY <1>3, <3>2, <4>2 DEF Front
    <3>4. Last(a) \in STRING BY <1>2, <1>3, <2>2, ElementOfSeq
    <3> DEFINE t == <<Last(a)>> \o Front(a)
    <3>5. <<Last(a)>> \in Seq(STRING) /\ Len(<<Last(a)>>) = 1 /\ <<Last(a)>>[1] = Last(a)
      BY <3>4
    <3>6. /\ t \in Seq(STRING) /\ Len(t) = 1 + Len(Front(a))
          /\ \A i \in 1 .. 1 + Len(Front(a)) :
               t[i] = IF i <= 1 THEN <<Last(a)>>[i] ELSE Front(a)[i - 1]
      BY <3>3, <3>5, ConcatProperties
    <3> HIDE DEF t
    <3>7. /\ Len(t) = Len(a) /\ t[1] = a[Len(a)]
          /\ \A k \in 2 .. Len(a) : t[k] = a[k - 1]
      <4>1. Len(t) = Len(a) BY <1>3, <3>3, <3>6
      <4>2. t[1] = a[Len(a)] BY <1>3, <2>2, <3>2, <3>3, <3>5, <3>6
      <4>3. \A k \in 2 .. Len(a) : t[k] = a[k - 1]
        <5> TAKE k \in 2 .. Len(a)
        <5>1. /\ k \in 1 .. 1 + Len(Front(a)) /\ ~(k <= 1)
              /\ k - 1 \in 1 .. Len(a) - 1
          BY <1>3, <3>3
        <5> QED BY <3>3, <3>6, <5>1
      <4> QED BY <4>1, <4>2, <4>3
    <3>8. \A x : Times(x, t) = Times(x, a) BY <1>2, <2>2, <3>6, <3>7, TimesMoved
    <3>9. Head(Patterns(c)) \notin Existing
      <4>1. Head(<<Last(a)>>) = Last(a) OBVIOUS
      <4> QED BY <2>5, <3>1, <4>1 DEF PatternIsLast
    <3> QED BY <2>4, <3>1, <3>8, <3>9 DEF t
  <2>6. CASE ~PatternIsLast(c)
    <3>1. Patterns(c) = <<Head(a)>> BY <2>1, <2>6 DEF Patterns
    <3>2. FromArguments(c) = a
      <4>1. CASE Len(a) >= 2
        <5>1. TargetArgs(c) = Tail(a) BY <1>5, <2>6, <4>1 DEF TargetArgs
        <5> QED BY <1>2, <2>1, <2>4, <3>1, <5>1, HeadTailProperties
      <4>2. CASE Len(a) = 1
        <5>1. TargetArgs(c) = <<>> BY <1>5, <2>6, <4>2 DEF TargetArgs
        <5>2. a = <<Head(a)>> BY <1>2, <2>2, <4>2
        <5>3. <<Head(a)>> \o <<>> = <<Head(a)>> BY <1>2, <5>2, ConcatEmptySeq
        <5> QED BY <2>4, <3>1, <5>1, <5>2, <5>3, Zenon
      <4> QED BY <2>3, <4>1, <4>2
    <3>3. Head(a) \in Existing => Last(a) \in Existing
      <4>1. CASE Len(a) >= 2 BY <1>5, <2>6, <4>1 DEF PatternIsLast
      <4>2. CASE Len(a) = 1 BY <2>2, <4>2
      <4> QED BY <2>3, <4>1, <4>2
    <3>4. Head(<<Head(a)>>) = Head(a) OBVIOUS
    <3> QED BY <3>1, <3>2, <3>3, <3>4
  <2> QED BY <2>5, <2>6
<1> QED BY <1>4, <1>5

-----------------------------------------------------------------------------
(* The types of the session hold, for any findings, files and command      *)
(* lines: each outstanding write of outputResults goes to a stream of its  *)
(* command, and only the buffered streams of a command that has opened     *)
(* them hold anything back.                                                *)
THEOREM FilesTypeCorrect == FilesSpec => []FilesTypeOK
BY FilesHold, PTL

(* When the targets come from the arguments, root.go loses none and uses   *)
(* none twice in telling the pattern from the targets, and it takes the    *)
(* name of an existing file for the pattern only when the last argument    *)
(* exists too.                                                             *)
THEOREM ArgumentsHold == FilesSpec => []ArgumentsUsedOnce
<1>1. FilesTypeOK /\ FilesInv => ArgumentsUsedOnce BY ArgumentsStep DEF FilesInv
<1> QED BY <1>1, FilesHold, PTL

(* Whatever a csv.Writer, a table or zstd holds back and whenever the      *)
(* process is killed, a file of outputResults is a beginning of its whole  *)
(* document, and it is the whole once the command has ended.               *)
THEOREM StreamsHold == FilesSpec => []StreamsWhole
BY StreamsAreWhole, FilesHold, PTL

(* ProcessResults takes from a file exactly the results of the command     *)
(* that wrote it, in their order, and refuses a whole JSON file only when  *)
(* it is compressed.                                                       *)
THEOREM ProcessHolds == FilesSpec => []ProcessReadsWhole
BY FilesHold, PTL
=============================================================================
