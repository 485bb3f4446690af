----------------------------- MODULE ResultPool -----------------------------
(***************************************************************************)
(* The life of a *models.Result: taken from resultPool by a worker         *)
(* (scanner.go), filled, handed to the dashboard's clients (api/server.go),*)
(* to a webhook goroutine and to resultChan (handleMatch in service.go),   *)
(* printed, kept for the HTML report and put back (outputResults in        *)
(* output.go), then reused for another match.                              *)
(*                                                                         *)
(* An object is a pointer; content is what it points to.  A view <<o, h>>  *)
(* is a pointer o together with the match h it was handed out for.         *)
(***************************************************************************)
EXTENDS Naturals, Sequences, FiniteSets

CONSTANTS
  Worker,     \* workers running handleMatch
  Object,     \* Result structs the pool may allocate
  Client,     \* browsers that may connect to /events
  NumHits,    \* matches found in the scan
  ResultCap,  \* capacity of resultChan
  ClientCap,  \* capacity of a client's channel (100 in the code)
  Webhook,    \* --webhook is given
  Html        \* --oH is given

ASSUME CapAssumption == {NumHits, ResultCap, ClientCap} \subseteq Nat \ {0}
ASSUME OptionAssumption == {Webhook, Html} \subseteq BOOLEAN

Hit == 1 .. NumHits
Blank == 0              \* the content after Reset
None == <<>>
View == Object \X Hit

VARIABLES
  pool,        \* objects lying in resultPool
  used,        \* objects ever allocated by resultPool.New
  content,     \* the match each object describes
  found,       \* matches found so far
  hand,        \* the view each worker holds, or None
  step,        \* where the worker is in handleMatch
  results,     \* resultChan, in order
  printing,    \* the view outputResults holds, or None
  printed,     \* what outputResults wrote, with the match it was sent for
  rows,        \* htmlResults
  conn,        \* state of each client's handler
  registered,  \* s.clients
  inbox,       \* the channel of each client
  shown,       \* what the handlers wrote to their browsers
  hooks,       \* webhook goroutines that have not posted yet
  posted,      \* what the webhook goroutines posted
  reported     \* the matches of the HTML report, once written

poolVars == <<pool, used, content>>
workVars == <<found, hand, step>>
outVars == <<results, printing, printed, rows, reported>>
dashVars == <<conn, registered, inbox, shown>>
hookVars == <<hooks, posted>>
vars == <<poolVars, workVars, outVars, dashVars, hookVars>>

TypeOK ==
  /\ pool \subseteq used /\ used \subseteq Object
  /\ content \in [Object -> Hit \cup {Blank}]
  /\ found \in 0 .. NumHits
  /\ hand \in [Worker -> View \cup {None}]
  /\ step \in [Worker -> {"match", "fill", "filter", "hook", "webhook", "send"}]
  /\ \A w \in Worker : hand[w] = None <=> step[w] = "match"
  /\ results \in Seq(View) /\ Len(results) <= ResultCap
  /\ printing \in View \cup {None}
  /\ printed \subseteq Hit \X (Hit \cup {Blank})
  /\ rows \subseteq View
  /\ conn \in [Client -> {"away", "open", "leaving", "closed"}]
  /\ registered \subseteq Client
  /\ inbox \in [Client -> Seq(View)]
  /\ \A c \in Client : Len(inbox[c]) <= ClientCap
  /\ shown \subseteq Hit \X (Hit \cup {Blank})
  /\ hooks \subseteq View
  /\ posted \subseteq Hit \X (Hit \cup {Blank})
  /\ reported \subseteq Hit \X (Hit \cup {Blank})

Init ==
  /\ pool = {} /\ used = {} /\ content = [o \in Object |-> Blank]
  /\ found = 0
  /\ hand = [w \in Worker |-> None] /\ step = [w \in Worker |-> "match"]
  /\ results = <<>> /\ printing = None /\ printed = {} /\ rows = {}
  /\ conn = [c \in Client |-> "away"] /\ registered = {}
  /\ inbox = [c \in Client |-> <<>>] /\ shown = {}
  /\ hooks = {} /\ posted = {} /\ reported = {}

Seen(view) == <<view[2], content[view[1]]>>

-----------------------------------------------------------------------------
(* A worker: GetResult, the assignments to its fields, handleMatch. *)

Goto(w, label) == step' = [step EXCEPT ![w] = label] /\ UNCHANGED <<found, hand>>
Release(w) == /\ step' = [step EXCEPT ![w] = "match"]
              /\ hand' = [hand EXCEPT ![w] = None]
              /\ UNCHANGED found

(* sync.Pool gives back any object put into it, or allocates one. *)
GetResult(w) ==
  /\ step[w] = "match" /\ found < NumHits
  /\ \E o \in pool \cup (Object \ used) :
       /\ pool' = pool \ {o} /\ used' = used \cup {o}
       /\ content' = [content EXCEPT ![o] = Blank]
       /\ hand' = [hand EXCEPT ![w] = <<o, found + 1>>]
  /\ found' = found + 1
  /\ step' = [step EXCEPT ![w] = "fill"]
  /\ UNCHANGED <<outVars, dashVars, hookVars>>

FillResult(w) ==
  /\ step[w] = "fill"
  /\ content' = [content EXCEPT ![hand[w][1]] = hand[w][2]]
  /\ Goto(w, "filter")
  /\ UNCHANGED <<pool, used, outVars, dashVars, hookVars>>

MutDropResult(w) ==
  /\ step[w] = "filter"
  /\ \/ Goto(w, "hook") /\ UNCHANGED pool
     \/ pool' = pool \cup {hand[w][1]} /\ Goto(w, "hook")
  /\ UNCHANGED <<used, content, outVars, dashVars, hookVars>>

(* The early returns of handleMatch put the object back. *)
FilterResult(w) ==
  /\ step[w] = "filter"
  /\ \/ Goto(w, "hook") /\ UNCHANGED pool
     \/ pool' = pool \cup {hand[w][1]} /\ Release(w)
  /\ UNCHANGED <<used, content, outVars, dashVars, hookVars>>

MutBroadcast(w) ==
  /\ step[w] = "hook"
  /\ \A c \in registered : Len(inbox[c]) < ClientCap
  /\ inbox' = [c \in Client |-> IF c \in registered
                                THEN Append(inbox[c], hand[w]) ELSE inbox[c]]
  /\ Goto(w, "webhook")
  /\ UNCHANGED <<poolVars, outVars, conn, registered, shown, hookVars>>

(* ResultHook is Broadcast: under s.mu, a client whose channel is full is  *)
(* passed over.                                                            *)
Broadcast(w) ==
  /\ step[w] = "hook"
  /\ inbox' = [c \in Client |->
                 IF c \in registered /\ Len(inbox[c]) < ClientCap
                 THEN Append(inbox[c], hand[w]) ELSE inbox[c]]
  /\ Goto(w, "webhook")
  /\ UNCHANGED <<poolVars, outVars, conn, registered, shown, hookVars>>

StartWebhook(w) ==
  /\ step[w] = "webhook"
  /\ hooks' = IF Webhook THEN hooks \cup {hand[w]} ELSE hooks
  /\ Goto(w, "send")
  /\ UNCHANGED <<poolVars, outVars, dashVars, posted>>

MutSendResult(w) ==
  /\ step[w] = "send" /\ Len(results) <= ResultCap
  /\ results' = Append(results, hand[w])
  /\ Release(w)
  /\ UNCHANGED <<poolVars, printing, printed, rows, reported, dashVars, hookVars>>

SendResult(w) ==
  /\ step[w] = "send" /\ Len(results) < ResultCap
  /\ results' = Append(results, hand[w])
  /\ Release(w)
  /\ UNCHANGED <<poolVars, printing, printed, rows, reported, dashVars, hookVars>>

Work(w) == \/ GetResult(w) \/ FillResult(w) \/ FilterResult(w)
           \/ Broadcast(w) \/ StartWebhook(w) \/ SendResult(w)

-----------------------------------------------------------------------------
(* outputResults. *)

ReceiveResult ==
  /\ printing = None /\ results # <<>>
  /\ printing' = Head(results) /\ results' = Tail(results)
  /\ rows' = IF Html THEN rows \cup {Head(results)} ELSE rows
  /\ printed' = printed \cup {Seen(Head(results))}
  /\ UNCHANGED <<poolVars, workVars, reported, dashVars, hookVars>>

PutResult ==
  /\ printing # None
  /\ pool' = pool \cup {printing[1]}
  /\ printing' = None
  /\ UNCHANGED <<used, content, workVars, results, printed, rows, reported,
                 dashVars, hookVars>>

ScanOver == /\ found = NumHits /\ results = <<>> /\ printing = None
            /\ \A w \in Worker : step[w] = "match"

(* The report is generated after the loop. *)
WriteHtml ==
  /\ ScanOver /\ Html /\ reported = {}
  /\ rows # {}
  /\ reported' = {Seen(v) : v \in rows}
  /\ UNCHANGED <<poolVars, workVars, results, printing, printed, rows, dashVars,
                 hookVars>>

Output == ReceiveResult \/ PutResult \/ WriteHtml

-----------------------------------------------------------------------------
(* The handlers of /events, one for each browser. *)

Connect(c) ==
  /\ conn[c] = "away"
  /\ conn' = [conn EXCEPT ![c] = "open"]
  /\ registered' = registered \cup {c}
  /\ UNCHANGED <<poolVars, workVars, outVars, inbox, shown, hookVars>>

ShowResult(c) ==
  /\ conn[c] = "open" /\ inbox[c] # <<>>
  /\ shown' = shown \cup {Seen(Head(inbox[c]))}
  /\ inbox' = [inbox EXCEPT ![c] = Tail(@)]
  /\ UNCHANGED <<poolVars, workVars, outVars, conn, registered, hookVars>>

MutDisconnect(c) ==
  /\ conn[c] = "open"
  /\ conn' = [conn EXCEPT ![c] = "closed"]
  /\ UNCHANGED <<poolVars, workVars, outVars, registered, inbox, shown, hookVars>>

(* The browser went away: the deferred function unregisters the channel    *)
(* under s.mu, and only then closes it.                                    *)
Disconnect(c) ==
  /\ conn[c] = "open"
  /\ conn' = [conn EXCEPT ![c] = "leaving"]
  /\ registered' = registered \ {c}
  /\ UNCHANGED <<poolVars, workVars, outVars, inbox, shown, hookVars>>

CloseChannel(c) ==
  /\ conn[c] = "leaving"
  /\ conn' = [conn EXCEPT ![c] = "closed"]
  /\ UNCHANGED <<poolVars, workVars, outVars, registered, inbox, shown, hookVars>>

Browse(c) == Connect(c) \/ ShowResult(c) \/ Disconnect(c) \/ CloseChannel(c)

-----------------------------------------------------------------------------
(* A webhook goroutine: sendWebhook reads the object when it runs. *)
PostWebhook(v) ==
  /\ posted' = posted \cup {Seen(v)}
  /\ hooks' = hooks \ {v}
  /\ UNCHANGED <<poolVars, workVars, outVars, dashVars>>

Over == ScanOver /\ UNCHANGED vars

Next == \/ \E w \in Worker : Work(w)
        \/ Output
        \/ \E c \in Client : Browse(c)
        \/ \E v \in hooks : PostWebhook(v)
        \/ Over

(* The engine and the output loop run on; nothing is asked of a browser.   *)
Fairness == /\ \A w \in Worker : WF_vars(Work(w))
            /\ WF_vars(Output)

Spec == Init /\ [][Next]_vars /\ Fairness

-----------------------------------------------------------------------------
Owned == {hand[w] : w \in {w \in Worker : step[w] # "match"}}
         \cup {results[i] : i \in DOMAIN results}
         \cup ({printing} \ {None})

(* Every object has one owner: the pool, a worker, a place in resultChan   *)
(* or the output loop.  No early return of handleMatch, no path through    *)
(* the output loop puts back an object somebody else owns.                 *)
OneOwner ==
  /\ \A v \in Owned : v[1] \notin pool
  /\ \A u, v \in Owned : u[1] = v[1] => u = v
  /\ \A i, j \in DOMAIN results : i # j => results[i] # results[j]

(* Broadcast never sends on a closed channel: a client that is registered  *)
(* is not closed, whatever the order of Broadcast and of a browser's       *)
(* departure.                                                              *)
RegisteredIsOpen == \A c \in registered : conn[c] \notin {"away", "closed"}

(* A browser that does not read, or never leaves, does not hold the engine *)
(* up: the scan comes to its end.                                          *)
ScanEnds == <>ScanOver

-----------------------------------------------------------------------------
(* What the documents say. *)

(* docs/EXAMPLES.md:14: "--web: Stream hits to your browser in real-time"; *)
(* :25: "--webhook: Alerts the team instantly"; docs/USAGE.md:45: "--oH:   *)
(* Generate a Professional HTML Intelligence Report".  Whoever was handed  *)
(* a hit shows, posts or lists that hit.                                   *)
EveryoneSeesItsHit == \A p \in shown \cup posted \cup reported : p[1] = p[2]
=============================================================================
