------------------------- MODULE Idempotency_proofs -------------------------
(***************************************************************************)
(* Idempotency, proved for any number of requests and bodies and any       *)
(* bounds.  That no caller gets the answer to a different request, and     *)
(* that a recorded answer stays, need no assumption.  That a key runs one  *)
(* request at a time holds until a request outlives its lease, and that it *)
(* gives one answer until then, while answers are recorded too.            *)
(***************************************************************************)
EXTENDS Idempotency, TLAPS

\* A request that claimed the key, in the window it did.
Claimed(r) == request[r].window > 0

(***************************************************************************)
(* The row and the request it names tell the same story: the row belongs   *)
(* to the last window begun, binds the claim's body, and is completed with *)
(* that claim's answer only once its run is over.                          *)
(***************************************************************************)
RowAgrees ==
  /\ key.status # "free" =>
       /\ key.window = windows /\ windows > 0
       /\ key.body = request[key.claim].body
       /\ request[key.claim].window = key.window
  /\ key.status = "completed" =>
       /\ key.answer = key.claim
       /\ request[key.claim].pc \notin Running
  /\ \A r \in Requests :
       /\ request[r].window <= windows
       /\ request[r].pc \in {"claim", "find"} =>
            request[r].window = 0 /\ request[r].tries < ClaimAttempts
       /\ request[r].pc \in Running \cup {"send"} => Claimed(r)
       /\ request[r].pc \in {"store", "send"} => request[r].outcome # "none"

\* What was told is the answer of a run of that window.
ToldAgrees ==
  \A a \in told : Claimed(a.run) /\ request[a.run].window = a.window
                                 /\ request[a.run].pc \notin Running

Inv == TypeOK /\ RowAgrees /\ ToldAgrees /\ AnswersOwnRequest

(***************************************************************************)
(* A run that may still answer, or has: the key of its window is its own,  *)
(* or gone, and no other run of that window is one too.                    *)
(***************************************************************************)
Answered(r) ==
  \/ request[r].pc = "send" /\ request[r].outcome = "kept"
  \/ \E a \in told : a.run = r

Exclusive ==
  /\ \A r \in Requests :
       request[r].pc \in Running /\ request[r].window = windows =>
         key.status = "free" \/ (key.claim = r /\ key.lease = "live")
  /\ \A r, s \in Requests :
       /\ request[r].pc \in Running /\ request[s].pc \in Running
       /\ request[r].window = request[s].window
       => r = s

Single ==
  /\ \A r \in Requests :
       Answered(r) /\ request[r].window = windows =>
         key.status = "free" \/ (key.claim = r /\ key.status = "completed")
  /\ \A r, s \in Requests :
       /\ Answered(r) /\ (Answered(s) \/ request[s].pc \in Running)
       /\ request[r].window = request[s].window
       => r = s

\* What HolderIsRunning says while answers are recorded.
Held ==
  key.status = "in_progress" => request[key.claim].pc \in Running \cup {"dead"}

\* What holds until something slips.
Careful == (~overrun => Exclusive) /\ (~overrun /\ ~lost => Single)

-----------------------------------------------------------------------------
\* Every request starts before its claim, and the key is free.
LEMMA InitHolds == ASSUME Init PROVE Inv /\ Exclusive /\ Single
<1>1. /\ request \in [Requests -> RequestType] /\ key \in KeyType
      /\ \A r \in Requests : /\ request[r].pc = "claim" /\ request[r].tries = 0
                            /\ request[r].outcome = "none" /\ request[r].window = 0
  BY LimitsAssumption DEF Init, RequestType, KeyType, Free, Running
<1>2. /\ key.status = "free" /\ key.claim = None /\ key.lease = "none"
      /\ told = {} /\ windows = 0 /\ crashes = 0
      /\ overrun \in BOOLEAN /\ lost \in BOOLEAN
  BY DEF Init, Free
<1>3. TypeOK BY <1>1, <1>2 DEF TypeOK
<1>4. RowAgrees /\ ToldAgrees /\ AnswersOwnRequest
  BY LimitsAssumption, <1>1, <1>2
     DEF RowAgrees, ToldAgrees, AnswersOwnRequest, Running
<1> QED BY <1>1, <1>2, <1>3, <1>4
        DEF Inv, Running, Exclusive, Single, Answered

\* A step that tells nothing and moves no claimed request back.
LEMMA ToldKept ==
  ASSUME Inv, told' = told,
         \A x \in Requests : request'[x].body = request[x].body,
         \A x \in Requests :
           Claimed(x) /\ request[x].pc \notin Running =>
             request'[x].window = request[x].window /\ request'[x].pc \notin Running
  PROVE  ToldAgrees' /\ AnswersOwnRequest'
<1>1. \A a \in told : a.run \in Requests /\ a.asker \in Requests
  BY DEF Inv, TypeOK, KeyType, RequestType
<1> QED BY <1>1 DEF Inv, ToldAgrees, AnswersOwnRequest, Claimed

\* What the claim does to its request: nothing else about it changes.
LEMMA ClaimKeepsInv ==
  ASSUME Inv, NEW r \in Requests, ClaimIdempotencyKey(r) PROVE Inv'
<1>1. TypeOK'
  <2>1. CASE request' = [request EXCEPT ![r].pc = "find"] /\ UNCHANGED <<key, windows>>
    BY <2>1 DEF Inv, TypeOK, KeyType, RequestType, ClaimIdempotencyKey
  <2>2. ASSUME NEW w \in Nat, NEW e \in BOOLEAN, key' = ClaimedRow(r, w, e),
               Admit(r, w), windows' \in Nat
        PROVE  TypeOK'
    <3>1. /\ key' \in KeyType
          /\ key'.status = "in_progress" /\ key'.lease # "none" /\ key'.claim # None
      BY <2>2, NoneAssumption DEF Inv, TypeOK, KeyType, RequestType, ClaimedRow
    <3>2. request' \in [Requests -> RequestType]
      BY <2>2, ZenonT(60) DEF Inv, TypeOK, KeyType, RequestType, Admit, Running
    <3> QED BY <2>2, <3>1, <3>2 DEF Inv, TypeOK, KeyType, RequestType, ClaimIdempotencyKey
  <2>3. windows \in Nat /\ key.window \in Nat /\ key.expired \in BOOLEAN
    BY DEF Inv, TypeOK, KeyType, RequestType
  <2>4. CASE /\ windows' = windows + 1 /\ key' = ClaimedRow(r, windows', FALSE)
             /\ Admit(r, windows')
    <3>1. windows' \in Nat BY <2>3, <2>4
    <3> QED BY <2>2, <2>4, <3>1
  <2>5. CASE /\ key' = ClaimedRow(r, key.window, key.expired)
             /\ Admit(r, key.window) /\ UNCHANGED windows
    BY <2>2, <2>3, <2>5
  <2> QED BY <2>1, <2>4, <2>5 DEF ClaimIdempotencyKey
<1>2. RowAgrees'
  BY LimitsAssumption, NoneAssumption
     DEF Inv, TypeOK, KeyType, RequestType, RowAgrees, ClaimIdempotencyKey, ClaimedRow, Admit,
         None,
         Running, Claimed, Unbound, Takeable
<1>3. /\ \A x \in Requests : request'[x].body = request[x].body
      /\ \A x \in Requests : x # r => request'[x] = request[x]
      /\ told' = told
  <2>1. request \in [Requests -> RequestType] /\ told' = told
    BY DEF Inv, TypeOK, ClaimIdempotencyKey
  <2>2. \/ request' = [request EXCEPT ![r].pc = "find"]
        \/ \E w : request' = [request EXCEPT ![r].pc = "run", ![r].window = w]
    BY DEF ClaimIdempotencyKey, Admit
  <2>3. \A x \in Requests : x # r => request'[x] = request[x]
    BY <2>1, <2>2
  <2>4. request'[r].body = request[r].body
    BY <2>1, <2>2 DEF RequestType
  <2> QED BY <2>1, <2>3, <2>4
<1>4. ~Claimed(r)
  BY DEF Inv, TypeOK, KeyType, RequestType, RowAgrees, ClaimIdempotencyKey, Claimed
<1>5. \A x \in Requests :
        Claimed(x) /\ request[x].pc \notin Running =>
          request'[x].window = request[x].window /\ request'[x].pc \notin Running
  BY <1>3, <1>4
<1>6. ToldAgrees' /\ AnswersOwnRequest'
  BY <1>3, <1>5, ToldKept
<1> QED BY <1>1, <1>2, <1>6 DEF Inv

\* A lost claim is answered from the row read, or tried again.
LEMMA FindKeepsInv ==
  ASSUME Inv, NEW r \in Requests, FindIdempotencyKey(r) PROVE Inv'
<1>1. TypeOK'
  BY LimitsAssumption, NoneAssumption
     DEF Inv, TypeOK, KeyType, RequestType, RowAgrees, FindIdempotencyKey, None, Running,
         Unbound
<1>2. RowAgrees'
  BY LimitsAssumption, NoneAssumption
     DEF Inv, TypeOK, KeyType, RequestType, RowAgrees, FindIdempotencyKey, None, Running,
         Claimed
<1>3. ToldAgrees' /\ AnswersOwnRequest'
  BY SMTT(60), NoneAssumption
     DEF Inv, TypeOK, KeyType, RequestType, RowAgrees, ToldAgrees,
         AnswersOwnRequest, FindIdempotencyKey, None, Running, Claimed, Unbound
<1> QED BY <1>1, <1>2, <1>3 DEF Inv

\* A run's answer is stored over the row of its own claim only.
LEMMA RunKeepsInv ==
  ASSUME Inv, NEW r \in Requests, Run(r) \/ Store(r) \/ Send(r) \/ Crash(r)
  PROVE  Inv'
<1>1. PICK pc, outcome :
        /\ request' = [request EXCEPT ![r].pc = pc, ![r].outcome = outcome]
        /\ pc \in {"store", "send", "done", "dead"}
        /\ outcome \in {"none", "kept", "fault"}
        /\ request[r].pc \notin Running => pc \notin Running
        /\ pc \in {"store", "send"} => outcome # "none"
  <2>1. request \in [Requests -> RequestType]
    BY DEF Inv, TypeOK
  <2>2. \A pc : [request EXCEPT ![r].pc = pc]
                  = [request EXCEPT ![r].pc = pc, ![r].outcome = request[r].outcome]
    BY <2>1
  <2>3. request[r].outcome \in {"none", "kept", "fault"}
    BY <2>1 DEF RequestType
  <2>4. CASE Run(r)
    BY <2>4 DEF Run, Running
  <2>5. CASE Store(r) \/ Send(r) \/ Crash(r)
    <3>1. request[r].pc = "store" => request[r].outcome # "none"
      BY DEF Inv, RowAgrees
    <3> QED BY <2>2, <2>3, <2>5, <3>1 DEF Store, Send, Crash, Running
  <2> QED BY <2>4, <2>5
<1>2. /\ \A x \in Requests : /\ request'[x].body = request[x].body
                              /\ request'[x].window = request[x].window
      /\ \A x \in Requests : x # r => request'[x] = request[x]
      /\ request'[r].pc \notin {"claim", "find"}
      /\ request[r].pc \notin Running => request'[r].pc \notin Running
      /\ request'[r].pc \in {"store", "send"} => request'[r].outcome # "none"
      /\ Claimed(r) /\ UNCHANGED windows
  <2>1. request[r].pc \in Running \cup {"send"} /\ UNCHANGED windows
    BY DEF Run, Store, Send, Crash, Running
  <2>2. request \in [Requests -> RequestType] BY DEF Inv, TypeOK
  <2>3. \A x \in Requests : x # r => request'[x] = request[x]
    BY <1>1, <2>2
  <2>4. /\ request'[r].body = request[r].body
        /\ request'[r].window = request[r].window
        /\ request'[r].pc = pc /\ request'[r].outcome = outcome
    BY <1>1, <2>2 DEF RequestType
  <2>5. Claimed(r)
    BY <2>1 DEF Inv, RowAgrees, Claimed
  <2> QED BY <1>1, <2>1, <2>3, <2>4, <2>5
<1>5. TypeOK'
  <2>1. request' \in [Requests -> RequestType]
    <3>1. request \in [Requests -> RequestType] BY DEF Inv, TypeOK
    <3>2. [request[r] EXCEPT !.pc = pc, !.outcome = outcome] \in RequestType
      BY <1>1, <3>1 DEF RequestType, Running
    <3>3. request' = [request EXCEPT ![r] = [@ EXCEPT !.pc = pc, !.outcome = outcome]]
      BY <1>1, <3>1 DEF RequestType
    <3> QED BY <3>1, <3>2, <3>3
  <2>2. /\ key' \in KeyType
        /\ key'.status = "in_progress" <=> key'.lease # "none"
        /\ key'.status = "free" <=> key'.claim = None
    <3>1. CASE UNCHANGED key
      BY <3>1 DEF Inv, TypeOK
    <3>2. CASE Owns(r) /\ key' = StoredRow(r)
      BY <3>2, NoneAssumption DEF Inv, TypeOK, KeyType, StoredRow, Owns, Free
    <3> QED BY <3>1, <3>2 DEF Run, Store, Send, Crash
  <2>3. told' \subseteq [asker : Requests, run : Requests, window : Nat]
    <3>1. request[r].window \in Nat BY DEF Inv, TypeOK, RequestType
    <3> QED BY <3>1 DEF Inv, TypeOK, Run, Store, Send, Crash
  <2>4. overrun' \in BOOLEAN /\ lost' \in BOOLEAN
    BY DEF Inv, TypeOK, Run, Store, Send, Crash
  <2>5. windows' \in Nat /\ crashes' \in Nat
    BY DEF Inv, TypeOK, Run, Store, Send, Crash
  <2> QED BY <2>1, <2>2, <2>3, <2>4, <2>5 DEF TypeOK
<1>3. RowAgrees'
  <2>1. CASE UNCHANGED key
    <3>1. key.status # "free" => key.claim \in Requests
      BY DEF Inv, TypeOK, KeyType
    <3>2. key.status = "completed" => request'[key.claim].pc \notin Running
      BY <1>2, <3>1 DEF Inv, RowAgrees
    <3> QED
      BY <1>2, <2>1, <3>1, <3>2 DEF Inv, RowAgrees, TypeOK, KeyType, RequestType, Claimed
  <2>2. CASE Store(r) /\ Owns(r) /\ key' = StoredRow(r)
    <3>1. request'[r].pc = "send"
      BY <2>2 DEF Store, Inv, TypeOK
    <3>2. r = key.claim /\ key.status = "in_progress"
      BY <2>2 DEF Owns
    <3> QED
      BY <1>2, <2>2, <3>1, <3>2, NoneAssumption
         DEF Inv, RowAgrees, TypeOK, KeyType, RequestType, Claimed, StoredRow, Free, Running
  <2> QED BY <2>1, <2>2 DEF Run, Store, Send, Crash
<1>4. ToldAgrees' /\ AnswersOwnRequest'
  <2>1. CASE told' = told
    BY <1>2, <2>1, ToldKept
  <2>2. CASE /\ Send(r)
             /\ told' = told \cup {[asker |-> r, run |-> r, window |-> request[r].window]}
    <3>1. \A a \in told : a.run \in Requests /\ a.asker \in Requests
      BY DEF Inv, TypeOK, KeyType, RequestType
    <3>2. request'[r].pc = "done"
      BY <2>2 DEF Send, Inv, TypeOK
    <3> QED
      BY <1>2, <2>2, <3>1, <3>2 DEF Inv, ToldAgrees, AnswersOwnRequest, Claimed, Running
  <2> QED BY <2>1, <2>2 DEF Run, Store, Send, Crash
<1> QED BY <1>5, <1>3, <1>4 DEF Inv

\* One step of any request, of the clock or of the sweep.
LEMMA NextKeepsInv == ASSUME Inv, [Next]_vars PROVE Inv'
<1>1. CASE LeaseLapses \/ Expire \/ RunIdempotencySweep
  <2>1. TypeOK'
    <3>1. CASE LeaseLapses
      BY <3>1 DEF Inv, TypeOK, KeyType, RequestType, LeaseLapses
    <3>2. CASE Expire
      BY <3>2 DEF Inv, TypeOK, KeyType, RequestType, Expire
    <3>3. CASE RunIdempotencySweep
      BY <3>3 DEF Inv, TypeOK, KeyType, RequestType, RunIdempotencySweep, Free
    <3> QED BY <1>1, <3>1, <3>2, <3>3
  <2>2. RowAgrees'
    <3>1. UNCHANGED <<request, windows>>
      BY <1>1 DEF LeaseLapses, Expire, RunIdempotencySweep
    <3>2. CASE RunIdempotencySweep
      BY <3>1, <3>2 DEF Inv, RowAgrees, RunIdempotencySweep, Free, Claimed
    <3>3. CASE LeaseLapses \/ Expire
      <4>1. /\ key'.status = key.status /\ key'.window = key.window
            /\ key'.body = key.body /\ key'.claim = key.claim
            /\ key'.answer = key.answer
        BY <3>3 DEF Inv, TypeOK, KeyType, RequestType, LeaseLapses, Expire
      <4> QED BY <3>1, <4>1 DEF Inv, RowAgrees, Claimed
    <3> QED BY <1>1, <3>2, <3>3
  <2>3. ToldAgrees' /\ AnswersOwnRequest'
    BY <1>1, ToldKept DEF LeaseLapses, Expire, RunIdempotencySweep
  <2> QED BY <2>1, <2>2, <2>3 DEF Inv
<1>2. CASE UNCHANGED vars
  BY <1>2 DEF vars, Inv, TypeOK, KeyType, RequestType, RowAgrees, ToldAgrees,
         AnswersOwnRequest, Claimed
<1> QED
  BY <1>1, <1>2, ClaimKeepsInv, FindKeepsInv, RunKeepsInv DEF Next

-----------------------------------------------------------------------------
(***************************************************************************)
(* While a lease outlives its request, a takeover finds no run in its      *)
(* window: it would still hold a live lease.                               *)
(***************************************************************************)
LEMMA NextKeepsExclusive ==
  ASSUME ~overrun', Inv, Exclusive, [Next]_vars PROVE Exclusive'
<1>1. ASSUME NEW r \in Requests, ClaimIdempotencyKey(r) PROVE Exclusive'
  BY SMTT(60), <1>1, NoneAssumption
     DEF Inv, TypeOK, KeyType, RequestType, RowAgrees, Exclusive, ClaimIdempotencyKey,
         ClaimedRow, Admit, Running, Takeable, Unbound, None, Claimed
<1>2. ASSUME NEW r \in Requests, FindIdempotencyKey(r) PROVE Exclusive'
  BY <1>2 DEF Inv, TypeOK, KeyType, RequestType, RowAgrees, Exclusive,
         FindIdempotencyKey, Running
<1>3. ASSUME NEW r \in Requests, Run(r) \/ Store(r) \/ Send(r) \/ Crash(r)
      PROVE  Exclusive'
  BY SMTT(60), <1>3, NoneAssumption
     DEF Inv, TypeOK, KeyType, RequestType, RowAgrees, Exclusive,
         Run, Store, Send, Crash, StoredRow, Owns, Free, Running, None
<1>4. CASE LeaseLapses \/ Expire \/ RunIdempotencySweep
  <2>1. LeaseLapses => request[key.claim].pc \notin Running
    BY DEF LeaseLapses
  <2>2. UNCHANGED <<request, windows>>
    BY <1>4 DEF LeaseLapses, Expire, RunIdempotencySweep
  <2>3. \/ key'.status = "free"
        \/ /\ key'.status = key.status /\ key'.claim = key.claim
           /\ key'.lease = key.lease \/ request[key.claim].pc \notin Running
    BY <1>4, <2>1
       DEF LeaseLapses, Expire, RunIdempotencySweep, Free, Inv, TypeOK, KeyType
  <2> QED BY <2>2, <2>3 DEF Exclusive
<1>5. CASE UNCHANGED vars
  BY <1>5 DEF vars, Exclusive
<1> QED BY <1>1, <1>2, <1>3, <1>4, <1>5 DEF Next

(***************************************************************************)
(* An answer given, or about to be, is the one its key recorded: a run     *)
(* that lost the key of its window has no window any more.                 *)
(***************************************************************************)
LEMMA NextKeepsSingle ==
  ASSUME ~overrun', ~lost', Inv, Exclusive, Single, [Next]_vars
  PROVE  Single'
<1>1. ASSUME NEW r \in Requests, ClaimIdempotencyKey(r) PROVE Single'
  <2>1. /\ \A x \in Requests : x # r => request'[x] = request[x]
        /\ request'[r].pc \in {"run", "find"} /\ told' = told
    BY <1>1, ZenonT(60) DEF ClaimIdempotencyKey, Admit, Inv, TypeOK, RequestType
  <2>2. ~\E a \in told : a.run = r
    BY <1>1 DEF ClaimIdempotencyKey, Inv, RowAgrees, ToldAgrees, Claimed
  <2>3. \A x \in Requests : Answered(x)' => Answered(x) /\ x # r
    BY <2>1, <2>2 DEF Answered
  <2>4. \A x \in Requests : request[x].window \in Nat /\ request[x].window <= windows
    BY DEF Inv, TypeOK, RequestType, RowAgrees
  <2>5. windows \in Nat
    BY DEF Inv, TypeOK
  <2>6. CASE /\ request' = [request EXCEPT ![r].pc = "find"]
             /\ UNCHANGED <<key, windows>>
    <3>1. request'[r].pc \notin Running
      BY <2>6 DEF Running, Inv, TypeOK
    <3> QED BY <2>1, <2>3, <2>6, <3>1 DEF Single
  <2>7. CASE windows' = windows + 1 /\ Admit(r, windows')
    <3>1. request'[r].window = windows + 1
      BY <2>7 DEF Admit, Inv, TypeOK, RequestType
    <3> QED BY <2>1, <2>3, <2>4, <2>5, <2>7, <3>1 DEF Single
  <2>8. CASE ~Unbound /\ Takeable(request[r].body) /\ Admit(r, key.window)
               /\ UNCHANGED windows
    <3>1. request'[r].window = windows /\ key.status = "in_progress"
      BY <2>8 DEF Admit, Takeable, Inv, TypeOK, RequestType, RowAgrees
    <3>2. \A x \in Requests : Answered(x) => request[x].window # windows
      BY <3>1 DEF Single
    <3> QED BY <2>1, <2>3, <2>8, <3>1, <3>2 DEF Single
  <2> QED BY <1>1, <2>6, <2>7, <2>8 DEF ClaimIdempotencyKey
<1>2. ASSUME NEW r \in Requests, FindIdempotencyKey(r) PROVE Single'
  <2>1. /\ \A x \in Requests : request'[x].window = request[x].window
        /\ \A x \in Requests : x # r => request'[x] = request[x]
        /\ request'[r].pc \in {"claim", "done"}
        /\ UNCHANGED <<key, windows>>
    BY <1>2 DEF FindIdempotencyKey, Inv, TypeOK, RequestType
  <2>2. CASE UNCHANGED told
    BY <2>1, <2>2 DEF Single, Answered, Running
  <2>3. CASE /\ key.status = "completed"
             /\ told' = told \cup
                  {[asker |-> r, run |-> key.answer, window |-> key.window]}
    <3>1. /\ key.answer = key.claim /\ key.claim \in Requests
          /\ request[key.claim].window = windows /\ key.lease = "none"
      BY <2>3 DEF Inv, TypeOK, KeyType, RowAgrees
    <3>2. \A x \in Requests : Answered(x)' => Answered(x) \/ x = key.claim
      BY <2>1, <2>3, <3>1 DEF Answered
    <3>3. \A x \in Requests : request'[x].pc \in Running => request[x].pc \in Running
      BY <2>1 DEF Running
    <3>4. \A x \in Requests :
            (Answered(x) \/ request[x].pc \in Running) /\ request[x].window = windows
              => x = key.claim
      BY <2>3, <3>1 DEF Exclusive, Single
    <3> QED BY <2>1, <2>3, <3>1, <3>2, <3>3, <3>4 DEF Single
  <2> QED BY <1>2, <2>2, <2>3 DEF FindIdempotencyKey
<1>3. ASSUME NEW r \in Requests, Run(r) \/ Send(r) \/ Crash(r) PROVE Single'
  <2>1. /\ \A x \in Requests : request'[x].window = request[x].window
        /\ \A x \in Requests : x # r => request'[x] = request[x]
        /\ request'[r].pc \in {"store", "done", "dead"}
        /\ UNCHANGED <<key, windows>>
    <3>1. request \in [Requests -> RequestType]
      BY DEF Inv, TypeOK
    <3>2. CASE Run(r)
      BY <3>1, <3>2 DEF Run, RequestType
    <3>3. CASE Send(r)
      BY <3>1, <3>3 DEF Send, RequestType
    <3>4. CASE Crash(r)
      BY <3>1, <3>4 DEF Crash, RequestType
    <3> QED BY <1>3, <3>2, <3>3, <3>4
  <2>2. \A x \in Requests : request'[x].pc \in Running => request[x].pc \in Running
    <3>1. CASE Run(r)
      BY <2>1, <3>1 DEF Run, Running
    <3>2. CASE Send(r)
      <4>1. request'[r].pc = "done"
        BY <3>2 DEF Send, Inv, TypeOK
      <4> QED BY <2>1, <4>1 DEF Running
    <3>3. CASE Crash(r)
      <4>1. request'[r].pc = "dead"
        BY <3>3 DEF Crash, Inv, TypeOK
      <4> QED BY <2>1, <4>1 DEF Running
    <3> QED BY <1>3, <3>1, <3>2, <3>3
  <2>3. \/ told' = told
        \/ /\ Answered(r)
           /\ told' = told \cup {[asker |-> r, run |-> r, window |-> request[r].window]}
    <3>1. CASE Send(r)
      <4>1. request[r].outcome # "fault" => Answered(r)
        <5>1. request[r].outcome \in {"none", "kept", "fault"} /\ request[r].pc = "send"
          BY <3>1 DEF Send, Inv, TypeOK, RequestType
        <5>2. request[r].outcome # "none"
          BY <5>1 DEF Inv, RowAgrees
        <5> QED BY <5>1, <5>2 DEF Answered
      <4> QED BY <3>1, <4>1 DEF Send
    <3>2. CASE Run(r) \/ Crash(r)
      BY <3>2 DEF Run, Crash
    <3> QED BY <1>3, <3>1, <3>2
  <2>4. \A x \in Requests : Answered(x)' => Answered(x)
    BY <2>1, <2>3 DEF Answered
  <2> QED BY <2>1, <2>2, <2>4 DEF Single
<1>4. ASSUME NEW r \in Requests, Store(r) PROVE Single'
  <2>1. /\ \A x \in Requests : request'[x].window = request[x].window
        /\ \A x \in Requests : x # r => request'[x] = request[x]
        /\ request[r].pc = "store" /\ request'[r].pc = "send"
        /\ request'[r].outcome = request[r].outcome
        /\ key' = IF Owns(r) THEN StoredRow(r) ELSE key
        /\ UNCHANGED <<windows, told>>
    BY <1>4 DEF Store, Inv, TypeOK, RequestType
  <2>2. \A x \in Requests :
          Answered(x)' => Answered(x) \/ (x = r /\ request[r].outcome = "kept")
    BY <2>1 DEF Answered
  <2>3. \A x \in Requests : request'[x].pc \in Running => request[x].pc \in Running
    BY <2>1 DEF Running
  <2>4. \A x \in Requests :
          /\ Answered(x) \/ request[x].pc \in Running
          /\ request[x].window = request[r].window
          => x = r
    BY <2>1 DEF Exclusive, Single, Running
  <2>5. request[r].window = windows => key.status = "free" \/ Owns(r)
    BY <2>1, NoneAssumption
       DEF Inv, TypeOK, KeyType, RowAgrees, Exclusive, Owns, Running
  <2>6. ASSUME NEW x \in Requests, Answered(x)', request[x].window = windows
        PROVE  key'.status = "free" \/ (key'.claim = x /\ key'.status = "completed")
    <3>1. CASE Owns(r)
      <4>1. x = r
        BY <2>2, <2>6, <3>1 DEF Single, Owns
      <4>2. CASE request[r].outcome = "fault"
        BY <2>1, <3>1, <4>2 DEF StoredRow, Free
      <4>3. CASE request[r].outcome # "fault"
        BY <2>1, <3>1, <4>1, <4>3 DEF StoredRow, Owns, Inv, TypeOK, KeyType
      <4> QED BY <4>2, <4>3
    <3>2. CASE ~Owns(r)
      BY <2>1, <2>2, <2>5, <2>6, <3>2 DEF Single
    <3> QED BY <3>1, <3>2
  <2> QED BY <2>1, <2>2, <2>3, <2>4, <2>6 DEF Single
<1>5. CASE LeaseLapses \/ Expire \/ RunIdempotencySweep
  <2>1. UNCHANGED <<request, windows, told>>
    BY <1>5 DEF LeaseLapses, Expire, RunIdempotencySweep
  <2>2. \/ key'.status = "free"
        \/ key'.status = key.status /\ key'.claim = key.claim
    BY <1>5 DEF LeaseLapses, Expire, RunIdempotencySweep, Free, Inv, TypeOK, KeyType
  <2> QED BY <2>1, <2>2 DEF Single, Answered
<1>6. CASE UNCHANGED vars
  BY <1>6 DEF vars, Single, Answered
<1> QED BY <1>1, <1>2, <1>3, <1>4, <1>5, <1>6 DEF Next

-----------------------------------------------------------------------------
\* The row, the requests and what was told agree, whatever is slow or lost.
THEOREM Invariance == Spec => []Inv
<1>1. Init => Inv BY InitHolds
<1> QED BY <1>1, NextKeepsInv, PTL DEF Spec

(***************************************************************************)
(* The row and every request are well formed, and a lease is held exactly  *)
(* while a request is in progress.                                         *)
(***************************************************************************)
THEOREM TypesHold == Spec => []TypeOK
<1>1. Inv => TypeOK BY DEF Inv
<1> QED BY Invariance, <1>1, PTL

(***************************************************************************)
(* No caller is given the answer to a different request: not by a takeover *)
(* of a slow run, nor by one whose window or row is gone when it answers.  *)
(***************************************************************************)
THEOREM AnswersHold == Spec => []AnswersOwnRequest
<1>1. Inv => AnswersOwnRequest BY DEF Inv
<1> QED BY Invariance, <1>1, PTL

(***************************************************************************)
(* A recorded answer stays what it is until its window ends: a late run    *)
(* writes only the row of its own claim, and only while in progress.       *)
(***************************************************************************)
THEOREM AnswersStay == Spec => RecordedAnswerStays
<1>1. ASSUME Inv, [Next]_vars, key.status = "completed", ~key.expired
      PROVE  key' \in {key, [key EXCEPT !.expired = TRUE]}
  <2>1. CASE UNCHANGED key
    BY <2>1
  <2>2. ASSUME NEW r \in Requests, ClaimIdempotencyKey(r) PROVE UNCHANGED key
    BY <1>1, <2>2 DEF ClaimIdempotencyKey, Unbound, Takeable
  <2>3. ASSUME NEW r \in Requests, Store(r) PROVE UNCHANGED key
    BY <1>1, <2>3 DEF Store, Owns
  <2>4. CASE Expire
    BY <2>4 DEF Expire
  <2>5. ~LeaseLapses /\ ~RunIdempotencySweep
    BY <1>1 DEF Inv, TypeOK, LeaseLapses, RunIdempotencySweep
  <2> QED
    BY <1>1, <2>1, <2>2, <2>3, <2>4, <2>5
       DEF Next, FindIdempotencyKey, Run, Send, Crash, vars
<1>2. Inv /\ [Next]_vars
        => [key.status = "completed" /\ ~key.expired =>
              key' \in {key, [key EXCEPT !.expired = TRUE]}]_vars
  BY <1>1
<1> QED BY Invariance, <1>2, PTL DEF Spec, RecordedAnswerStays

\* Once a request outlived its lease, or an answer was lost, it stays so.
LEMMA SlipsStay ==
  ASSUME [Next]_vars PROVE (overrun => overrun') /\ (lost => lost')
<1>1. ASSUME NEW r \in Requests, Store(r) PROVE (overrun => overrun') /\ (lost => lost')
  BY <1>1 DEF Store
<1>2. CASE LeaseLapses
  BY <1>2 DEF LeaseLapses
<1>3. CASE UNCHANGED vars
  BY <1>3 DEF vars
<1>4. ASSUME NEW r \in Requests,
             ClaimIdempotencyKey(r) \/ FindIdempotencyKey(r) \/ Run(r) \/ Send(r) \/ Crash(r)
      PROVE  (overrun => overrun') /\ (lost => lost')
  <2>1. overrun' = overrun /\ lost' = lost
    BY <1>4 DEF ClaimIdempotencyKey, FindIdempotencyKey, Run, Send, Crash
  <2> QED BY <2>1
<1>5. CASE Expire \/ RunIdempotencySweep
  BY <1>5 DEF Expire, RunIdempotencySweep
<1> QED BY <1>1, <1>2, <1>3, <1>4, <1>5 DEF Next

\* Until something slips, a window has one run and one answer.
LEMMA StaysCareful == Spec => []Careful
<1>1. Init => Careful BY InitHolds DEF Careful
<1>2. Inv /\ Careful /\ [Next]_vars => Careful'
  BY NextKeepsExclusive, NextKeepsSingle, SlipsStay DEF Careful
<1> QED BY Invariance, <1>1, <1>2, PTL DEF Spec

(***************************************************************************)
(* Until a request outlives its lease, the key of a window runs one        *)
(* request at a time: a takeover finds its predecessor dead.               *)
(***************************************************************************)
THEOREM RunsAlone == Spec => []OneRunner
<1>1. Careful => OneRunner BY DEF Careful, Exclusive, OneRunner
<1> QED BY StaysCareful, <1>1, PTL

(***************************************************************************)
(* And while answers are recorded too, everybody who presents the key in a *)
(* window is given the same answer, crashes and takeovers included.        *)
(***************************************************************************)
THEOREM AnswersOnce == Spec => []OneAnswerPerWindow
<1>1. Inv /\ Careful => OneAnswerPerWindow
  BY DEF Inv, TypeOK, ToldAgrees, Careful, Single, Answered, OneAnswerPerWindow
<1> QED BY Invariance, StaysCareful, <1>1, PTL

(***************************************************************************)
(* While answers are recorded, nobody but a running request or a dead one  *)
(* holds the key: after a 5xx the retry runs at once.                      *)
(***************************************************************************)
THEOREM HolderRuns == Spec => []HolderIsRunning
<1>1. Init => HolderIsRunning
  BY DEF Init, Free, HolderIsRunning
<1>2. ASSUME Inv, Held, ~lost', [Next]_vars PROVE Held'
  <2>1. ASSUME NEW r \in Requests, ClaimIdempotencyKey(r) PROVE Held'
    <3>1. CASE request' = [request EXCEPT ![r].pc = "find"] /\ UNCHANGED key
      <4>1. request[r].pc = "claim"
        BY <2>1 DEF ClaimIdempotencyKey
      <4>2. key.status = "in_progress" => key.claim # r /\ key.claim \in Requests
        BY <1>2, <4>1 DEF Held, Running, Inv, TypeOK, KeyType
      <4> QED BY <1>2, <3>1, <4>2 DEF Held, Inv, TypeOK
    <3>2. CASE \E w, e : key' = ClaimedRow(r, w, e) /\ Admit(r, w)
      <4>1. key'.claim = r
        BY <3>2 DEF ClaimedRow
      <4>2. request'[r].pc = "run"
        BY <1>2, <3>2 DEF Admit, Inv, TypeOK, RequestType
      <4> QED BY <4>1, <4>2 DEF Held, Running
    <3> QED BY <2>1, <3>1, <3>2 DEF ClaimIdempotencyKey
  <2>2. ASSUME NEW r \in Requests,
               FindIdempotencyKey(r) \/ Run(r) \/ Send(r) \/ Crash(r)
        PROVE  Held'
    <3>1. /\ UNCHANGED key
          /\ \A x \in Requests : x # r => request'[x] = request[x]
          /\ request[r].pc \in Running => request'[r].pc \in Running \cup {"dead"}
      <4>1. request \in [Requests -> RequestType] BY <1>2 DEF Inv, TypeOK
      <4>2. CASE FindIdempotencyKey(r)
        BY <4>1, <4>2 DEF FindIdempotencyKey, Running
      <4>3. CASE Run(r)
        BY <4>1, <4>3 DEF Run, Running, RequestType
      <4>4. CASE Send(r)
        BY <4>1, <4>4 DEF Send, Running
      <4>5. CASE Crash(r)
        BY <4>1, <4>5 DEF Crash, RequestType
      <4> QED BY <2>2, <4>2, <4>3, <4>4, <4>5
    <3>2. request[r].pc # "dead"
      BY <2>2 DEF FindIdempotencyKey, Run, Send, Crash, Running
    <3>3. key.status = "in_progress" => key.claim \in Requests
      BY <1>2 DEF Inv, TypeOK, KeyType
    <3> QED BY <1>2, <3>1, <3>2, <3>3 DEF Held
  <2>3. ASSUME NEW r \in Requests, Store(r) PROVE Held'
    <3>1. /\ \A x \in Requests : x # r => request'[x] = request[x]
          /\ key' = IF Owns(r) THEN StoredRow(r) ELSE key
      BY <1>2, <2>3 DEF Store
    <3>2. CASE Owns(r)
      BY <1>2, <3>1, <3>2 DEF StoredRow, Free, Held, Inv, TypeOK, KeyType
    <3>3. CASE ~Owns(r)
      <4>1. key.status = "in_progress" => key.claim \in Requests \ {r}
        BY <1>2, <3>3 DEF Owns, Inv, TypeOK, KeyType
      <4> QED BY <1>2, <3>1, <3>3, <4>1 DEF Held
    <3> QED BY <3>2, <3>3
  <2>4. CASE LeaseLapses \/ Expire \/ RunIdempotencySweep
    <3>1. UNCHANGED request
      BY <2>4 DEF LeaseLapses, Expire, RunIdempotencySweep
    <3>2. \/ key'.status = "free"
          \/ key'.status = key.status /\ key'.claim = key.claim
      BY <1>2, <2>4
         DEF LeaseLapses, Expire, RunIdempotencySweep, Free, Inv, TypeOK, KeyType
    <3> QED BY <1>2, <3>1, <3>2 DEF Held
  <2>5. CASE UNCHANGED vars
    BY <1>2, <2>5 DEF vars, Held
  <2> QED BY <1>2, <2>1, <2>2, <2>3, <2>4, <2>5 DEF Next
<1>3. Inv /\ HolderIsRunning /\ [Next]_vars => HolderIsRunning'
  BY <1>2, SlipsStay DEF HolderIsRunning, Held
<1> QED BY Invariance, <1>1, <1>3, PTL DEF Spec
=============================================================================
