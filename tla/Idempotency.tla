----------------------------- MODULE Idempotency -----------------------------
(***************************************************************************)
(* The layer in front of every merchant POST: one Idempotency-Key of one   *)
(* merchant, and the requests that present it.  The row binds the key to   *)
(* the method, path and body of the request that claimed it (one "body"    *)
(* here), is a lease while that request runs, and holds its answer for 24  *)
(* hours.  A claim is named by the request that made it: claimIdempotency- *)
(* Key mints one id per call and a request claims successfully once.       *)
(***************************************************************************)
EXTENDS Naturals, FiniteSets

CONSTANTS
  Requests,      \* the requests that present the key
  Bodies,        \* what tells two requests apart
  ClaimAttempts, \* CLAIM_ATTEMPTS: claims a request makes before it gives up
  MaxWindows,    \* bound: 24-hour windows of the key
  MaxCrashes     \* bound: tasks that die

ASSUME LimitsAssumption ==
  /\ ClaimAttempts \in Nat \ {0}
  /\ MaxWindows \in Nat /\ MaxCrashes \in Nat

None == "none"
ASSUME NoneAssumption == None \notin Requests \cup Bodies

VARIABLES
  key,      \* the row of idempotency_keys, status "free" when there is none
  request,  \* what each request is doing
  windows,  \* 24-hour windows begun
  told,     \* the 2xx and 4xx answers given: to whom, from whose run, and the
            \* window they were given in
  crashes,
  overrun,  \* history: a request has outlived its lease
  lost      \* history: an answer has failed to be recorded

vars == <<key, request, windows, told, crashes, overrun, lost>>

Free == [status |-> "free", claim |-> None, body |-> None, answer |-> None,
         lease |-> "none", expired |-> FALSE, window |-> 0]

Init ==
  /\ key = Free
  /\ request \in [Requests -> [pc : {"claim"}, body : Bodies, tries : {0},
                               outcome : {"none"}, window : {0}]]
  /\ windows = 0
  /\ told = {}
  /\ crashes = 0
  /\ overrun = FALSE /\ lost = FALSE

Running == {"run", "store"}

-----------------------------------------------------------------------------
\* A faulty variant: a lease is taken over although it still runs.
TakeableAlways(body) == key.status = "in_progress" /\ key.body = body

\* A dead request's key, for its own retry; the window keeps running.
Takeable(body) ==
  key.status = "in_progress" /\ key.lease = "lapsed" /\ key.body = body

\* A key nobody presented, or past its 24 hours, swept or not.
Unbound == key.status = "free" \/ key.expired

\* What a claim writes over the row, in the window it belongs to.
ClaimedRow(r, window, expired) ==
  [status |-> "in_progress", claim |-> r, body |-> request[r].body,
   answer |-> None, lease |-> "live", expired |-> expired, window |-> window]

Admit(r, window) ==
  request' = [request EXCEPT ![r].pc = "run", ![r].window = window]

(***************************************************************************)
(* claimIdempotencyKey: one insert ... on conflict do update.              *)
(***************************************************************************)
ClaimIdempotencyKey(r) ==
  /\ request[r].pc = "claim"
  /\ \/ /\ Unbound /\ windows < MaxWindows
        /\ windows' = windows + 1
        /\ key' = ClaimedRow(r, windows', FALSE)
        /\ Admit(r, windows')
     \/ /\ ~Unbound /\ Takeable(request[r].body)
        /\ key' = ClaimedRow(r, key.window, key.expired)
        /\ Admit(r, key.window)
        /\ UNCHANGED windows
     \/ /\ ~Unbound /\ ~Takeable(request[r].body)
        /\ request' = [request EXCEPT ![r].pc = "find"]
        /\ UNCHANGED <<key, windows>>
  /\ UNCHANGED <<told, crashes, overrun, lost>>

(***************************************************************************)
(* The read after a lost claim: the key may be gone again by now, which    *)
(* claims again; a different request is refused, a completed one replays   *)
(* and one still in progress is a conflict.                                *)
(***************************************************************************)
FindIdempotencyKey(r) ==
  /\ request[r].pc = "find"
  /\ LET tries == request[r].tries + 1
         same  == key.body = request[r].body
     IN \/ /\ Unbound
           /\ request' = [request EXCEPT ![r].tries = tries,
                ![r].pc = IF tries = ClaimAttempts THEN "done" ELSE "claim"]
           /\ UNCHANGED told
        \/ /\ ~Unbound /\ same /\ key.status = "completed"
           /\ request' = [request EXCEPT ![r].pc = "done"]
           /\ told' = told \cup
                {[asker |-> r, run |-> key.answer, window |-> key.window]}
        \/ /\ ~Unbound /\ (~same \/ key.status = "in_progress")
           /\ request' = [request EXCEPT ![r].pc = "done"]
           /\ UNCHANGED told
  /\ UNCHANGED <<key, windows, crashes, overrun, lost>>

\* The handler: an answer to keep (2xx, 4xx), or a 5xx.
Run(r) ==
  /\ request[r].pc = "run"
  /\ \E outcome \in {"kept", "fault"} :
       request' = [request EXCEPT ![r].pc = "store", ![r].outcome = outcome]
  /\ UNCHANGED <<key, windows, told, crashes, overrun, lost>>

\* A faulty variant: the write names the key and not the claim.
OwnsAny(r) == key.status # "free"

\* A write of this layer matches the row of its own claim, while in progress.
Owns(r) == key.claim = r /\ key.status = "in_progress"

\* A faulty variant: a 5xx leaves the claim to its lease.
StoredRowHeld(r) ==
  IF request[r].outcome = "fault" THEN key
  ELSE [key EXCEPT !.status = "completed", !.answer = r, !.lease = "none"]

\* A faulty variant: a recorded answer keeps its lease.
StoredRowLeased(r) ==
  IF request[r].outcome = "fault" THEN Free
  ELSE [key EXCEPT !.status = "completed", !.answer = r]

\* A 5xx gives the key back, anything else is kept.
StoredRow(r) ==
  IF request[r].outcome = "fault" THEN Free
  ELSE [key EXCEPT !.status = "completed", !.answer = r, !.lease = "none"]

(***************************************************************************)
(* captureResponse: completeIdempotencyKey or releaseIdempotencyKey, which *)
(* do nothing once the claim was taken over.  The answer goes out even     *)
(* when the write failed.                                                  *)
(***************************************************************************)
Store(r) ==
  /\ request[r].pc = "store"
  /\ \/ key' = (IF Owns(r) THEN StoredRow(r) ELSE key) /\ UNCHANGED lost
     \/ UNCHANGED key /\ lost' = TRUE
  /\ request' = [request EXCEPT ![r].pc = "send"]
  /\ UNCHANGED <<windows, told, crashes, overrun>>

Send(r) ==
  /\ request[r].pc = "send"
  /\ request' = [request EXCEPT ![r].pc = "done"]
  /\ told' = IF request[r].outcome = "fault" THEN told
             ELSE told \cup {[asker |-> r, run |-> r, window |-> request[r].window]}
  /\ UNCHANGED <<key, windows, crashes, overrun, lost>>

-----------------------------------------------------------------------------
Crash(r) ==
  /\ crashes < MaxCrashes
  /\ request[r].pc \in Running \cup {"send"}
  /\ request' = [request EXCEPT ![r].pc = "dead"]
  /\ crashes' = crashes + 1
  /\ UNCHANGED <<key, windows, told, overrun, lost>>

(***************************************************************************)
(* IDEMPOTENCY_LEASE_SECONDS is meant to be longer than any live request;  *)
(* nothing stops one that is slower.                                       *)
(***************************************************************************)
LeaseLapses ==
  /\ key.lease = "live"
  /\ key' = [key EXCEPT !.lease = "lapsed"]
  /\ overrun' = (overrun \/ request[key.claim].pc \in Running)
  /\ UNCHANGED <<request, windows, told, crashes, lost>>

\* 24 hours after its window began, whether or not a takeover is running.
Expire ==
  /\ key.status # "free" /\ ~key.expired
  /\ key' = [key EXCEPT !.expired = TRUE]
  /\ UNCHANGED <<request, windows, told, crashes, overrun, lost>>

RunIdempotencySweep ==
  /\ key.expired
  /\ key' = Free
  /\ UNCHANGED <<request, windows, told, crashes, overrun, lost>>

Next ==
  \/ \E r \in Requests :
       \/ ClaimIdempotencyKey(r) \/ FindIdempotencyKey(r)
       \/ Run(r) \/ Store(r) \/ Send(r) \/ Crash(r)
  \/ LeaseLapses \/ Expire \/ RunIdempotencySweep

Spec == Init /\ [][Next]_vars

-----------------------------------------------------------------------------
KeyType ==
  [status : {"free", "in_progress", "completed"}, claim : Requests \cup {None},
   body : Bodies \cup {None}, answer : Requests \cup {None},
   lease : {"none", "live", "lapsed"}, expired : BOOLEAN, window : Nat]

RequestType ==
  [pc : Running \cup {"claim", "find", "send", "done", "dead"}, body : Bodies,
   tries : 0..ClaimAttempts, outcome : {"none", "kept", "fault"}, window : Nat]

TypeOK ==
  /\ key \in KeyType
  /\ key.status = "in_progress" <=> key.lease # "none"
  /\ key.status = "free" <=> key.claim = None
  /\ request \in [Requests -> RequestType]
  /\ windows \in Nat
  /\ told \subseteq [asker : Requests, run : Requests, window : Nat]
  /\ crashes \in Nat
  /\ overrun \in BOOLEAN /\ lost \in BOOLEAN

(***************************************************************************)
(* idempotency.ts: for 24 hours the key answers what the first request     *)
(* answered.  Tasks may die between any two steps; it rests on no request  *)
(* outliving its lease and on answers being recorded.                      *)
(***************************************************************************)
OneAnswerPerWindow ==
  ~overrun /\ ~lost => \A a, b \in told : a.window = b.window => a.run = b.run

(***************************************************************************)
(* A caller is never given the answer to a different request, even by a    *)
(* run that outlived its lease, its window and its row.                    *)
(***************************************************************************)
AnswersOwnRequest ==
  \A a \in told : request[a.run].body = request[a.asker].body

(***************************************************************************)
(* A key in its window runs one request at a time, takeovers included,     *)
(* until a request outlives its lease.                                     *)
(***************************************************************************)
OneRunner ==
  ~overrun => \A r, s \in Requests :
    /\ request[r].pc \in Running /\ request[s].pc \in Running
    /\ request[r].window = request[s].window
    => r = s

(***************************************************************************)
(* A key is held only by a request that still runs, or by one that died:   *)
(* a 5xx gives it back, so that the retry need not wait out the lease.     *)
(***************************************************************************)
HolderIsRunning ==
  ~lost /\ key.status = "in_progress" => request[key.claim].pc \in Running \cup {"dead"}

(***************************************************************************)
(* A recorded answer stays what it is until its window ends: neither a     *)
(* takeover, a late run nor a late release changes it.                     *)
(***************************************************************************)
RecordedAnswerStays ==
  [][key.status = "completed" /\ ~key.expired =>
       key' \in {key, [key EXCEPT !.expired = TRUE]}]_vars
=============================================================================
