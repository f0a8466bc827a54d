---------------------------- MODULE Refunds_proofs ----------------------------
(***************************************************************************)
(* Refunds, proved for any number of workers and references, any amounts   *)
(* and any bounds.  That a reference sends money back once, and as much as *)
(* was reserved, rests on three things: one row per reference, one refund  *)
(* of the acquirer's per row, and a sender that holds the row's amount.    *)
(***************************************************************************)
EXTENDS Refunds, TLAPS

\* The table: at most one row per reference, each holding a refund that exists.
Table ==
  /\ rows \in Seq(RowType)
  /\ \A i \in DOMAIN rows : rows[i].obj \in DOMAIN refunds \cup {0}
  /\ \A i, k \in DOMAIN rows : rows[i].ref = rows[k].ref /\ rows[i].ref # None => i = k

\* The acquirer: at most one refund per row, of the amount the row reserves.
Acquirer ==
  /\ refunds \in Seq(RefundType) /\ news \in Seq(NewsType) /\ refusals \in Nat
  /\ \A e \in DOMAIN news : news[e].obj \in DOMAIN refunds
  /\ \A o \in Made : /\ refunds[o].key \in DOMAIN rows
                     /\ rows[refunds[o].key].ref # None
                     /\ refunds[o].amount = rows[refunds[o].key].amount
  /\ \A o, p \in Made : refunds[o].key = refunds[p].key => o = p

Inbox == stored \in Seq(DOMAIN news) /\ processed \subseteq DOMAIN news /\ aborts \in Nat

OnRow == {"send", "record", "refuse", "cancel", "close", "apply"}

\* What a worker holds while the rows are R, and the acquirer's refunds, its news
\* and the stored events are numbered F, N and S.
JobHolds(j, R, F, N, S) ==
  /\ j.pc \in {"check", "insert", "reread"} => j.ref # None
  /\ j.row \in DOMAIN R \cup {0}
  /\ j.pc \in OnRow => j.row \in DOMAIN R /\ j.prev \in Statuses
  /\ j.pc = "send" => R[j.row].ref # None /\ R[j.row].amount = j.amount
  /\ j.pc \in {"record", "cancel", "import"} => j.obj \in F
  /\ j.pc = "record" => j.res \in Statuses
  /\ j.pc \in {"apply", "import", "mark"} => j.ev \in N
  /\ j.batch \subseteq S

Holds(j) == JobHolds(j, rows, DOMAIN refunds, DOMAIN news, DOMAIN stored)

Jobs == job \in [Workers -> JobType] /\ \A w \in Workers : Holds(job[w])

IInv == Table /\ Acquirer /\ Inbox /\ Jobs

\* Rows, refunds, news and stored events are only ever added, and a row keeps its
\* reference and its amount.
Grows ==
  /\ DOMAIN rows \subseteq DOMAIN rows'
  /\ \A i \in DOMAIN rows : rows'[i].ref = rows[i].ref /\ rows'[i].amount = rows[i].amount
  /\ DOMAIN refunds \subseteq DOMAIN refunds' /\ DOMAIN news \subseteq DOMAIN news'
  /\ DOMAIN stored \subseteq DOMAIN stored'

-----------------------------------------------------------------------------
\* A sequence with one entry more.
LEMMA Appended ==
  ASSUME NEW S, NEW s \in Seq(S), NEW x \in S
  PROVE  LET t == Append(s, x) IN
         /\ t \in Seq(S) /\ DOMAIN t = DOMAIN s \cup {Len(s) + 1}
         /\ \A i \in DOMAIN s : t[i] = s[i]
         /\ t[Len(s) + 1] = x /\ Len(s) + 1 \notin DOMAIN s /\ Len(s) + 1 \in Nat \ {0}
OBVIOUS

\* The entries of a sequence, and their numbers.
LEMMA Entries ==
  ASSUME NEW S, NEW s \in Seq(S)
  PROVE  /\ \A i \in DOMAIN s : s[i] \in S /\ i \in Nat \ {0}
         /\ DOMAIN s = 1..Len(s) /\ Len(s) \in Nat
OBVIOUS

\* A sequence with one entry replaced.
LEMMA Replaced ==
  ASSUME NEW S, NEW s \in Seq(S), NEW i \in DOMAIN s, NEW x \in S
  PROVE  LET t == [s EXCEPT ![i] = x] IN
         /\ t \in Seq(S) /\ DOMAIN t = DOMAIN s
         /\ \A k \in DOMAIN s : t[k] = IF k = i THEN x ELSE s[k]
OBVIOUS

\* A worker moves to a job that holds, and every other worker's still does.
LEMMA OneJobMoves ==
  ASSUME Jobs, Grows, NEW w \in Workers, NEW j \in JobType, Go(w, j),
         JobHolds(j, rows', DOMAIN refunds', DOMAIN news', DOMAIN stored')
  PROVE  Jobs'
<1>1. job' \in [Workers -> JobType]
  BY DEF Jobs, Go
<1>2. \A x \in Workers :
        JobHolds(job'[x], rows', DOMAIN refunds', DOMAIN news', DOMAIN stored')
  BY DEF Jobs, Go, Grows, Holds, JobHolds, OnRow
<1> QED BY <1>1, <1>2 DEF Jobs, Holds

\* A step that moves no worker leaves what they hold true.
LEMMA JobsStay ==
  ASSUME Jobs, Grows, UNCHANGED job PROVE Jobs'
<1>1. \A x \in Workers :
        JobHolds(job'[x], rows', DOMAIN refunds', DOMAIN news', DOMAIN stored')
  BY DEF Jobs, Grows, Holds, JobHolds, OnRow
<1> QED BY <1>1 DEF Jobs, Holds

\* A worker with nothing to do holds nothing that could be false.
LEMMA IdleHolds ==
  ASSUME NEW R, NEW F, NEW N, NEW S
  PROVE  Idle \in JobType /\ JobHolds(Idle, R, F, N, S)
BY BudgetAssumption DEF Idle, JobType, JobHolds, OnRow, Pcs, None

\* A step that changes no row, refund, news or stored event.
LEMMA Quietly ==
  ASSUME IInv, UNCHANGED <<rows, acquirer, stored, processed, aborts>>
  PROVE  Table' /\ Acquirer' /\ Inbox' /\ Grows
BY DEF IInv, Table, Acquirer, Made, Inbox, Grows, acquirer

\* Writing a row's status and refund: the row stays, its reference and amount too.
LEMMA RowWritten ==
  ASSUME IInv, NEW i \in DOMAIN rows, NEW status \in Statuses, NEW prev,
         NEW o \in DOMAIN refunds \cup {0},
         SetRow(i, status, o, prev), UNCHANGED <<acquirer, stored, processed, aborts>>
  PROVE  Table' /\ Acquirer' /\ Inbox' /\ Grows
<1>1. /\ rows' \in Seq(RowType) /\ DOMAIN rows' = DOMAIN rows
      /\ \A k \in DOMAIN rows : /\ rows'[k].ref = rows[k].ref
                                /\ rows'[k].amount = rows[k].amount
                                /\ rows'[k].obj \in {rows[k].obj, o}
  <2> DEFINE x == [rows[i] EXCEPT !.status = status, !.obj = o,
                                  !.told = Told(i, status, prev)]
  <2>1. rows \in Seq(RowType) /\ rows[i] \in RowType
    BY Entries DEF IInv, Table
  <2>2. o \in Nat
    BY Entries DEF IInv, Acquirer
  <2>3. Told(i, status, prev) \in Statuses
    BY <2>1 DEF Told, RowType
  <2>4. /\ x \in RowType /\ x.ref = rows[i].ref /\ x.amount = rows[i].amount
        /\ x.obj = o
    BY <2>1, <2>2, <2>3 DEF RowType
  <2>5. rows' = [rows EXCEPT ![i] = x]
    BY <2>1 DEF SetRow, RowType
  <2> QED BY <2>1, <2>4, <2>5, Replaced
<1> QED BY <1>1, ZenonT(60) DEF IInv, Table, Acquirer, Made, Inbox, Grows, acquirer

\* A new row, for a reference without one or for an imported refund.
LEMMA RowAdded ==
  ASSUME IInv, NEW r \in RowType, rows' = Append(rows, r),
         r.ref = None \/ RowsOf(r.ref) = {}, r.obj \in DOMAIN refunds \cup {0},
         UNCHANGED <<acquirer, stored, processed, aborts>>
  PROVE  Table' /\ Acquirer' /\ Inbox' /\ Grows
<1>1. rows \in Seq(RowType) BY DEF IInv, Table
<1>2. /\ rows' \in Seq(RowType) /\ DOMAIN rows' = DOMAIN rows \cup {Len(rows) + 1}
      /\ \A k \in DOMAIN rows : rows'[k] = rows[k]
      /\ rows'[Len(rows) + 1] = r /\ Len(rows) + 1 \notin DOMAIN rows
  BY <1>1, Appended
<1> QED BY SMTT(60), <1>2 DEF IInv, Table, Acquirer, Made, Inbox, Grows, acquirer, RowsOf

\* What the acquirer announces is about a refund it has.
LEMMA NewsAdded ==
  ASSUME IInv, NEW o \in Nat, NEW status \in Statuses, Announce(o, status)
  PROVE  /\ news' \in Seq(NewsType) /\ DOMAIN news \subseteq DOMAIN news'
         /\ \A e \in DOMAIN news' :
              news'[e].obj \in {o} \cup {news[k].obj : k \in DOMAIN news}
<1>1. news \in Seq(NewsType) /\ [obj |-> o, status |-> status] \in NewsType
  BY DEF IInv, Acquirer, NewsType
<1> QED BY <1>1, Appended DEF Announce

\* A stored event names news the acquirer still has when it has more.
LEMMA InboxStays ==
  ASSUME IInv, DOMAIN news \subseteq DOMAIN news', UNCHANGED <<stored, processed, aborts>>
  PROVE  Inbox'
<1>1. stored \in Seq(DOMAIN news) BY DEF IInv, Inbox
<1>2. stored \in Seq(DOMAIN news') BY <1>1
<1> QED BY <1>2 DEF IInv, Inbox

(***************************************************************************)
(* The acquirer makes a refund: outside, or for a row it has not made one  *)
(* for, of that row's amount.                                              *)
(***************************************************************************)
LEMMA RefundMade ==
  ASSUME IInv, NEW key \in DOMAIN rows \cup {0}, NEW amount \in Nat, NEW status \in Statuses,
         MakeRefund(key, amount, status), UNCHANGED <<rows, stored, processed, aborts>>,
         refusals' \in Nat,
         key # 0 => /\ rows[key].ref # None /\ rows[key].amount = amount
                    /\ \A o \in DOMAIN refunds : refunds[o].key # key
  PROVE  /\ Table' /\ Acquirer' /\ Inbox' /\ Grows
         /\ Len(refunds) + 1 \in DOMAIN refunds' \cap Nat
<1> DEFINE r == [key |-> key, amount |-> amount, status |-> status, said |-> status]
<1>1. refunds \in Seq(RefundType) /\ r \in RefundType /\ rows \in Seq(RowType)
  BY DEF IInv, Acquirer, Table, RefundType
<1>2. /\ refunds' \in Seq(RefundType)
      /\ DOMAIN refunds' = DOMAIN refunds \cup {Len(refunds) + 1}
      /\ \A k \in DOMAIN refunds : refunds'[k] = refunds[k]
      /\ refunds'[Len(refunds) + 1] = r
      /\ Len(refunds) + 1 \notin DOMAIN refunds /\ Len(refunds) + 1 \in Nat
  BY <1>1, Appended DEF MakeRefund
<1>3. /\ news' \in Seq(NewsType) /\ DOMAIN news \subseteq DOMAIN news'
      /\ \A e \in DOMAIN news' : news'[e].obj \in DOMAIN refunds'
  <2>1. Announce(Len(refunds) + 1, status)
    BY DEF MakeRefund
  <2>2. \A e \in DOMAIN news : news[e].obj \in DOMAIN refunds
    BY DEF IInv, Acquirer
  <2> HIDE DEF r
  <2> QED BY <1>2, <2>1, <2>2, NewsAdded
<1>4. Inbox' BY <1>3, InboxStays
<1>5. Table' BY <1>2 DEF IInv, Table
<1>6. Acquirer' BY <1>2, <1>3 DEF IInv, Acquirer, Made
<1>7. Grows BY <1>2, <1>3 DEF Grows
<1> QED BY <1>2, <1>4, <1>5, <1>6, <1>7

\* A refund changes status at the acquirer: its row's key and amount stay.
LEMMA RefundMoved ==
  ASSUME IInv, NEW o \in DOMAIN refunds, NEW status \in Statuses,
         Becomes(o, status), UNCHANGED <<rows, stored, processed, aborts, refusals>>
  PROVE  Table' /\ Acquirer' /\ Inbox' /\ Grows
<1>1. /\ refunds' \in Seq(RefundType) /\ DOMAIN refunds' = DOMAIN refunds /\ o \in Nat
      /\ \A k \in DOMAIN refunds : /\ refunds'[k].key = refunds[k].key
                                   /\ refunds'[k].amount = refunds[k].amount
  <2> DEFINE x == [refunds[o] EXCEPT !.status = status]
  <2>1. refunds \in Seq(RefundType) /\ refunds[o] \in RefundType /\ o \in Nat
    BY Entries DEF IInv, Acquirer
  <2>2. x \in RefundType /\ x.key = refunds[o].key /\ x.amount = refunds[o].amount
    BY <2>1 DEF RefundType
  <2>3. refunds' = [refunds EXCEPT ![o] = x]
    BY <2>1 DEF Becomes, RefundType
  <2> QED BY <2>1, <2>2, <2>3, Replaced
<1>2. /\ news' \in Seq(NewsType) /\ DOMAIN news \subseteq DOMAIN news'
      /\ \A e \in DOMAIN news' : news'[e].obj \in DOMAIN refunds'
  <2>1. Announce(o, status)
    BY DEF Becomes
  <2>2. \A e \in DOMAIN news : news[e].obj \in DOMAIN refunds
    BY DEF IInv, Acquirer
  <2> QED BY <1>1, <2>1, <2>2, NewsAdded
<1>3. Inbox' BY <1>2, InboxStays
<1>4. Table' BY <1>1 DEF IInv, Table
<1>5. Acquirer'
  <2>1. Made' = Made
    BY <1>1 DEF Made
  <2>2. \A p \in Made : p \in DOMAIN refunds
    BY DEF Made
  <2>3. \A p \in Made' : /\ refunds'[p].key \in DOMAIN rows
                          /\ rows[refunds'[p].key].ref # None
                          /\ refunds'[p].amount = rows[refunds'[p].key].amount
    BY <1>1, <2>1, <2>2 DEF IInv, Acquirer
  <2>4. \A p, q \in Made' : refunds'[p].key = refunds'[q].key => p = q
    BY <1>1, <2>1, <2>2 DEF IInv, Acquirer
  <2>5. refusals' \in Nat
    BY DEF IInv, Acquirer
  <2> QED BY <1>1, <1>2, <2>3, <2>4, <2>5 DEF Acquirer
<1>6. Grows BY <1>1, <1>2 DEF Grows
<1> QED BY <1>3, <1>4, <1>5, <1>6

-----------------------------------------------------------------------------
(***************************************************************************)
(* One lemma per action of a worker.                                       *)
(***************************************************************************)
\* A step that only moves one worker, to a job that holds.
LEMMA WorkerMoves ==
  ASSUME IInv, NEW w \in Workers, NEW j \in JobType, Holds(j), Go(w, j),
         UNCHANGED <<rows, acquirer, stored, processed, aborts>>
  PROVE  IInv'
<1>1. Table' /\ Acquirer' /\ Inbox' /\ Grows BY Quietly
<1>2. JobHolds(j, rows', DOMAIN refunds', DOMAIN news', DOMAIN stored')
  BY DEF Holds, acquirer
<1>3. Jobs' BY <1>1, <1>2, OneJobMoves DEF IInv
<1> QED BY <1>1, <1>3 DEF IInv

\* What a worker is doing is well formed and holds.
LEMMA ItHolds ==
  ASSUME IInv, NEW w \in Workers
  PROVE  job[w] \in JobType /\ Holds(job[w])
BY DEF IInv, Jobs

\* A row of the table, and a request that resumes it.
LEMMA ResumedHolds ==
  ASSUME IInv, NEW j \in JobType, NEW i \in DOMAIN rows, rows[i].ref # None, Holds(j)
  PROVE  Resumed(j, i) \in JobType /\ Holds(Resumed(j, i))
<1>1. rows[i] \in RowType /\ i \in Nat
  BY Entries DEF IInv, Table
<1>2. Resumed(j, i) \in JobType
  BY <1>1 DEF Resumed, JobType, RowType, Pcs
<1>3. /\ Resumed(j, i).pc = "send" /\ Resumed(j, i).row = i
      /\ Resumed(j, i).prev = rows[i].status /\ Resumed(j, i).amount = rows[i].amount
      /\ Resumed(j, i).batch = j.batch
  BY DEF Resumed, JobType
<1>4. JobHolds(Resumed(j, i), rows, DOMAIN refunds, DOMAIN news, DOMAIN stored)
  BY <1>1, <1>3 DEF RowType, Holds, JobHolds, OnRow
<1> QED BY <1>2, <1>4 DEF Holds

\* A request starts anew or resumes the row of its reference.
LEMMA RequestKeeps ==
  ASSUME IInv, NEW w \in Workers, RequestRefund(w) PROVE IInv'
<1>1. PICK ref \in Refs, amount \in Amounts :
        LET j == [Idle EXCEPT !.pc = "check", !.ref = ref, !.amount = amount] IN
        \/ RowsOf(ref) = {} /\ Go(w, j)
        \/ \E i \in RowsOf(ref) : Interrupted(i) /\ Go(w, Resumed(j, i))
  BY DEF RequestRefund
<1> DEFINE j == [Idle EXCEPT !.pc = "check", !.ref = ref, !.amount = amount]
<1>2. j \in JobType /\ Holds(j) /\ ref # None
  BY ZenonT(60), BudgetAssumption, IdleHolds DEF Idle, JobType, Holds, JobHolds, OnRow, Pcs
<1>3. CASE Go(w, j)
  BY <1>2, <1>3, WorkerMoves DEF RequestRefund
<1>4. CASE \E i \in RowsOf(ref) : Go(w, Resumed(j, i))
  <2>1. PICK i \in RowsOf(ref) : Go(w, Resumed(j, i)) BY <1>4
  <2>2. i \in DOMAIN rows /\ rows[i].ref # None BY <1>2 DEF RowsOf
  <2> HIDE DEF j
  <2>3. Resumed(j, i) \in JobType /\ Holds(Resumed(j, i))
    BY <1>2, <2>2, ResumedHolds
  <2> QED BY <2>1, <2>3, WorkerMoves DEF RequestRefund
<1> QED BY <1>1, <1>3, <1>4

\* The balance check ends the request or lets it go on.
LEMMA CheckKeeps ==
  ASSUME IInv, NEW w \in Workers, CheckRemaining(w) PROVE IInv'
<1>1. job[w] \in JobType /\ Holds(job[w]) /\ job[w].pc = "check"
  BY ItHolds DEF CheckRemaining, At
<1>2. Idle \in JobType /\ Holds(Idle)
  BY IdleHolds DEF Holds
<1>3. /\ [job[w] EXCEPT !.pc = "insert"] \in JobType
      /\ Holds([job[w] EXCEPT !.pc = "insert"])
  BY <1>1 DEF JobType, Holds, JobHolds, OnRow, Pcs
<1>4. Go(w, Idle) \/ Go(w, [job[w] EXCEPT !.pc = "insert"])
  BY DEF CheckRemaining, Finish
<1> QED BY <1>2, <1>3, <1>4, WorkerMoves DEF CheckRemaining

\* The row is inserted, or another request's row is found in its way.
LEMMA InsertKeeps ==
  ASSUME IInv, NEW w \in Workers, InsertRow(w) PROVE IInv'
<1>1. job[w] \in JobType /\ Holds(job[w]) /\ job[w].pc = "insert" /\ job[w].ref # None
  BY ItHolds DEF InsertRow, At, Holds, JobHolds
<1>2. CASE /\ InsertRefund(job[w].ref, job[w].amount)
           /\ Go(w, [job[w] EXCEPT !.pc = "send", !.row = Len(rows) + 1,
                                   !.prev = "pending"])
  <2> DEFINE r == [ref |-> job[w].ref, amount |-> job[w].amount, status |-> "pending",
                   obj |-> 0, told |-> "pending"]
             j == [job[w] EXCEPT !.pc = "send", !.row = Len(rows) + 1, !.prev = "pending"]
  <2>1. rows \in Seq(RowType) /\ r \in RowType
    BY <1>1 DEF IInv, Table, RowType, JobType, Statuses
  <2>2. rows' = Append(rows, r) /\ RowsOf(r.ref) = {}
    BY <1>2 DEF InsertRefund
  <2>3. Table' /\ Acquirer' /\ Inbox' /\ Grows
    BY <2>1, <2>2, RowAdded DEF InsertRow
  <2>4. /\ DOMAIN rows' = DOMAIN rows \cup {Len(rows) + 1}
        /\ rows'[Len(rows) + 1] = r /\ Len(rows) + 1 \in Nat
    BY <2>1, <2>2, Appended
  <2>5. j \in JobType
    BY <1>1, <2>4 DEF JobType, Pcs, Statuses
  <2>6. JobHolds(j, rows', DOMAIN refunds', DOMAIN news', DOMAIN stored')
    BY <1>1, <2>4 DEF InsertRow, acquirer, JobType, Holds, JobHolds, OnRow, Statuses
  <2>7. Jobs' BY <1>2, <2>3, <2>5, <2>6, OneJobMoves DEF IInv
  <2> QED BY <2>3, <2>7 DEF IInv
<1>3. CASE Go(w, [job[w] EXCEPT !.pc = "reread"]) /\ UNCHANGED rows
  <2>1. /\ [job[w] EXCEPT !.pc = "reread"] \in JobType
        /\ Holds([job[w] EXCEPT !.pc = "reread"])
    BY <1>1 DEF JobType, Holds, JobHolds, OnRow, Pcs
  <2> QED BY <1>3, <2>1, WorkerMoves DEF InsertRow
<1> QED BY <1>2, <1>3 DEF InsertRow

\* The loser of the insert resumes the winner's row.
LEMMA RereadKeeps ==
  ASSUME IInv, NEW w \in Workers, RereadRow(w) PROVE IInv'
<1>1. job[w] \in JobType /\ Holds(job[w]) /\ job[w].ref # None
  BY ItHolds DEF RereadRow, At, Holds, JobHolds
<1>2. PICK i \in RowsOf(job[w].ref) :
        Go(w, Idle) \/ Go(w, Resumed(job[w], i))
  BY DEF RereadRow, Finish
<1>3. i \in DOMAIN rows /\ rows[i].ref # None
  BY <1>1 DEF RowsOf
<1>4. Idle \in JobType /\ Holds(Idle)
  BY IdleHolds DEF Holds
<1>5. Resumed(job[w], i) \in JobType /\ Holds(Resumed(job[w], i))
  BY <1>1, <1>3, ResumedHolds
<1> QED BY <1>2, <1>4, <1>5, WorkerMoves DEF RereadRow

\* A step that changes something and after which its worker's job holds.
LEMMA WorkerActs ==
  ASSUME IInv, Table', Acquirer', Inbox', Grows, NEW w \in Workers, NEW j \in JobType,
         Go(w, j), JobHolds(j, rows', DOMAIN refunds', DOMAIN news', DOMAIN stored')
  PROVE  IInv'
<1>1. Jobs' BY OneJobMoves DEF IInv
<1> QED BY <1>1 DEF IInv

\* The same, with nothing left to do.
LEMMA WorkerRests ==
  ASSUME IInv, Table', Acquirer', Inbox', Grows, NEW w \in Workers, Finish(w)
  PROVE  IInv'
BY IdleHolds, WorkerActs DEF Finish

\* The acquirer makes the refund, repeats its answer, or refuses.
LEMMA SendKeeps ==
  ASSUME IInv, NEW w \in Workers, SendRefund(w) PROVE IInv'
<1> DEFINE mine == {o \in DOMAIN refunds : refunds[o].key = job[w].row}
           told(o, res) == [job[w] EXCEPT !.pc = "record", !.obj = o, !.res = res]
           refused == [job[w] EXCEPT !.pc = "refuse"]
<1>1. /\ job[w] \in JobType /\ Holds(job[w]) /\ job[w].pc = "send"
      /\ job[w].row \in DOMAIN rows /\ job[w].prev \in Statuses
      /\ rows[job[w].row].ref # None /\ rows[job[w].row].amount = job[w].amount
      /\ job[w].row # 0 /\ job[w].amount \in Nat /\ job[w].batch \subseteq DOMAIN stored
  <2>1. /\ job[w] \in JobType /\ Holds(job[w]) /\ job[w].pc = "send"
    BY ItHolds DEF SendRefund, At
  <2>2. \A i \in DOMAIN rows : i # 0
    BY Entries DEF IInv, Table
  <2> QED BY <2>1, <2>2 DEF Holds, JobHolds, OnRow, JobType
<1>2. \A o \in Nat, res \in Statuses : told(o, res) \in JobType
  BY <1>1 DEF JobType, Pcs
<1>3. ASSUME NEW status \in {"pending", "succeeded", "failed"}, mine = {},
             MakeRefund(job[w].row, job[w].amount, status),
             Go(w, told(Len(refunds) + 1, status)), UNCHANGED refusals
      PROVE  IInv'
  <2>1. /\ refusals' \in Nat /\ status \in Statuses
        /\ \A o \in DOMAIN refunds : refunds[o].key # job[w].row
    BY <1>3 DEF IInv, Acquirer, Statuses
  <2>2. /\ Table' /\ Acquirer' /\ Inbox' /\ Grows
        /\ Len(refunds) + 1 \in DOMAIN refunds' \cap Nat
    BY <1>1, <1>3, <2>1, RefundMade DEF SendRefund
  <2>3. JobHolds(told(Len(refunds) + 1, status), rows', DOMAIN refunds', DOMAIN news',
                 DOMAIN stored')
    BY <1>1, <2>1, <2>2 DEF Grows, JobHolds, OnRow, SendRefund, JobType
  <2> HIDE DEF told
  <2> QED BY <1>2, <1>3, <2>1, <2>2, <2>3, WorkerActs
<1>4. ASSUME NEW o \in mine, Go(w, told(o, refunds[o].said)), UNCHANGED acquirer
      PROVE  IInv'
  <2>1. o \in DOMAIN refunds /\ o \in Nat /\ refunds[o].said \in Statuses
    <3>1. refunds \in Seq(RefundType) /\ o \in DOMAIN refunds
      BY DEF IInv, Acquirer
    <3>2. refunds[o] \in RefundType /\ o \in Nat
      BY <3>1, Entries
    <3> QED BY <3>1, <3>2 DEF RefundType
  <2>2. Holds(told(o, refunds[o].said))
    BY <1>1, <2>1 DEF Holds, JobHolds, OnRow, JobType
  <2> HIDE DEF told
  <2> QED BY <1>2, <1>4, <2>1, <2>2, WorkerMoves DEF SendRefund
<1>5. refused \in JobType /\ Holds(refused)
  BY <1>1 DEF JobType, Pcs, Holds, JobHolds, OnRow
<1>6. CASE Go(w, refused) /\ UNCHANGED acquirer
  BY <1>5, <1>6, WorkerMoves DEF SendRefund
<1>7. CASE /\ refusals' = refusals + 1 /\ Go(w, refused) /\ UNCHANGED <<refunds, news>>
  <2>1. Table' /\ Acquirer' /\ Inbox' /\ Grows
    <3>1. refusals' \in Nat
      BY <1>7 DEF IInv, Acquirer
    <3>2. UNCHANGED <<rows, refunds, news, stored, processed, aborts>>
      BY <1>7 DEF SendRefund
    <3>3. Table' /\ Inbox' /\ Grows
      BY <3>2 DEF IInv, Table, Inbox, Grows
    <3>4. Acquirer'
      BY <3>1, <3>2 DEF IInv, Acquirer, Made
    <3> QED BY <3>3, <3>4
  <2>2. JobHolds(refused, rows', DOMAIN refunds', DOMAIN news', DOMAIN stored')
    BY <1>5, <1>7 DEF SendRefund, Holds
  <2> HIDE DEF refused
  <2> QED BY <1>5, <1>7, <2>1, <2>2, WorkerActs
<1> QED BY <1>3, <1>4, <1>6, <1>7 DEF SendRefund

\* The acquirer's answer is recorded on the row that was sent.
LEMMA ResultKeeps ==
  ASSUME IInv, NEW w \in Workers, RecordResult(w) PROVE IInv'
<1> DEFINE j == job[w]
<1>1. /\ j.row \in DOMAIN rows /\ j.prev \in Statuses
      /\ j.obj \in DOMAIN refunds /\ j.res \in Statuses
  BY ItHolds DEF RecordResult, At, Holds, JobHolds, OnRow
<1>2. CASE UNCHANGED rows
  <2>1. Table' /\ Acquirer' /\ Inbox' /\ Grows BY <1>2, Quietly DEF RecordResult
  <2> QED BY <2>1, WorkerRests DEF RecordResult
<1>3. CASE \E status \in {"succeeded", "failed"} : SetRow(j.row, status, j.obj, j.prev)
  <2>1. PICK status \in {"succeeded", "failed"} : SetRow(j.row, status, j.obj, j.prev)
    BY <1>3
  <2>2. Table' /\ Acquirer' /\ Inbox' /\ Grows
    BY <1>1, <2>1, RowWritten DEF RecordResult, Statuses
  <2> QED BY <2>2, WorkerRests DEF RecordResult
<1>4. CASE rows' = [rows EXCEPT ![j.row].obj = j.obj]
  <2>1. rows \in Seq(RowType) /\ rows[j.row] \in RowType
    BY <1>1, Entries DEF IInv, Table
  <2>2. SetRow(j.row, rows[j.row].status, j.obj, rows[j.row].status)
    BY <1>4, <2>1 DEF SetRow, Told, RowType
  <2>3. Table' /\ Acquirer' /\ Inbox' /\ Grows
    BY <1>1, <2>1, <2>2, RowWritten DEF RecordResult, RowType
  <2> QED BY <2>3, WorkerRests DEF RecordResult
<1> QED BY <1>2, <1>3, <1>4 DEF RecordResult, RecordAnswer

\* The acquirer's refusal is recorded on the row that was sent.
LEMMA RefusalKeeps ==
  ASSUME IInv, NEW w \in Workers, RecordRefusal(w) PROVE IInv'
<1>1. job[w].row \in DOMAIN rows
  BY ItHolds DEF RecordRefusal, At, Holds, JobHolds, OnRow
<1>2. rows[job[w].row].obj \in DOMAIN refunds \cup {0} /\ "failed" \in Statuses
  BY <1>1 DEF IInv, Table, Statuses
<1>3. Table' /\ Acquirer' /\ Inbox' /\ Grows
  BY <1>1, <1>2, RowWritten DEF RecordRefusal
<1> QED BY <1>3, WorkerRests DEF RecordRefusal

\* A cancel request works on a row whose refund exists.
LEMMA RequestCancelKeeps ==
  ASSUME IInv, NEW w \in Workers, RequestCancel(w) PROVE IInv'
<1>1. PICK i \in DOMAIN rows :
        /\ rows[i].obj # 0
        /\ Go(w, [Idle EXCEPT !.pc = "cancel", !.row = i, !.obj = rows[i].obj,
                              !.prev = "pending"])
  BY DEF RequestCancel
<1> DEFINE j == [Idle EXCEPT !.pc = "cancel", !.row = i, !.obj = rows[i].obj,
                             !.prev = "pending"]
<1>2. i \in Nat /\ rows[i].obj \in DOMAIN refunds /\ rows[i].obj \in Nat
  <2>1. rows \in Seq(RowType) /\ rows[i].obj \in DOMAIN refunds
    BY <1>1 DEF IInv, Table
  <2>2. rows[i] \in RowType /\ i \in Nat
    BY <2>1, Entries
  <2> QED BY <2>1, <2>2 DEF RowType
<1>3. j \in JobType
  BY <1>2, IdleHolds DEF JobType, Idle, Pcs, Statuses
<1>4. Holds(j)
  BY <1>2 DEF Holds, JobHolds, Idle, OnRow, Statuses
<1> HIDE DEF j
<1>5. Go(w, j) BY <1>1 DEF j
<1> QED BY <1>3, <1>4, <1>5, WorkerMoves DEF RequestCancel

\* The acquirer cancels the refund, has canceled it, or will not.
LEMMA CancelKeeps ==
  ASSUME IInv, NEW w \in Workers, CancelAtAcquirer(w) PROVE IInv'
<1> DEFINE j == [job[w] EXCEPT !.pc = "close"]
<1>1. job[w] \in JobType /\ Holds(job[w]) /\ job[w].pc = "cancel"
  BY ItHolds DEF CancelAtAcquirer, At
<1>2. j \in JobType /\ Holds(j) /\ job[w].obj \in DOMAIN refunds
  BY <1>1 DEF JobType, Pcs, Holds, JobHolds, OnRow
<1>3. CASE Becomes(job[w].obj, "canceled") /\ Go(w, j)
  <2>1. "canceled" \in Statuses BY DEF Statuses
  <2>2. Table' /\ Acquirer' /\ Inbox' /\ Grows
    BY <1>2, <1>3, <2>1, RefundMoved DEF CancelAtAcquirer
  <2>3. JobHolds(j, rows', DOMAIN refunds', DOMAIN news', DOMAIN stored')
    BY <1>1, <2>2 DEF Grows, Holds, JobHolds, OnRow, CancelAtAcquirer, JobType
  <2> HIDE DEF j
  <2> QED BY <1>2, <1>3, <2>2, <2>3, WorkerActs
<1>4. CASE Go(w, j) /\ UNCHANGED <<refunds, news>>
  BY <1>2, <1>4, WorkerMoves DEF CancelAtAcquirer, acquirer
<1>5. CASE Finish(w) /\ UNCHANGED <<refunds, news>>
  <2>1. Table' /\ Acquirer' /\ Inbox' /\ Grows
    BY <1>5, Quietly DEF CancelAtAcquirer, acquirer
  <2> QED BY <1>5, <2>1, WorkerRests
<1> QED BY <1>3, <1>4, <1>5 DEF CancelAtAcquirer

\* The row is closed when it is still pending.
LEMMA CloseKeeps ==
  ASSUME IInv, NEW w \in Workers, CloseRefund(w) PROVE IInv'
<1>1. job[w].row \in DOMAIN rows
  BY ItHolds DEF CloseRefund, At, Holds, JobHolds, OnRow
<1>2. rows[job[w].row].obj \in DOMAIN refunds \cup {0} /\ "canceled" \in Statuses
  BY <1>1 DEF IInv, Table, Statuses
<1>3. Table' /\ Acquirer' /\ Inbox' /\ Grows
  <2>1. CASE UNCHANGED rows BY <2>1, Quietly DEF CloseRefund
  <2>2. CASE SetRow(job[w].row, "canceled", rows[job[w].row].obj, job[w].prev)
    BY <1>1, <1>2, <2>2, RowWritten DEF CloseRefund
  <2> QED BY <2>1, <2>2 DEF CloseRefund
<1> QED BY <1>3, WorkerRests DEF CloseRefund

\* A drain pass takes the stored events nobody has processed.
LEMMA PassKeeps ==
  ASSUME IInv, NEW w \in Workers, StartPass(w) PROVE IInv'
<1> DEFINE batch == {k \in DOMAIN stored : stored[k] \notin processed}
           j == [Idle EXCEPT !.pc = "examine", !.batch = batch]
<1>1. DOMAIN stored \subseteq Nat
  BY Entries DEF IInv, Inbox
<1>2. j \in JobType /\ Holds(j)
  BY ZenonT(60), <1>1, IdleHolds DEF Idle, JobType, Holds, JobHolds, OnRow, Pcs
<1>3. Go(w, j) BY DEF StartPass
<1> HIDE DEF j
<1> QED BY <1>2, <1>3, WorkerMoves DEF StartPass

\* The oldest event of the batch finds its row, or none.
LEMMA ExamineKeeps ==
  ASSUME IInv, NEW w \in Workers, ExamineEvent(w) PROVE IInv'
<1>1. job[w] \in JobType /\ Holds(job[w]) /\ job[w].pc = "examine"
      /\ job[w].batch \subseteq DOMAIN stored
  BY ZenonT(60), ItHolds DEF ExamineEvent, At, Holds, JobHolds
<1>2. PICK k \in job[w].batch :
        LET o == news[stored[k]].obj
            j == [job[w] EXCEPT !.ev = stored[k], !.batch = @ \ {k}]
        IN \/ Go(w, [j EXCEPT !.pc = "import", !.obj = o])
           \/ \E i \in RowsHolding(o) :
                Go(w, [j EXCEPT !.pc = "apply", !.row = i, !.prev = rows[i].status])
  BY ZenonT(60) DEF ExamineEvent
<1> DEFINE e == stored[k]
           o == news[e].obj
           imports == [job[w] EXCEPT !.ev = e, !.batch = @ \ {k}, !.pc = "import", !.obj = o]
           applies(i) == [job[w] EXCEPT !.ev = e, !.batch = @ \ {k}, !.pc = "apply",
                                        !.row = i, !.prev = rows[i].status]
<1>3. e \in DOMAIN news /\ e \in Nat
  <2>1. stored \in Seq(DOMAIN news) /\ k \in DOMAIN stored /\ news \in Seq(NewsType)
    BY <1>1 DEF IInv, Inbox, Acquirer
  <2> QED BY <2>1, Entries
<1>4. o \in DOMAIN refunds /\ o \in Nat
  <2>1. o \in DOMAIN refunds /\ refunds \in Seq(RefundType)
    BY <1>3 DEF IInv, Acquirer
  <2> QED BY <2>1, Entries
<1>5. CASE Go(w, imports)
  <2>1. imports \in JobType /\ Holds(imports)
    BY <1>1, <1>3, <1>4 DEF JobType, Pcs, Holds, JobHolds, OnRow
  <2> HIDE DEF imports
  <2> QED BY <1>5, <2>1, WorkerMoves DEF ExamineEvent
<1>6. CASE \E i \in RowsHolding(o) : Go(w, applies(i))
  <2>1. PICK i \in RowsHolding(o) : Go(w, applies(i)) BY <1>6
  <2>2. i \in DOMAIN rows /\ rows \in Seq(RowType)
    BY DEF RowsHolding, IInv, Table
  <2>3. i \in Nat /\ rows[i].status \in Statuses
    <3>1. rows[i] \in RowType /\ i \in Nat BY <2>2, Entries
    <3> QED BY <3>1 DEF RowType
  <2>4. applies(i) \in JobType /\ Holds(applies(i))
    BY <1>1, <1>3, <2>2, <2>3 DEF JobType, Pcs, Holds, JobHolds, OnRow
  <2> HIDE DEF applies
  <2> QED BY <2>1, <2>4, WorkerMoves DEF ExamineEvent
<1> QED BY ZenonT(60), <1>1, <1>2, <1>5, <1>6 DEF JobType

\* An event's status goes into the row, where the edge exists.
LEMMA ApplyKeeps ==
  ASSUME IInv, NEW w \in Workers, ApplyRefundState(w) PROVE IInv'
<1> DEFINE j == [job[w] EXCEPT !.pc = "mark"]
           status == news[job[w].ev].status
<1>1. job[w] \in JobType /\ Holds(job[w]) /\ job[w].pc = "apply"
      /\ job[w].row \in DOMAIN rows /\ job[w].ev \in DOMAIN news
  BY ItHolds DEF ApplyRefundState, At, Holds, JobHolds, OnRow
<1>2. rows[job[w].row].obj \in DOMAIN refunds \cup {0} /\ status \in Statuses
  <2>1. rows[job[w].row].obj \in DOMAIN refunds \cup {0} /\ news \in Seq(NewsType)
    BY <1>1 DEF IInv, Table, Acquirer
  <2>2. news[job[w].ev] \in NewsType BY <1>1, <2>1, Entries
  <2> QED BY <2>1, <2>2 DEF NewsType
<1>3. Table' /\ Acquirer' /\ Inbox' /\ Grows
  <2>1. CASE UNCHANGED rows BY <2>1, Quietly DEF ApplyRefundState
  <2>2. CASE SetRow(job[w].row, status, rows[job[w].row].obj, job[w].prev)
    BY <1>1, <1>2, <2>2, RowWritten DEF ApplyRefundState
  <2> QED BY <2>1, <2>2 DEF ApplyRefundState
<1>4. j \in JobType /\ Go(w, j)
  BY <1>1 DEF JobType, Pcs, ApplyRefundState
<1>5. JobHolds(j, rows', DOMAIN refunds', DOMAIN news', DOMAIN stored')
  BY <1>1, <1>3 DEF Grows, Holds, JobHolds, OnRow, JobType
<1> HIDE DEF j
<1> QED BY <1>3, <1>4, <1>5, WorkerActs

\* A refund no row claims gets a row of its own.
LEMMA ImportKeeps ==
  ASSUME IInv, NEW w \in Workers, ImportProviderRefund(w) PROVE IInv'
<1> DEFINE j == [job[w] EXCEPT !.pc = "mark"]
           status == news[job[w].ev].status
           r == [ref |-> None, amount |-> refunds[job[w].obj].amount, status |-> status,
                 obj |-> job[w].obj, told |-> status]
<1>1. job[w] \in JobType /\ Holds(job[w]) /\ job[w].pc = "import"
      /\ job[w].obj \in DOMAIN refunds /\ job[w].ev \in DOMAIN news
  BY ItHolds DEF ImportProviderRefund, At, Holds, JobHolds
<1>2. r \in RowType
  <2>1. news \in Seq(NewsType) /\ refunds \in Seq(RefundType)
    BY DEF IInv, Acquirer
  <2>2. news[job[w].ev] \in NewsType /\ refunds[job[w].obj] \in RefundType
        /\ job[w].obj \in Nat
    BY <1>1, <2>1, Entries
  <2> QED BY <2>2 DEF NewsType, RefundType, RowType
<1>3. Table' /\ Acquirer' /\ Inbox' /\ Grows
  <2>1. CASE UNCHANGED rows BY <2>1, Quietly DEF ImportProviderRefund
  <2>2. CASE rows' = Append(rows, r)
    BY <1>1, <1>2, <2>2, RowAdded DEF ImportProviderRefund
  <2> QED BY <2>1, <2>2 DEF ImportProviderRefund
<1>4. j \in JobType /\ Go(w, j)
  BY <1>1 DEF JobType, Pcs, ImportProviderRefund
<1>5. JobHolds(j, rows', DOMAIN refunds', DOMAIN news', DOMAIN stored')
  BY <1>1, <1>3 DEF Grows, Holds, JobHolds, OnRow, JobType
<1> HIDE DEF j
<1> QED BY <1>3, <1>4, <1>5, WorkerActs

\* The event is processed, and the batch goes on.
LEMMA MarkKeeps ==
  ASSUME IInv, NEW w \in Workers, MarkProcessed(w) PROVE IInv'
<1> DEFINE j == [Idle EXCEPT !.pc = "examine", !.batch = job[w].batch]
<1>1. job[w] \in JobType /\ Holds(job[w]) /\ job[w].ev \in DOMAIN news
      /\ job[w].batch \subseteq DOMAIN stored
  BY ItHolds DEF MarkProcessed, At, Holds, JobHolds
<1>2. UNCHANGED <<rows, acquirer, stored, aborts>>
      /\ processed' = processed \cup {job[w].ev}
  BY DEF MarkProcessed
<1>3. Table' /\ Acquirer' /\ Grows
  BY <1>2 DEF IInv, Table, Acquirer, Made, Grows, acquirer
<1>4. Inbox'
  BY <1>1, <1>2 DEF IInv, Inbox, acquirer
<1>5. CASE Finish(w) BY <1>3, <1>4, <1>5, WorkerRests
<1>6. CASE Go(w, j)
  <2>1. j \in JobType
    BY <1>1, IdleHolds DEF Idle, JobType, Pcs
  <2>2. JobHolds(j, rows', DOMAIN refunds', DOMAIN news', DOMAIN stored')
    BY <1>1, <1>2 DEF JobHolds, Idle, OnRow, acquirer
  <2> HIDE DEF j
  <2> QED BY <1>3, <1>4, <1>6, <2>1, <2>2, WorkerActs
<1> QED BY <1>5, <1>6 DEF MarkProcessed

\* A worker forgets what it was doing.
LEMMA AbortKeeps ==
  ASSUME IInv, NEW w \in Workers, Abort(w) PROVE IInv'
<1>1. aborts' \in Nat BY DEF Abort, IInv, Inbox
<1>2. UNCHANGED <<rows, acquirer, stored, processed>> BY DEF Abort
<1>3. Table' /\ Acquirer' /\ Grows
  BY <1>2 DEF IInv, Table, Acquirer, Made, Grows, acquirer
<1>4. Inbox' BY <1>1, <1>2 DEF IInv, Inbox, acquirer
<1> QED BY <1>3, <1>4, WorkerRests DEF Abort
-----------------------------------------------------------------------------
(***************************************************************************)
(* One lemma per step nobody of Peable takes, and the induction.           *)
(***************************************************************************)
\* The acquirer settles, rejects or cancels a refund.
LEMMA AcquirerKeeps ==
  ASSUME IInv, AcquirerMoves PROVE IInv'
<1>1. PICK o \in DOMAIN refunds, status \in Statuses : Becomes(o, status)
  BY DEF AcquirerMoves
<1>2. Table' /\ Acquirer' /\ Inbox' /\ Grows
  BY <1>1, RefundMoved DEF AcquirerMoves
<1>3. Jobs' BY <1>2, JobsStay DEF IInv, AcquirerMoves
<1> QED BY <1>2, <1>3 DEF IInv

\* The acquirer makes a refund Peable did not ask for.
LEMMA OutsideKeeps ==
  ASSUME IInv, RefundOutside PROVE IInv'
<1>1. PICK amount \in OutsideAmounts, status \in {"pending", "succeeded"} :
        MakeRefund(0, amount, status)
  BY DEF RefundOutside
<1>2. amount \in Nat /\ status \in Statuses /\ refusals' \in Nat
  BY BudgetAssumption DEF Statuses, RefundOutside, IInv, Acquirer
<1>3. Table' /\ Acquirer' /\ Inbox' /\ Grows
  BY <1>1, <1>2, RefundMade DEF RefundOutside
<1>4. Jobs' BY <1>3, JobsStay DEF IInv, RefundOutside
<1> QED BY <1>3, <1>4 DEF IInv

\* An event is stored at the end of the inbox.
LEMMA IngestKeeps ==
  ASSUME IInv, IngestEvent PROVE IInv'
<1>1. PICK e \in DOMAIN news : stored' = Append(stored, e)
  BY DEF IngestEvent
<1>2. stored \in Seq(DOMAIN news) BY DEF IInv, Inbox
<1>3. stored' \in Seq(DOMAIN news) /\ DOMAIN stored \subseteq DOMAIN stored'
  BY <1>1, <1>2, Appended
<1>4. UNCHANGED <<rows, acquirer, processed, job, aborts>> BY DEF IngestEvent
<1>5. Table' /\ Acquirer' /\ Grows
  BY <1>3, <1>4 DEF IInv, Table, Acquirer, Made, Grows, acquirer
<1>6. Inbox' BY <1>3, <1>4 DEF IInv, Inbox, acquirer
<1>7. Jobs' BY <1>4, <1>5, JobsStay DEF IInv
<1> QED BY <1>5, <1>6, <1>7 DEF IInv

\* Nothing is there at first.
LEMMA InitHolds == ASSUME Init PROVE IInv
<1>1. Table /\ Acquirer /\ Inbox
  BY BudgetAssumption DEF Init, Table, Acquirer, Made, Inbox
<1>2. Idle \in JobType /\ Holds(Idle)
  BY IdleHolds DEF Holds
<1>3. Jobs BY <1>2 DEF Init, Jobs
<1> QED BY <1>1, <1>3 DEF IInv

\* Every step keeps the invariant, and so does no step.
LEMMA NextKeeps == ASSUME IInv, [Next]_vars PROVE IInv'
<1>1. ASSUME NEW w \in Workers, Step(w) PROVE IInv'
  BY <1>1, RequestKeeps, CheckKeeps, InsertKeeps, RereadKeeps, SendKeeps, ResultKeeps,
     RefusalKeeps, RequestCancelKeeps, CancelKeeps, CloseKeeps, PassKeeps, ExamineKeeps,
     ApplyKeeps, ImportKeeps, MarkKeeps, AbortKeeps DEF Step
<1>2. CASE UNCHANGED vars
  <2>1. Table' /\ Acquirer' /\ Inbox' /\ Grows BY <1>2, Quietly DEF vars
  <2>2. Jobs' BY <1>2, <2>1, JobsStay DEF IInv, vars
  <2> QED BY <2>1, <2>2 DEF IInv
<1> QED BY <1>1, <1>2, AcquirerKeeps, OutsideKeeps, IngestKeeps DEF Next

\* In every reachable state: one row per reference, one refund per row, and every
\* worker holds what its next step needs.
THEOREM Invariance == Spec => []IInv
BY InitHolds, NextKeeps, PTL DEF Spec

-----------------------------------------------------------------------------
\* Rows, refunds, events and jobs are well formed and name what exists, whatever
\* requests, passes and the acquirer do (db/schema/refunds.ts's types and keys).
THEOREM TypesHold == Spec => []TypeOK
<1>1. IInv => TypeOK
  <2> SUFFICES ASSUME IInv PROVE TypeOK OBVIOUS
  <2>1. /\ rows \in Seq(RowType) /\ refunds \in Seq(RefundType) /\ news \in Seq(NewsType)
        /\ stored \in Seq(DOMAIN news) /\ processed \subseteq DOMAIN news
        /\ job \in [Workers -> JobType] /\ aborts \in Nat /\ refusals \in Nat
    BY DEF IInv, Table, Acquirer, Inbox, Jobs
  <2>2. \A i \in DOMAIN rows : rows[i].obj \in DOMAIN refunds \cup {0}
    BY DEF IInv, Table
  <2>3. \A o \in DOMAIN refunds : refunds[o].key \in DOMAIN rows \cup {0}
    BY DEF IInv, Acquirer, Made
  <2>4. \A w \in Workers : job[w].row \in DOMAIN rows \cup {0}
    BY DEF IInv, Jobs, Holds, JobHolds
  <2> QED BY <2>1, <2>2, <2>3, <2>4 DEF TypeOK
<1> QED BY <1>1, Invariance, PTL

\* One reference sends money back once, for any number of requests, crashes and
\* lost answers: insertRefund's unique index and the key re:<publicId> together.
THEOREM OnceSent == Spec => []SentOnce
<1>1. IInv => SentOnce
  BY DEF IInv, Table, Acquirer, SentOnce, Made
<1> QED BY <1>1, Invariance, PTL

\* What the acquirer sends back is what the row reserved, although createRefund may
\* resume under a request for another amount.
THEOREM AsReserved == Spec => []SentAsReserved
<1>1. IInv => SentAsReserved
  BY DEF IInv, Acquirer, SentAsReserved
<1> QED BY <1>1, Invariance, PTL

-----------------------------------------------------------------------------
\* What NeverWalksBack says of one step.
Forward ==
  \A i \in DOMAIN rows :
    /\ rows[i].status = "succeeded" => rows'[i].status \in {"succeeded", "failed"}
    /\ rows[i].status = "failed" /\ rows[i].obj # 0 => rows'[i].status = "failed"

\* A row written with a status it may go to.
LEMMA WrittenForward ==
  ASSUME IInv, NEW i \in DOMAIN rows, NEW status \in Statuses, NEW o, NEW prev,
         SetRow(i, status, o, prev),
         rows[i].status = "succeeded" => status \in {"succeeded", "failed"},
         rows[i].status = "failed" /\ rows[i].obj # 0 => status = "failed"
  PROVE  Forward
<1>1. rows \in Seq(RowType) BY DEF IInv, Table
<1>2. rows[i] \in RowType BY <1>1, Entries
<1>3. /\ rows'[i].status = status
      /\ \A k \in DOMAIN rows : k # i => rows'[k] = rows[k]
  BY <1>1, <1>2 DEF SetRow, RowType
<1> QED BY <1>3 DEF Forward


\* A step that leaves the table alone moves no row.
LEMMA SameForward == ASSUME UNCHANGED rows PROVE Forward
BY DEF Forward

\* Every step moves a row forward: each writer's guard forbids the edge back.
LEMMA StepForward == ASSUME IInv, Next PROVE Forward
<1>1. ASSUME NEW w \in Workers, InsertRow(w) PROVE Forward
  <2>1. rows \in Seq(RowType) BY DEF IInv, Table
  <2>2. UNCHANGED rows \/ \E x : rows' = Append(rows, x)
    BY <1>1 DEF InsertRow, InsertRefund
  <2>3. \A k \in DOMAIN rows : rows'[k] = rows[k] BY <2>1, <2>2
  <2> QED BY <2>3 DEF Forward
<1>2. ASSUME NEW w \in Workers, RecordResult(w) PROVE Forward
  <2> DEFINE j == job[w]
  <2>1. j.row \in DOMAIN rows
    BY <1>2, ItHolds DEF RecordResult, At, Holds, JobHolds, OnRow
  <2>2. CASE rows[j.row].obj = 0 /\ SetRow(j.row, "succeeded", j.obj, j.prev)
    BY <2>1, <2>2, WrittenForward DEF Statuses
  <2>3. CASE SetRow(j.row, "failed", j.obj, j.prev)
    BY <2>1, <2>3, WrittenForward DEF Statuses
  <2>4. CASE rows' = [rows EXCEPT ![j.row].obj = j.obj]
    <3>1. rows \in Seq(RowType) BY DEF IInv, Table
    <3>2. rows[j.row] \in RowType BY <2>1, <3>1, Entries
    <3>3. \A k \in DOMAIN rows : rows'[k].status = rows[k].status
      BY <2>4, <3>1, <3>2 DEF RowType
    <3> QED BY <3>3 DEF Forward
  <2> QED BY <1>2, <2>2, <2>3, <2>4, SameForward DEF RecordResult, RecordAnswer
<1>3. ASSUME NEW w \in Workers, RecordRefusal(w) PROVE Forward
  <2>1. job[w].row \in DOMAIN rows
    BY <1>3, ItHolds DEF RecordRefusal, At, Holds, JobHolds, OnRow
  <2> QED BY <1>3, <2>1, WrittenForward DEF RecordRefusal, Statuses
<1>4. ASSUME NEW w \in Workers, CloseRefund(w) PROVE Forward
  <2>1. job[w].row \in DOMAIN rows
    BY <1>4, ItHolds DEF CloseRefund, At, Holds, JobHolds, OnRow
  <2> QED BY <1>4, <2>1, WrittenForward, SameForward DEF CloseRefund, Statuses
<1>5. ASSUME NEW w \in Workers, ApplyRefundState(w) PROVE Forward
  <2> DEFINE j == job[w]
             status == news[j.ev].status
  <2>1. j.row \in DOMAIN rows /\ status \in Statuses
    <3>1. j.row \in DOMAIN rows /\ j.ev \in DOMAIN news /\ news \in Seq(NewsType)
      BY <1>5, ItHolds DEF ApplyRefundState, At, Holds, JobHolds, OnRow, IInv, Acquirer
    <3>2. news[j.ev] \in NewsType BY <3>1, Entries
    <3> QED BY <3>1, <3>2 DEF NewsType
  <2>2. CASE Applies(j.row, status) /\ SetRow(j.row, status, rows[j.row].obj, j.prev)
    BY <2>1, <2>2, WrittenForward DEF Applies
  <2> QED BY <1>5, <2>2, SameForward DEF ApplyRefundState
<1>6. ASSUME NEW w \in Workers, ImportProviderRefund(w) PROVE Forward
  <2>1. rows \in Seq(RowType) BY DEF IInv, Table
  <2>2. UNCHANGED rows \/ \E x : rows' = Append(rows, x)
    BY SMTT(60), <1>6 DEF ImportProviderRefund
  <2>3. \A k \in DOMAIN rows : rows'[k] = rows[k] BY <2>1, <2>2
  <2> QED BY <2>3 DEF Forward
<1>7. ASSUME NEW w \in Workers, Step(w) PROVE UNCHANGED rows \/ Forward
  BY Zenon, <1>1, <1>2, <1>3, <1>4, <1>5, <1>6, <1>7
  DEF Step, RequestRefund, CheckRemaining, RereadRow, SendRefund, RequestCancel,
      CancelAtAcquirer, StartPass, ExamineEvent, MarkProcessed, Abort
<1>8. AcquirerMoves \/ RefundOutside \/ IngestEvent => UNCHANGED rows
  BY DEF AcquirerMoves, RefundOutside, IngestEvent
<1> QED BY <1>7, <1>8, SameForward DEF Next

\* Money that went back is not walked back, and a failed refund the acquirer knows
\* is not revived, whichever writer comes last (applyRefundState and the others).
THEOREM WalksForward == Spec => NeverWalksBack
<1>1. IInv /\ [Next]_vars => [Forward]_vars
  BY StepForward
<1> QED BY <1>1, Invariance, PTL DEF Spec, NeverWalksBack, Forward

-----------------------------------------------------------------------------
(***************************************************************************)
(* What a row says is true, and told.  A status is written from an answer  *)
(* or an event that may be old: it is still of the refund the row holds,   *)
(* because a row keeps the refund it was given, and a merchant's row is    *)
(* given none but the one its own key made.                                *)
(***************************************************************************)
\* In the acquirer's news N, refund o is said to have this status.
Said(o, status, N) == \E e \in DOMAIN N : N[e] = [obj |-> o, status |-> status]

\* Each refund's status, and the answer its key repeats, have been announced.
Heard(F, N) ==
  \A o \in DOMAIN F : Said(o, F[o].status, N) /\ Said(o, F[o].said, N)

RowTrue(r, i, F, N) ==
  /\ r.status \in {"succeeded", "canceled"} => Said(r.obj, r.status, N)
  /\ r.ref # None /\ r.obj # 0 => F[r.obj].key = i
  /\ r.ref = None => r.obj # 0
  /\ r.status # "failed" \/ r.ref = None => r.told = r.status

\* What a worker is about to write is of the row it writes; a status it read there
\* tells whether the row can be pending still, and whether it failed.
JobTrue(j, R, F, N) ==
  /\ j.pc \in {"send", "record", "refuse"} =>
       R[j.row].ref # None /\ j.prev \in {"pending", "failed"}
  /\ j.pc = "record" => F[j.obj].key = j.row /\ Said(j.obj, j.res, N)
  /\ j.pc \in {"cancel", "close"} =>
       R[j.row].obj = j.obj /\ j.obj # 0 /\ j.prev = "pending"
  /\ j.pc = "close" => Said(j.obj, "canceled", N)
  /\ j.pc = "apply" =>
       /\ R[j.row].obj = N[j.ev].obj
       /\ j.prev # "pending" => R[j.row].status # "pending"
       /\ j.prev = "failed" => R[j.row].status = "failed"
  /\ j.pc = "import" => N[j.ev].obj = j.obj

RowsTrue == \A i \in DOMAIN rows : RowTrue(rows[i], i, refunds, news)
JobsTrue == \A w \in Workers : JobTrue(job[w], rows, refunds, news)
Truth == Heard(refunds, news) /\ RowsTrue /\ JobsTrue

\* What no step takes back: a row's refund, that it left "pending" or failed, a
\* refund's key and first answer, and what was announced.
Onward ==
  /\ Grows
  /\ \A i \in DOMAIN rows : rows[i].obj # 0 =>
       /\ rows'[i].obj = rows[i].obj
       /\ rows[i].status # "pending" => rows'[i].status # "pending"
       /\ rows[i].status = "failed" => rows'[i].status = "failed"
  /\ \A o \in DOMAIN refunds :
       refunds'[o].key = refunds[o].key /\ refunds'[o].said = refunds[o].said
  /\ \A e \in DOMAIN news : news'[e] = news[e]

\* What was announced stays announced.
LEMMA SaidStays ==
  ASSUME Onward, NEW o, NEW status, Said(o, status, news)
  PROVE  Said(o, status, news')
BY DEF Said, Onward, Grows

\* Refunds, rows and events have the types of the table's and the acquirer's.
LEMMA Typed ==
  ASSUME IInv
  PROVE  /\ \A i \in DOMAIN rows : /\ rows[i] \in RowType /\ i \in Nat \ {0}
                                   /\ rows[i].obj \in DOMAIN refunds \cup {0}
         /\ \A o \in DOMAIN refunds : refunds[o] \in RefundType /\ o \in Nat \ {0}
         /\ \A e \in DOMAIN news : news[e] \in NewsType /\ news[e].obj \in DOMAIN refunds
<1>1. rows \in Seq(RowType) /\ refunds \in Seq(RefundType) /\ news \in Seq(NewsType)
  BY DEF IInv, Table, Acquirer
<1> QED BY <1>1, Entries DEF IInv, Table, Acquirer

\* What a worker holds stays true while others act.
LEMMA JobStaysTrue ==
  ASSUME IInv, Onward, NEW j \in JobType, Holds(j), JobTrue(j, rows, refunds, news)
  PROVE  JobTrue(j, rows', refunds', news')
<1>1. j.pc \in {"send", "record", "refuse", "cancel", "close", "apply"} =>
        /\ j.row \in DOMAIN rows /\ rows'[j.row].ref = rows[j.row].ref
  BY DEF Holds, JobHolds, OnRow, Onward, Grows
<1>2. ASSUME j.pc = "record"
      PROVE  refunds'[j.obj].key = j.row /\ Said(j.obj, j.res, news')
  <2>1. j.obj \in DOMAIN refunds /\ refunds[j.obj].key = j.row /\ Said(j.obj, j.res, news)
    BY <1>2 DEF Holds, JobHolds, JobTrue
  <2> QED BY <2>1, SaidStays DEF Onward
<1>3. ASSUME j.pc \in {"cancel", "close"}
      PROVE  rows'[j.row].obj = j.obj /\ j.obj # 0 /\ j.prev = "pending"
  <2>1. rows[j.row].obj = j.obj /\ j.obj # 0 /\ j.prev = "pending"
    BY <1>3 DEF JobTrue
  <2> QED BY <1>1, <1>3, <2>1 DEF Onward
<1>4. j.pc = "close" => Said(j.obj, "canceled", news')
  BY SaidStays DEF JobTrue
<1>5. ASSUME j.pc = "apply"
      PROVE  /\ rows'[j.row].obj = news'[j.ev].obj
             /\ j.prev # "pending" => rows'[j.row].status # "pending"
             /\ j.prev = "failed" => rows'[j.row].status = "failed"
  <2>1. j.ev \in DOMAIN news /\ rows[j.row].obj = news[j.ev].obj
        /\ (j.prev # "pending" => rows[j.row].status # "pending")
        /\ (j.prev = "failed" => rows[j.row].status = "failed")
    BY <1>5 DEF Holds, JobHolds, JobTrue
  <2>2. rows[j.row].obj # 0 /\ news'[j.ev] = news[j.ev]
    BY <2>1, Typed DEF Onward
  <2> QED BY <1>1, <1>5, <2>1, <2>2 DEF Onward
<1>6. j.pc = "import" => news'[j.ev].obj = j.obj
  BY DEF Holds, JobHolds, JobTrue, Onward
<1> QED BY <1>1, <1>2, <1>3, <1>4, <1>5, <1>6 DEF JobTrue

\* A row nobody writes stays true.
LEMMA RowStaysTrue ==
  ASSUME IInv, Onward, NEW i \in DOMAIN rows, rows'[i] = rows[i],
         RowTrue(rows[i], i, refunds, news)
  PROVE  RowTrue(rows'[i], i, refunds', news')
<1>1. rows[i].obj # 0 => refunds'[rows[i].obj].key = refunds[rows[i].obj].key
  BY Typed DEF Onward
<1> QED BY <1>1, SaidStays DEF RowTrue

\* A worker that has nothing to do says nothing.
LEMMA IdleTrue ==
  ASSUME NEW R, NEW F, NEW N PROVE JobTrue(Idle, R, F, N)
BY DEF Idle, JobTrue

\* A worker moves to a job that is true.
LEMMA MovesTruly ==
  ASSUME IInv, Truth, Onward, NEW w \in Workers, NEW j, Go(w, j),
         JobTrue(j, rows', refunds', news')
  PROVE  JobsTrue'
<1>1. job \in [Workers -> JobType] BY DEF IInv, Jobs
<1>2. \A x \in Workers : JobTrue(job[x], rows', refunds', news')
  BY ItHolds, JobStaysTrue DEF Truth, JobsTrue
<1>3. \A x \in Workers : job'[x] = IF x = w THEN j ELSE job[x]
  BY <1>1 DEF Go
<1>4. \A x \in Workers : JobTrue(job'[x], rows', refunds', news')
  BY <1>2, <1>3
<1> QED BY <1>4 DEF JobsTrue

\* A step that changes no row, refund or news takes nothing back.
LEMMA SameOnward ==
  ASSUME IInv, UNCHANGED <<rows, refunds, news>>, DOMAIN stored \subseteq DOMAIN stored'
  PROVE  Onward
BY DEF Onward, Grows

\* A step that only moves a worker, to a job that is true.
LEMMA QuietlyTrue ==
  ASSUME IInv, Truth, UNCHANGED <<rows, refunds, news>>,
         DOMAIN stored \subseteq DOMAIN stored',
         NEW w \in Workers, NEW j, Go(w, j), JobTrue(j, rows, refunds, news)
  PROVE  Truth'
<1>1. JobsTrue' BY SameOnward, MovesTruly
<1>2. Heard(refunds', news') /\ RowsTrue' BY DEF Truth, RowsTrue
<1> QED BY <1>1, <1>2 DEF Truth

\* The same, with nothing left to do.
LEMMA RestsTruly ==
  ASSUME IInv, Truth, UNCHANGED <<rows, refunds, news, stored>>, NEW w \in Workers, Finish(w)
  PROVE  Truth'
BY IdleTrue, QuietlyTrue DEF Finish

\* No event is of a refund with number 0, which is NULL in a row.
LEMMA NullUnsaid ==
  ASSUME IInv, NEW status PROVE ~Said(0, status, news)
BY Typed DEF Said

\* A request that resumes a merchant's row nobody answered read it pending or failed.
LEMMA ResumesTruly ==
  ASSUME IInv, Truth, NEW j \in JobType, NEW i \in DOMAIN rows,
         rows[i].ref # None, rows[i].obj = 0
  PROVE  JobTrue(Resumed(j, i), rows, refunds, news)
<1>1. rows[i].status \in Statuses /\ RowTrue(rows[i], i, refunds, news)
  BY Typed DEF RowType, Truth, RowsTrue
<1>2. rows[i].status \in {"pending", "failed"}
  BY <1>1, NullUnsaid DEF RowTrue, Statuses
<1>3. /\ Resumed(j, i).pc = "send" /\ Resumed(j, i).row = i
      /\ Resumed(j, i).prev = rows[i].status
  BY DEF Resumed, JobType
<1> QED BY <1>2, <1>3 DEF JobTrue

\* A worker writes one row, once and for all as far as its refund goes.
LEMMA RowWrittenTruly ==
  ASSUME IInv, Truth, Grows, NEW i \in DOMAIN rows, NEW r,
         rows' = [rows EXCEPT ![i] = r], UNCHANGED <<refunds, news>>,
         RowTrue(r, i, refunds, news),
         rows[i].obj # 0 => /\ r.obj = rows[i].obj
                            /\ rows[i].status # "pending" => r.status # "pending"
                            /\ rows[i].status = "failed" => r.status = "failed"
  PROVE  Onward /\ Heard(refunds', news') /\ RowsTrue'
<1>1. DOMAIN rows' = DOMAIN rows
      /\ \A k \in DOMAIN rows : rows'[k] = IF k = i THEN r ELSE rows[k]
  BY DEF IInv, Table
<1>2. Onward BY <1>1 DEF Onward
<1>3. RowsTrue' BY <1>1 DEF Truth, RowsTrue
<1> QED BY <1>2, <1>3 DEF Truth

\* What SetRow leaves in the row.
LEMMA SetRowIs ==
  ASSUME IInv, NEW i \in DOMAIN rows, NEW status, NEW o, NEW prev,
         SetRow(i, status, o, prev)
  PROVE  \E r : /\ rows' = [rows EXCEPT ![i] = r]
                /\ r.ref = rows[i].ref /\ r.status = status /\ r.obj = o
                /\ r.told = Told(i, status, prev)
<1> DEFINE x == [rows[i] EXCEPT !.status = status, !.obj = o,
                                !.told = Told(i, status, prev)]
<1>1. rows \in Seq(RowType) /\ rows[i] \in RowType BY Typed DEF IInv, Table
<1>2. rows' = [rows EXCEPT ![i] = x] BY <1>1 DEF SetRow, RowType
<1>3. /\ x.ref = rows[i].ref /\ x.status = status /\ x.obj = o
      /\ x.told = Told(i, status, prev)
  BY <1>1 DEF RowType
<1> HIDE DEF x
<1> QED BY <1>2, <1>3

\* A status is written that is true of the row's refund; the merchant is told,
\* unless the row had been read in that very status and never left it.
LEMMA StatusWrittenTruly ==
  ASSUME IInv, Truth, Grows, NEW i \in DOMAIN rows, NEW status \in Statuses, NEW o, NEW prev,
         SetRow(i, status, o, prev), UNCHANGED <<refunds, news>>,
         status \in {"succeeded", "canceled"} => Said(o, status, news),
         rows[i].ref # None /\ o # 0 => refunds[o].key = i,
         rows[i].ref = None => o # 0,
         (status = "failed" /\ rows[i].ref # None) \/ prev # status
           \/ rows[i].status = status,
         rows[i].obj # 0 => /\ o = rows[i].obj
                            /\ rows[i].status # "pending" => status # "pending"
                            /\ rows[i].status = "failed" => status = "failed"
  PROVE  Onward /\ Heard(refunds', news') /\ RowsTrue'
<1>1. PICK r : /\ rows' = [rows EXCEPT ![i] = r]
               /\ r.ref = rows[i].ref /\ r.status = status /\ r.obj = o
               /\ r.told = Told(i, status, prev)
  BY SetRowIs
<1>2. RowTrue(rows[i], i, refunds, news) BY DEF Truth, RowsTrue
<1>3. status # "failed" \/ rows[i].ref = None => Told(i, status, prev) = status
  BY <1>2 DEF Told, RowTrue
<1>4. RowTrue(r, i, refunds, news)
  BY <1>1, <1>3 DEF RowTrue
<1>5. rows[i].obj # 0 => /\ r.obj = rows[i].obj
                         /\ rows[i].status # "pending" => r.status # "pending"
                         /\ rows[i].status = "failed" => r.status = "failed"
  BY <1>1
<1> QED BY <1>1, <1>4, <1>5, RowWrittenTruly

\* A new row whose status is said of its refund.
LEMMA RowAddedTruly ==
  ASSUME IInv, Truth, Grows, NEW r, rows' = Append(rows, r), UNCHANGED <<refunds, news>>,
         RowTrue(r, Len(rows) + 1, refunds, news)
  PROVE  Onward /\ Heard(refunds', news') /\ RowsTrue'
<1>1. rows \in Seq(RowType) BY DEF IInv, Table
<1>2. /\ DOMAIN rows' = DOMAIN rows \cup {Len(rows) + 1}
      /\ \A k \in DOMAIN rows : rows'[k] = rows[k]
      /\ rows'[Len(rows) + 1] = r
  BY <1>1
<1>3. Onward BY <1>2 DEF Onward
<1>4. RowsTrue' BY <1>2 DEF Truth, RowsTrue
<1> QED BY <1>3, <1>4 DEF Truth

\* A refund that is made is announced with the status its key repeats.
LEMMA RefundMadeTruly ==
  ASSUME IInv, Truth, Grows, NEW key \in Nat, NEW amount \in Nat, NEW status \in Statuses,
         MakeRefund(key, amount, status), UNCHANGED rows
  PROVE  /\ Onward /\ Heard(refunds', news') /\ RowsTrue'
         /\ refunds'[Len(refunds) + 1].key = key
         /\ Said(Len(refunds) + 1, status, news')
<1> DEFINE o == Len(refunds) + 1
           f == [key |-> key, amount |-> amount, status |-> status, said |-> status]
           n == [obj |-> o, status |-> status]
<1>1. refunds \in Seq(RefundType) /\ news \in Seq(NewsType) /\ f \in RefundType
      /\ n \in NewsType
  BY DEF IInv, Acquirer, RefundType, NewsType
<1>2. refunds' = Append(refunds, f) /\ news' = Append(news, n)
  BY DEF MakeRefund, Announce
<1> HIDE DEF f, n
<1>3. /\ DOMAIN refunds' = DOMAIN refunds \cup {o} /\ refunds'[o] = f
      /\ \A k \in DOMAIN refunds : refunds'[k] = refunds[k]
  BY <1>1, <1>2, Appended
<1>4. /\ \A e \in DOMAIN news : news'[e] = news[e]
      /\ Len(news) + 1 \in DOMAIN news' /\ news'[Len(news) + 1] = n
  BY <1>1, <1>2, Appended
<1>5. Onward BY <1>3, <1>4 DEF Onward
<1>6. Said(o, status, news') BY <1>4 DEF Said, n
<1>7. Heard(refunds', news')
  <2>1. \A k \in DOMAIN refunds : Said(k, refunds[k].status, news')
                                  /\ Said(k, refunds[k].said, news')
    BY <1>5, SaidStays DEF Truth, Heard
  <2> QED BY <1>3, <1>6, <2>1 DEF Heard, f
<1>8. RowsTrue'
  BY <1>5, RowStaysTrue DEF Truth, RowsTrue
<1> QED BY <1>3, <1>5, <1>6, <1>7, <1>8 DEF f

\* A refund that moves is announced with its new status; its key repeats the old answer.
LEMMA RefundMovedTruly ==
  ASSUME IInv, Truth, Grows, NEW o \in DOMAIN refunds, NEW status \in Statuses,
         Becomes(o, status), UNCHANGED rows
  PROVE  Onward /\ Heard(refunds', news') /\ RowsTrue' /\ Said(o, status, news')
<1> DEFINE n == [obj |-> o, status |-> status]
<1>1. news \in Seq(NewsType) /\ n \in NewsType /\ refunds \in Seq(RefundType)
      /\ refunds[o] \in RefundType
  BY Typed DEF IInv, Acquirer, NewsType
<1>2. news' = Append(news, n) BY DEF Becomes, Announce
<1>3. /\ DOMAIN refunds' = DOMAIN refunds /\ refunds'[o].status = status
      /\ \A k \in DOMAIN refunds : /\ refunds'[k].key = refunds[k].key
                                   /\ refunds'[k].said = refunds[k].said
                                   /\ k # o => refunds'[k].status = refunds[k].status
  BY <1>1 DEF Becomes, RefundType
<1> HIDE DEF n
<1>4. /\ \A e \in DOMAIN news : news'[e] = news[e]
      /\ Len(news) + 1 \in DOMAIN news' /\ news'[Len(news) + 1] = n
  BY <1>1, <1>2, Appended
<1>5. Onward BY <1>3, <1>4 DEF Onward
<1>6. Said(o, status, news') BY <1>4 DEF Said, n
<1>7. Heard(refunds', news')
  <2>1. \A k \in DOMAIN refunds : Said(k, refunds[k].status, news')
                                  /\ Said(k, refunds[k].said, news')
    BY <1>5, SaidStays DEF Truth, Heard
  <2> QED BY <1>3, <1>6, <2>1 DEF Heard
<1>8. RowsTrue'
  BY <1>5, RowStaysTrue DEF Truth, RowsTrue
<1> QED BY <1>5, <1>6, <1>7, <1>8

\* A request resumes a row it found, or starts anew.
LEMMA RequestTrue ==
  ASSUME IInv, Truth, NEW w \in Workers, RequestRefund(w) PROVE Truth'
<1>1. PICK ref \in Refs, amount \in Amounts :
        LET j == [Idle EXCEPT !.pc = "check", !.ref = ref, !.amount = amount] IN
        \/ RowsOf(ref) = {} /\ Go(w, j)
        \/ \E i \in RowsOf(ref) : Interrupted(i) /\ Go(w, Resumed(j, i))
  BY DEF RequestRefund
<1> DEFINE j == [Idle EXCEPT !.pc = "check", !.ref = ref, !.amount = amount]
<1>2. j \in JobType /\ ref # None /\ JobTrue(j, rows, refunds, news)
  BY BudgetAssumption, IdleHolds DEF Idle, JobType, JobTrue, Pcs
<1>3. UNCHANGED <<rows, refunds, news, stored>>
  BY DEF RequestRefund, acquirer
<1> HIDE DEF j
<1>4. CASE Go(w, j) BY <1>2, <1>3, <1>4, QuietlyTrue
<1>5. CASE \E i \in RowsOf(ref) : Interrupted(i) /\ Go(w, Resumed(j, i))
  <2>1. PICK i \in RowsOf(ref) : Interrupted(i) /\ Go(w, Resumed(j, i)) BY <1>5
  <2>2. i \in DOMAIN rows /\ rows[i].ref # None /\ rows[i].obj = 0
    BY <1>2, <2>1 DEF RowsOf, Interrupted
  <2>3. JobTrue(Resumed(j, i), rows, refunds, news)
    BY <1>2, <2>2, ResumesTruly
  <2> QED BY <1>3, <2>1, <2>3, QuietlyTrue
<1> QED BY <1>1, <1>4, <1>5 DEF j

\* The check reads the balance and nothing else.
LEMMA CheckTrue ==
  ASSUME IInv, Truth, NEW w \in Workers, CheckRemaining(w) PROVE Truth'
<1>1. job[w] \in JobType BY ItHolds
<1>2. JobTrue([job[w] EXCEPT !.pc = "insert"], rows, refunds, news)
  BY <1>1 DEF JobType, JobTrue
<1>3. UNCHANGED <<rows, refunds, news, stored>>
  BY DEF CheckRemaining, acquirer
<1>4. Finish(w) \/ Go(w, [job[w] EXCEPT !.pc = "insert"]) BY DEF CheckRemaining
<1> QED BY <1>2, <1>3, <1>4, RestsTruly, QuietlyTrue

\* A row is made pending and said to be, or another one stands in its way.
LEMMA InsertTrue ==
  ASSUME IInv, Truth, NEW w \in Workers, InsertRow(w) PROVE Truth'
<1>1. job[w] \in JobType /\ job[w].ref # None
  BY ItHolds DEF InsertRow, At, Holds, JobHolds
<1>2. UNCHANGED <<refunds, news, stored>> BY DEF InsertRow, acquirer
<1>3. CASE /\ InsertRefund(job[w].ref, job[w].amount)
           /\ Go(w, [job[w] EXCEPT !.pc = "send", !.row = Len(rows) + 1,
                                   !.prev = "pending"])
  <2> DEFINE r == [ref |-> job[w].ref, amount |-> job[w].amount, status |-> "pending",
                   obj |-> 0, told |-> "pending"]
             j == [job[w] EXCEPT !.pc = "send", !.row = Len(rows) + 1, !.prev = "pending"]
  <2>1. rows \in Seq(RowType) /\ r \in RowType
    BY <1>1 DEF IInv, Table, RowType, JobType, Statuses
  <2>2. rows' = Append(rows, r) /\ RowsOf(r.ref) = {} /\ r.obj = 0
    BY <1>3 DEF InsertRefund
  <2>3. Grows
    BY <2>1, <2>2, RowAdded DEF InsertRow
  <2>4. RowTrue(r, Len(rows) + 1, refunds, news)
    BY <1>1 DEF RowTrue
  <2>5. rows'[Len(rows) + 1].ref # None
    BY <1>1, <2>1, <2>2, Appended
  <2>6. JobTrue(j, rows', refunds', news')
    BY <1>1, <2>5 DEF JobType, JobTrue
  <2> HIDE DEF r
  <2>7. Onward /\ Heard(refunds', news') /\ RowsTrue'
    BY <1>2, <2>2, <2>3, <2>4, RowAddedTruly
  <2>8. JobsTrue' BY <1>3, <2>6, <2>7, MovesTruly
  <2> QED BY <2>7, <2>8 DEF Truth
<1>4. CASE Go(w, [job[w] EXCEPT !.pc = "reread"]) /\ UNCHANGED rows
  <2>1. JobTrue([job[w] EXCEPT !.pc = "reread"], rows, refunds, news)
    BY <1>1 DEF JobType, JobTrue
  <2> QED BY <1>2, <1>4, <2>1, QuietlyTrue
<1> QED BY <1>3, <1>4 DEF InsertRow

\* The row of the request that won the index is resumed, or left.
LEMMA RereadTrue ==
  ASSUME IInv, Truth, NEW w \in Workers, RereadRow(w) PROVE Truth'
<1>1. job[w] \in JobType /\ job[w].ref # None
  BY ItHolds DEF RereadRow, At, Holds, JobHolds
<1>2. PICK i \in RowsOf(job[w].ref) :
        IF rows[i].obj # 0 THEN Finish(w) ELSE Go(w, Resumed(job[w], i))
  BY DEF RereadRow
<1>3. i \in DOMAIN rows /\ rows[i].ref # None BY <1>1 DEF RowsOf
<1>4. UNCHANGED <<rows, refunds, news, stored>> BY DEF RereadRow, acquirer
<1>5. CASE Finish(w) BY <1>4, <1>5, RestsTruly
<1>6. CASE rows[i].obj = 0 /\ Go(w, Resumed(job[w], i))
  <2>1. JobTrue(Resumed(job[w], i), rows, refunds, news)
    BY <1>1, <1>3, <1>6, ResumesTruly
  <2> QED BY <1>4, <1>6, <2>1, QuietlyTrue
<1> QED BY <1>2, <1>5, <1>6

\* The answer is of the refund the row's own key made, and was announced.
LEMMA SendTrue ==
  ASSUME IInv, Truth, NEW w \in Workers, SendRefund(w) PROVE Truth'
<1> DEFINE mine == {o \in DOMAIN refunds : refunds[o].key = job[w].row}
           told(o, res) == [job[w] EXCEPT !.pc = "record", !.obj = o, !.res = res]
           refused == [job[w] EXCEPT !.pc = "refuse"]
<1>1. /\ job[w] \in JobType /\ job[w].pc = "send" /\ job[w].row \in DOMAIN rows
      /\ rows[job[w].row].ref # None /\ job[w].prev \in {"pending", "failed"}
      /\ job[w].row \in Nat \ {0} /\ job[w].amount \in Nat
      /\ rows[job[w].row].amount = job[w].amount
  <2>1. job[w] \in JobType /\ Holds(job[w]) /\ job[w].pc = "send"
        /\ JobTrue(job[w], rows, refunds, news)
    BY ItHolds DEF SendRefund, At, Truth, JobsTrue
  <2>2. job[w].row \in DOMAIN rows /\ rows[job[w].row].amount = job[w].amount
    BY <2>1 DEF Holds, JobHolds, OnRow
  <2> QED BY <2>1, <2>2, Typed DEF JobTrue, JobType
<1>2. UNCHANGED <<rows, stored, processed, aborts>> BY DEF SendRefund
<1>3. ASSUME NEW status \in {"pending", "succeeded", "failed"}, mine = {},
             MakeRefund(job[w].row, job[w].amount, status),
             Go(w, told(Len(refunds) + 1, status)), UNCHANGED refusals
      PROVE  Truth'
  <2>1. /\ refusals' \in Nat /\ status \in Statuses
        /\ \A o \in DOMAIN refunds : refunds[o].key # job[w].row
    BY <1>3 DEF IInv, Acquirer, Statuses
  <2>2. Grows
    BY <1>1, <1>2, <1>3, <2>1, RefundMade
  <2>3. /\ Onward /\ Heard(refunds', news') /\ RowsTrue'
        /\ refunds'[Len(refunds) + 1].key = job[w].row
        /\ Said(Len(refunds) + 1, status, news')
    BY <1>1, <1>2, <1>3, <2>1, <2>2, RefundMadeTruly
  <2>4. JobTrue(told(Len(refunds) + 1, status), rows', refunds', news')
    BY <1>1, <1>2, <2>3 DEF JobTrue, JobType
  <2> HIDE DEF told
  <2>5. JobsTrue' BY <1>3, <2>3, <2>4, MovesTruly
  <2> QED BY <2>3, <2>5 DEF Truth
<1>4. ASSUME NEW o \in mine, Go(w, told(o, refunds[o].said)), UNCHANGED acquirer
      PROVE  Truth'
  <2>1. refunds[o].key = job[w].row /\ Said(o, refunds[o].said, news)
    BY DEF Truth, Heard
  <2>2. JobTrue(told(o, refunds[o].said), rows, refunds, news)
    BY <1>1, <2>1 DEF JobTrue, JobType
  <2> HIDE DEF told
  <2> QED BY <1>2, <1>4, <2>2, QuietlyTrue DEF acquirer
<1>5. JobTrue(refused, rows, refunds, news)
  BY <1>1 DEF JobTrue, JobType
<1>6. CASE Go(w, refused) /\ UNCHANGED <<refunds, news>>
  BY <1>2, <1>5, <1>6, QuietlyTrue
<1> QED BY <1>3, <1>4, <1>6 DEF SendRefund, acquirer

\* A worker writes a row it may write, and rests.
LEMMA WritesAndRests ==
  ASSUME IInv, Truth, Onward, Heard(refunds', news'), RowsTrue', NEW w \in Workers, Finish(w)
  PROVE  Truth'
<1>1. JobsTrue' BY IdleTrue, MovesTruly DEF Finish
<1> QED BY <1>1 DEF Truth

\* The acquirer's answer goes into the row whose key it answers.
LEMMA ResultTrue ==
  ASSUME IInv, Truth, NEW w \in Workers, RecordResult(w) PROVE Truth'
<1> DEFINE j == job[w]
           i == job[w].row
           o == job[w].obj
<1>1. /\ i \in DOMAIN rows /\ i # 0 /\ o \in DOMAIN refunds /\ o # 0
      /\ j.res \in Statuses /\ j.prev \in {"pending", "failed"}
      /\ rows[i].ref # None /\ refunds[o].key = i /\ Said(o, j.res, news)
  <2>1. j.pc = "record" /\ Holds(j) /\ JobTrue(j, rows, refunds, news)
    BY ItHolds DEF RecordResult, At, Truth, JobsTrue
  <2> QED BY <2>1, Typed DEF Holds, JobHolds, OnRow, JobTrue
<1>2. UNCHANGED <<refunds, news, stored, processed, aborts, acquirer>> /\ Finish(w)
  BY DEF RecordResult, acquirer
<1>3. rows[i].obj # 0 => rows[i].obj = o
  <2>1. RowTrue(rows[i], i, refunds, news) BY <1>1 DEF Truth, RowsTrue
  <2>2. rows[i].obj \in DOMAIN refunds \cup {0} BY <1>1, Typed
  <2>3. rows[i].obj # 0 => rows[i].obj \in Made /\ o \in Made
    BY <1>1, <2>1, <2>2 DEF RowTrue, Made
  <2> QED BY <1>1, <2>1, <2>3 DEF RowTrue, IInv, Acquirer
<1>4. rows[i].status \in Statuses /\ (rows[i].obj = 0 =>
        rows[i].status \notin {"succeeded", "canceled"})
  <2>1. RowTrue(rows[i], i, refunds, news) /\ rows[i] \in RowType
    BY <1>1, Typed DEF Truth, RowsTrue
  <2> QED BY <2>1, NullUnsaid DEF RowTrue, RowType
<1> HIDE DEF i, o, j
<1>5. CASE UNCHANGED rows
  BY <1>2, <1>5, RestsTruly
<1>6. CASE rows[i].obj = 0 /\ j.res = "succeeded" /\ SetRow(i, "succeeded", o, j.prev)
  <2>1. "succeeded" \in Statuses /\ j.prev # "succeeded" BY <1>1 DEF Statuses
  <2>2. Grows BY <1>1, <1>2, <1>6, <2>1, RowWritten
  <2>3. Onward /\ Heard(refunds', news') /\ RowsTrue'
    BY <1>1, <1>2, <1>6, <2>1, <2>2, StatusWrittenTruly
  <2> QED BY <1>2, <2>3, WritesAndRests
<1>7. CASE SetRow(i, "failed", o, j.prev)
  <2>1. "failed" \in Statuses BY DEF Statuses
  <2>2. Grows BY <1>1, <1>2, <1>7, <2>1, RowWritten
  <2>3. Onward /\ Heard(refunds', news') /\ RowsTrue'
    BY <1>1, <1>2, <1>3, <1>7, <2>1, <2>2, StatusWrittenTruly
  <2> QED BY <1>2, <2>3, WritesAndRests
<1>8. CASE rows[i].obj = 0 /\ rows' = [rows EXCEPT ![i].obj = o]
  <2>1. rows \in Seq(RowType) /\ rows[i] \in RowType
    BY <1>1, Typed DEF IInv, Table
  <2>2. SetRow(i, rows[i].status, o, rows[i].status)
    BY <1>1, <1>8, <2>1 DEF SetRow, Told, RowType
  <2>3. Grows BY <1>1, <1>2, <1>4, <2>2, RowWritten
  <2>4. Onward /\ Heard(refunds', news') /\ RowsTrue'
    BY <1>1, <1>2, <1>4, <1>8, <2>2, <2>3, StatusWrittenTruly
  <2> QED BY <1>2, <2>4, WritesAndRests
<1> QED BY <1>5, <1>6, <1>7, <1>8 DEF RecordResult, RecordAnswer, i, o, j

\* A refusal says "failed", which claims nothing of the acquirer.
LEMMA RefusalTrue ==
  ASSUME IInv, Truth, NEW w \in Workers, RecordRefusal(w) PROVE Truth'
<1> DEFINE i == job[w].row
           o == rows[job[w].row].obj
<1>1. i \in DOMAIN rows /\ rows[i].ref # None /\ o \in DOMAIN refunds \cup {0}
      /\ (o # 0 => refunds[o].key = i)
  <2>1. i \in DOMAIN rows /\ rows[i].ref # None
    BY ItHolds DEF RecordRefusal, At, Holds, JobHolds, OnRow, Truth, JobsTrue, JobTrue
  <2>2. RowTrue(rows[i], i, refunds, news) BY <2>1 DEF Truth, RowsTrue
  <2> QED BY <2>1, <2>2, Typed DEF RowTrue
<1>2. /\ UNCHANGED <<refunds, news, stored, processed, aborts, acquirer>> /\ Finish(w)
      /\ SetRow(i, "failed", o, job[w].prev)
  BY DEF RecordRefusal, acquirer
<1>3. "failed" \in Statuses BY DEF Statuses
<1>4. o = rows[i].obj OBVIOUS
<1> HIDE DEF i, o
<1>5. Grows BY <1>1, <1>2, <1>3, RowWritten
<1>6. Onward /\ Heard(refunds', news') /\ RowsTrue'
  BY <1>1, <1>2, <1>3, <1>4, <1>5, StatusWrittenTruly
<1> QED BY <1>2, <1>6, WritesAndRests

\* A cancel request is of the refund its row holds.
LEMMA RequestCancelTrue ==
  ASSUME IInv, Truth, NEW w \in Workers, RequestCancel(w) PROVE Truth'
<1>1. PICK i \in DOMAIN rows :
        /\ rows[i].obj # 0
        /\ Go(w, [Idle EXCEPT !.pc = "cancel", !.row = i, !.obj = rows[i].obj,
                              !.prev = "pending"])
  BY DEF RequestCancel
<1>2. JobTrue([Idle EXCEPT !.pc = "cancel", !.row = i, !.obj = rows[i].obj,
                           !.prev = "pending"], rows, refunds, news)
  BY <1>1 DEF JobTrue, Idle
<1> QED BY <1>1, <1>2, QuietlyTrue DEF RequestCancel, acquirer

\* A refund is closed after the acquirer announced that it canceled it.
LEMMA CancelTrue ==
  ASSUME IInv, Truth, NEW w \in Workers, CancelAtAcquirer(w) PROVE Truth'
<1> DEFINE j == [job[w] EXCEPT !.pc = "close"]
           o == job[w].obj
<1>1. /\ job[w] \in JobType /\ job[w].pc = "cancel" /\ o \in DOMAIN refunds
      /\ rows[job[w].row].obj = o /\ o # 0 /\ job[w].prev = "pending"
  <2>1. /\ job[w] \in JobType /\ job[w].pc = "cancel" /\ Holds(job[w])
        /\ JobTrue(job[w], rows, refunds, news)
    BY ItHolds DEF CancelAtAcquirer, At, Truth, JobsTrue
  <2> QED BY <2>1 DEF JobTrue, Holds, JobHolds
<1>2. UNCHANGED <<rows, stored, processed, aborts, refusals>> BY DEF CancelAtAcquirer
<1>3. /\ j.pc = "close" /\ j.obj = o /\ j.row = job[w].row /\ j.prev = "pending"
  BY <1>1 DEF JobType
<1> HIDE DEF j, o
<1>4. CASE Becomes(o, "canceled") /\ Go(w, j)
  <2>1. "canceled" \in Statuses BY DEF Statuses
  <2>2. Grows BY <1>1, <1>2, <1>4, <2>1, RefundMoved
  <2>3. Onward /\ Heard(refunds', news') /\ RowsTrue' /\ Said(o, "canceled", news')
    BY <1>1, <1>2, <1>4, <2>1, <2>2, RefundMovedTruly
  <2>4. JobTrue(j, rows', refunds', news')
    BY <1>1, <1>2, <1>3, <2>3 DEF JobTrue
  <2>5. JobsTrue' BY <1>4, <2>3, <2>4, MovesTruly
  <2> QED BY <2>3, <2>5 DEF Truth
<1>5. CASE refunds[o].status = "canceled" /\ Go(w, j) /\ UNCHANGED <<refunds, news>>
  <2>1. Said(o, "canceled", news) BY <1>1, <1>5 DEF Truth, Heard
  <2>2. JobTrue(j, rows, refunds, news) BY <1>1, <1>3, <2>1 DEF JobTrue
  <2> QED BY <1>2, <1>5, <2>2, QuietlyTrue
<1>6. CASE Finish(w) /\ UNCHANGED <<refunds, news>>
  BY <1>2, <1>6, RestsTruly
<1> QED BY <1>4, <1>5, <1>6 DEF CancelAtAcquirer, j, o

\* The row is closed as canceled while it is pending.
LEMMA CloseTrue ==
  ASSUME IInv, Truth, NEW w \in Workers, CloseRefund(w) PROVE Truth'
<1> DEFINE i == job[w].row
           o == rows[job[w].row].obj
<1>1. /\ i \in DOMAIN rows /\ o \in DOMAIN refunds \cup {0} /\ o # 0
      /\ Said(o, "canceled", news) /\ job[w].prev = "pending"
      /\ (rows[i].ref # None => refunds[o].key = i)
  <2>1. i \in DOMAIN rows /\ o # 0 /\ Said(o, "canceled", news) /\ job[w].prev = "pending"
    BY ItHolds DEF CloseRefund, At, Holds, JobHolds, OnRow, Truth, JobsTrue, JobTrue
  <2>2. RowTrue(rows[i], i, refunds, news) BY <2>1 DEF Truth, RowsTrue
  <2> QED BY <2>1, <2>2, Typed DEF RowTrue
<1>2. UNCHANGED <<refunds, news, stored, processed, aborts, acquirer>> /\ Finish(w)
  BY DEF CloseRefund, acquirer
<1>3. "canceled" \in Statuses BY DEF Statuses
<1>4. o = rows[i].obj OBVIOUS
<1> HIDE DEF i, o
<1>5. CASE UNCHANGED rows BY <1>2, <1>5, RestsTruly
<1>6. CASE rows[i].status = "pending" /\ SetRow(i, "canceled", o, job[w].prev)
  <2>1. Grows BY <1>1, <1>2, <1>3, <1>6, RowWritten
  <2>2. Onward /\ Heard(refunds', news') /\ RowsTrue'
    BY <1>1, <1>2, <1>3, <1>4, <1>6, <2>1, StatusWrittenTruly
  <2> QED BY <1>2, <2>2, WritesAndRests
<1> QED BY <1>5, <1>6 DEF CloseRefund, i, o

\* A pass begins with its batch.
LEMMA PassTrue ==
  ASSUME IInv, Truth, NEW w \in Workers, StartPass(w) PROVE Truth'
<1>1. PICK batch : Go(w, [Idle EXCEPT !.pc = "examine", !.batch = batch])
  BY DEF StartPass
<1>2. JobTrue([Idle EXCEPT !.pc = "examine", !.batch = batch], rows, refunds, news)
  BY DEF JobTrue, Idle
<1> QED BY <1>1, <1>2, QuietlyTrue DEF StartPass, acquirer

\* An event is taken to the row that holds its refund, or to be imported.
LEMMA ExamineTrue ==
  ASSUME IInv, Truth, NEW w \in Workers, ExamineEvent(w) PROVE Truth'
<1>1. job[w] \in JobType BY ItHolds
<1>2. PICK k \in job[w].batch :
        LET o == news[stored[k]].obj
            j == [job[w] EXCEPT !.ev = stored[k], !.batch = @ \ {k}]
        IN \/ Go(w, [j EXCEPT !.pc = "import", !.obj = o])
           \/ \E i \in RowsHolding(o) :
                Go(w, [j EXCEPT !.pc = "apply", !.row = i, !.prev = rows[i].status])
  BY ZenonT(60) DEF ExamineEvent
<1> DEFINE e == stored[k]
           o == news[e].obj
           j == [job[w] EXCEPT !.ev = e, !.batch = @ \ {k}]
           imports == [j EXCEPT !.pc = "import", !.obj = o]
           applies(i) == [j EXCEPT !.pc = "apply", !.row = i, !.prev = rows[i].status]
<1>3. UNCHANGED <<rows, refunds, news, stored>> BY DEF ExamineEvent, acquirer
<1>4. imports.pc = "import" /\ imports.obj = o /\ imports.ev = e
  BY <1>1 DEF JobType
<1>5. ASSUME NEW i
      PROVE  /\ applies(i).pc = "apply" /\ applies(i).row = i /\ applies(i).ev = e
             /\ applies(i).prev = rows[i].status
  BY <1>1 DEF JobType
<1>6. CASE Go(w, imports)
  <2> HIDE DEF imports
  <2>1. JobTrue(imports, rows, refunds, news) BY <1>4 DEF JobTrue
  <2> QED BY <1>3, <1>6, <2>1, QuietlyTrue
<1>7. CASE \E i \in RowsHolding(o) : Go(w, applies(i))
  <2>1. PICK i \in RowsHolding(o) : Go(w, applies(i)) BY <1>7
  <2>2. rows[i].obj = o BY DEF RowsHolding
  <2>3. JobTrue(applies(i), rows, refunds, news)
    <3> HIDE DEF applies
    <3> QED BY <1>5, <2>2 DEF JobTrue
  <2> HIDE DEF applies
  <2> QED BY <1>3, <2>1, <2>3, QuietlyTrue
<1> QED BY ZenonT(60), <1>2, <1>6, <1>7

\* An event says what it says.
LEMMA EventSays ==
  ASSUME IInv, NEW e \in DOMAIN news PROVE Said(news[e].obj, news[e].status, news)
<1>1. news[e] \in NewsType BY Typed
<1>2. news[e] = [obj |-> news[e].obj, status |-> news[e].status]
  BY <1>1 DEF NewsType
<1> QED BY <1>2 DEF Said

\* A job that only marks an event says nothing.
LEMMA MarkSays ==
  ASSUME NEW j \in JobType, NEW R, NEW F, NEW N
  PROVE  JobTrue([j EXCEPT !.pc = "mark"], R, F, N)
BY DEF JobType, JobTrue

\* An event is applied to the row of its refund, over the edges that exist.
LEMMA ApplyTrue ==
  ASSUME IInv, Truth, NEW w \in Workers, ApplyRefundState(w) PROVE Truth'
<1> DEFINE j == [job[w] EXCEPT !.pc = "mark"]
           i == job[w].row
           o == rows[job[w].row].obj
           status == news[job[w].ev].status
           prev == job[w].prev
<1>1. /\ job[w] \in JobType /\ i \in DOMAIN rows /\ job[w].ev \in DOMAIN news
      /\ o = news[job[w].ev].obj
      /\ (prev # "pending" => rows[i].status # "pending")
      /\ (prev = "failed" => rows[i].status = "failed")
  BY ItHolds DEF ApplyRefundState, At, Holds, JobHolds, OnRow, Truth, JobsTrue, JobTrue
<1>2. /\ o \in DOMAIN refunds /\ o # 0 /\ status \in Statuses /\ Said(o, status, news)
      /\ (rows[i].ref # None => refunds[o].key = i)
  <2>1. RowTrue(rows[i], i, refunds, news) BY <1>1 DEF Truth, RowsTrue
  <2>2. news[job[w].ev] \in NewsType BY <1>1, Typed
  <2> QED BY <1>1, <2>1, <2>2, EventSays, Typed DEF RowTrue, NewsType
<1>3. UNCHANGED <<refunds, news, stored, processed, aborts, acquirer>> /\ Go(w, j)
  BY DEF ApplyRefundState, acquirer
<1>4. JobTrue(j, rows', refunds', news') BY <1>1, MarkSays
<1>5. o = rows[i].obj OBVIOUS
<1> HIDE DEF i, o, j, status, prev
<1>6. CASE UNCHANGED rows
  <2>1. JobTrue(j, rows, refunds, news) BY <1>3, <1>4, <1>6
  <2> QED BY <1>3, <1>6, <2>1, QuietlyTrue
<1>7. CASE Applies(i, status) /\ SetRow(i, status, o, prev)
  <2>1. Grows BY <1>1, <1>2, <1>3, <1>7, RowWritten
  <2>2. (status = "failed" /\ rows[i].ref # None) \/ prev # status \/ rows[i].status = status
    BY <1>1, <1>7 DEF Applies
  <2>3. rows[i].obj # 0 => /\ o = rows[i].obj
                           /\ rows[i].status # "pending" => status # "pending"
                           /\ rows[i].status = "failed" => status = "failed"
    BY <1>5, <1>7 DEF Applies
  <2>4. Onward /\ Heard(refunds', news') /\ RowsTrue'
    BY <1>1, <1>2, <1>3, <1>7, <2>1, <2>2, <2>3, StatusWrittenTruly
  <2>5. JobsTrue' BY <1>3, <1>4, <2>4, MovesTruly
  <2> QED BY <2>4, <2>5 DEF Truth
<1> QED BY <1>6, <1>7 DEF ApplyRefundState, i, o, status, prev

\* A row is made for a refund no row holds, with the status its event says.
LEMMA ImportTrue ==
  ASSUME IInv, Truth, NEW w \in Workers, ImportProviderRefund(w) PROVE Truth'
<1> DEFINE j == [job[w] EXCEPT !.pc = "mark"]
           o == job[w].obj
           status == news[job[w].ev].status
           r == [ref |-> None, amount |-> refunds[job[w].obj].amount, status |-> status,
                 obj |-> job[w].obj, told |-> status]
<1>1. /\ job[w] \in JobType /\ job[w].ev \in DOMAIN news
      /\ o \in DOMAIN refunds /\ o # 0 /\ news[job[w].ev].obj = o
  <2>1. /\ job[w] \in JobType /\ job[w].ev \in DOMAIN news
        /\ o \in DOMAIN refunds /\ news[job[w].ev].obj = o
    BY ItHolds DEF ImportProviderRefund, At, Holds, JobHolds, Truth, JobsTrue, JobTrue
  <2> QED BY <2>1, Typed
<1>2. status \in Statuses /\ Said(o, status, news)
  <2>1. news[job[w].ev] \in NewsType BY <1>1, Typed
  <2> QED BY <1>1, <2>1, EventSays DEF NewsType
<1>3. UNCHANGED <<refunds, news, stored, processed, aborts, acquirer>> /\ Go(w, j)
  BY DEF ImportProviderRefund, acquirer
<1>4. JobTrue(j, rows', refunds', news') BY <1>1, MarkSays
<1>5. r \in RowType /\ r.ref = None /\ r.obj = o
  BY <1>1, <1>2, Typed DEF RowType, RefundType
<1>6. RowTrue(r, Len(rows) + 1, refunds, news) BY <1>1, <1>2 DEF RowTrue
<1> HIDE DEF r, j
<1>7. CASE UNCHANGED rows
  <2>1. JobTrue(j, rows, refunds, news) BY <1>3, <1>4, <1>7
  <2> QED BY <1>3, <1>7, <2>1, QuietlyTrue
<1>8. CASE rows' = Append(rows, r)
  <2>1. Grows BY <1>1, <1>3, <1>5, <1>8, RowAdded
  <2>2. Onward /\ Heard(refunds', news') /\ RowsTrue'
    BY <1>3, <1>6, <1>8, <2>1, RowAddedTruly
  <2>3. JobsTrue' BY <1>3, <1>4, <2>2, MovesTruly
  <2> QED BY <2>2, <2>3 DEF Truth
<1> QED BY <1>7, <1>8 DEF ImportProviderRefund, r

\* An event is marked and the batch goes on.
LEMMA MarkTrue ==
  ASSUME IInv, Truth, NEW w \in Workers, MarkProcessed(w) PROVE Truth'
<1>1. JobTrue([Idle EXCEPT !.pc = "examine", !.batch = job[w].batch], rows, refunds, news)
  BY DEF JobTrue, Idle
<1>2. UNCHANGED <<rows, refunds, news, stored>> BY DEF MarkProcessed, acquirer
<1>3. Finish(w) \/ Go(w, [Idle EXCEPT !.pc = "examine", !.batch = job[w].batch])
  BY DEF MarkProcessed
<1> QED BY <1>1, <1>2, <1>3, RestsTruly, QuietlyTrue

\* The acquirer moves a refund, makes one of its own, and its events arrive.
LEMMA OthersTrue ==
  ASSUME IInv, Truth, AcquirerMoves \/ RefundOutside \/ IngestEvent PROVE Truth'
<1>1. UNCHANGED <<rows, job>> BY DEF AcquirerMoves, RefundOutside, IngestEvent
<1>2. ASSUME AcquirerMoves PROVE Onward /\ Heard(refunds', news') /\ RowsTrue'
  <2>1. PICK o \in DOMAIN refunds, status \in Statuses : Becomes(o, status)
    BY <1>2 DEF AcquirerMoves
  <2>2. UNCHANGED <<rows, stored, processed, aborts, refusals>>
    BY <1>2 DEF AcquirerMoves
  <2>3. Grows BY <2>1, <2>2, RefundMoved
  <2> QED BY <1>1, <2>1, <2>3, RefundMovedTruly
<1>3. ASSUME RefundOutside PROVE Onward /\ Heard(refunds', news') /\ RowsTrue'
  <2>1. PICK amount \in OutsideAmounts, status \in {"pending", "succeeded"} :
          MakeRefund(0, amount, status)
    BY <1>3 DEF RefundOutside
  <2>2. amount \in Nat /\ status \in Statuses /\ refusals' \in Nat
    BY <1>3, BudgetAssumption DEF Statuses, RefundOutside, IInv, Acquirer
  <2>3. UNCHANGED <<rows, stored, processed, aborts>> BY <1>3 DEF RefundOutside
  <2>4. Grows BY <2>1, <2>2, <2>3, RefundMade
  <2> QED BY <1>1, <2>1, <2>2, <2>4, RefundMadeTruly
<1>4. ASSUME IngestEvent PROVE Onward /\ Heard(refunds', news') /\ RowsTrue'
  <2>1. PICK e \in DOMAIN news : stored' = Append(stored, e) BY <1>4 DEF IngestEvent
  <2>2. DOMAIN stored \subseteq DOMAIN stored'
    BY <2>1, Appended DEF IInv, Inbox
  <2>3. UNCHANGED <<rows, refunds, news>> BY <1>4 DEF IngestEvent, acquirer
  <2>4. Onward BY <2>2, <2>3, SameOnward
  <2>5. Heard(refunds', news') /\ RowsTrue' BY <2>3 DEF Truth, RowsTrue
  <2> QED BY <2>4, <2>5
<1>5. Onward /\ Heard(refunds', news') /\ RowsTrue'
  BY <1>2, <1>3, <1>4
<1>6. \A w \in Workers : JobTrue(job[w], rows', refunds', news')
  BY <1>5, ItHolds, JobStaysTrue DEF Truth, JobsTrue
<1>7. JobsTrue' BY <1>1, <1>6 DEF JobsTrue
<1> QED BY <1>5, <1>7 DEF Truth

\* Nothing is said at first.
LEMMA InitTrue == ASSUME Init PROVE Truth
<1>1. Heard(refunds, news) /\ RowsTrue BY DEF Init, Heard, RowsTrue
<1>2. JobsTrue BY IdleTrue DEF Init, JobsTrue
<1> QED BY <1>1, <1>2 DEF Truth

\* Every step keeps what rows and workers say true.
LEMMA TruthKept == ASSUME IInv, Truth, [Next]_vars PROVE Truth'
<1>1. ASSUME NEW w \in Workers, Abort(w) PROVE Truth'
  BY <1>1, RestsTruly DEF Abort, acquirer
<1>2. ASSUME NEW w \in Workers, Step(w) PROVE Truth'
  BY <1>1, <1>2, RequestTrue, CheckTrue, InsertTrue, RereadTrue, SendTrue, ResultTrue,
     RefusalTrue, RequestCancelTrue, CancelTrue, CloseTrue, PassTrue, ExamineTrue,
     ApplyTrue, ImportTrue, MarkTrue DEF Step
<1>3. CASE UNCHANGED vars
  BY <1>3 DEF vars, acquirer, Truth, RowsTrue, JobsTrue
<1> QED BY <1>2, <1>3, OthersTrue DEF Next

\* In every reachable state each row and each worker speaks truly.
THEOREM TruthHolds == Spec => []Truth
<1>1. IInv /\ Truth /\ [Next]_vars => Truth' BY TruthKept
<1> QED BY <1>1, InitTrue, Invariance, PTL DEF Spec

\* A row says "succeeded" or "canceled" only of a refund the acquirer said that of,
\* whichever answer, event or cancellation wrote it and however old it was by then.
THEOREM EndsWereAnnounced == Spec => []EndsAsAnnounced
<1>1. Truth => EndsAsAnnounced
  BY DEF Truth, RowsTrue, RowTrue, Said, EndsAsAnnounced
<1> QED BY <1>1, TruthHolds, PTL

\* The last refund.* event of a row tells what the row says, although emitRefundEvents
\* compares with a status that was read before the write.
THEOREM LastWasTold == Spec => []ToldAsRow
<1>1. Truth => ToldAsRow
  BY DEF Truth, RowsTrue, RowTrue, ToldAsRow
<1> QED BY <1>1, TruthHolds, PTL
=============================================================================
