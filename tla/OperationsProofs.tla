--------------------------- MODULE OperationsProofs ---------------------------
(***************************************************************************)
(* Theorems about parts of the server that share no state with each other: *)
(* the database file and its restore, the search for a location, the mail  *)
(* outbox, the IP access policy, certificate renewal and the client's      *)
(* files.  Each part has a specification of its own.                       *)
(***************************************************************************)
EXTENDS Notifications, SourceFiles, IpAccess, GeoLookup, DatabaseFiles, Acme, FunctionTheorems,
        SumProofs, TLAPS

DatabaseSpec      == DatabaseInit /\ [][DatabaseNext]_dvars
GeoSpec           == GeoInit /\ [][GeoNext]_gvars
NotificationsSpec == NotificationsInit /\ [][NotificationsNext]_nvars
IpAccessSpec      == IpAccessInit /\ [][IpAccessNext]_ivars
SourceFilesSpec   == SourceFilesInit /\ [][SourceFilesNext]_svars

-----------------------------------------------------------------------------
(* The database file.  A log without its database is one that a restore     *)
(* left when it was killed between its renames.                             *)

DatabaseInv ==
    /\ db \in Nat /\ wal \in [of : Nat, to : Nat] /\ version \in Nat
    /\ restore \in {"none", "staged", "retained", "moved", "ready"}
    /\ serving => restore = "none" /\ db # Nothing
    /\ restore = "retained" => db # Nothing
    /\ restore \in {"moved", "ready"} => db = Nothing
    /\ restore = "ready" => wal = NoLog
    /\ (db = Nothing /\ restore \in {"none", "staged"}) => wal = NoLog \/ torn
    /\ wal # NoLog => wal.to # Nothing
    /\ owed \subseteq kept
    /\ (db # Nothing /\ wal # NoLog /\ ~torn) => wal.of = db

LEMMA DatabaseStep == DatabaseInv /\ [DatabaseNext]_dvars => DatabaseInv'
  <1> SUFFICES ASSUME DatabaseInv, [DatabaseNext]_dvars PROVE DatabaseInv'
    OBVIOUS
  <1> USE DEF DatabaseInv, Nothing, Empty, Backup, NoLog
  <1>1. CASE ServerStarts
    BY <1>1 DEF ServerStarts
  <1>2. CASE Commits
    BY <1>2 DEF Commits
  <1>3. CASE Checkpoint
    BY <1>3 DEF Checkpoint
  <1>4. CASE ServerStops
    BY <1>4 DEF ServerStops, Shown
  <1>5. CASE ServerKilled
    BY <1>5 DEF ServerKilled
  <1>6. CASE Stage
    BY <1>6 DEF Stage
  <1>7. ASSUME NEW closed \in BOOLEAN, RetainLogical(closed) PROVE DatabaseInv'
    BY <1>7 DEF RetainLogical, Shown
  <1>8. CASE MoveDatabase
    BY <1>8 DEF MoveDatabase
  <1>9. CASE MoveSidecars
    BY <1>9 DEF MoveSidecars
  <1>10. CASE Activate
    BY <1>10 DEF Activate
  <1>11. CASE RestoreKilled
    BY <1>11 DEF RestoreKilled
  <1>12. CASE UNCHANGED dvars
    BY <1>12 DEF dvars
  <1> QED
    BY <1>1, <1>2, <1>3, <1>4, <1>5, <1>6, <1>7, <1>8, <1>9, <1>10, <1>11, <1>12 DEF DatabaseNext

\* Wherever a restore or the server is killed, what the restore replaces is
\* kept, and a log lies beside its own database unless a restore was killed
\* between its two renames.
THEOREM RestoreKeepsData == DatabaseSpec => []RestoreSafe
  <1>1. DatabaseInit => DatabaseInv
    BY DEF DatabaseInit, DatabaseInv, Nothing, Empty, NoLog
  <1>2. DatabaseInv => RestoreSafe
    BY DEF DatabaseInv, RestoreSafe
  <1> QED
    BY <1>1, <1>2, DatabaseStep, PTL DEF DatabaseSpec

-----------------------------------------------------------------------------
(* The search for a location. *)

\* Of two records, the first ends before the second begins.
LEMMA InOrderOfIndex ==
    ASSUME NEW n \in Nat, NEW f \in [1..n -> Segment], Ascending(f),
           NEW i \in 1..n, NEW j \in 1..n, i < j
    PROVE  f[i].hi < f[j].lo
  <1> DEFINE S == {d \in Nat : i + 1 + d \in 1..n => f[i].hi < f[i + 1 + d].lo}
  <1>0. \A k \in 1..n : f[k].lo \in Int /\ f[k].hi \in Int /\ f[k].lo <= f[k].hi
    BY GeoLookupAssumption DEF Segment
  <1>a. \A k \in 1..n : k + 1 \in 1..n => f[k].hi < f[k + 1].lo
    BY DEF Ascending
  <1>1. 0 \in S
    BY <1>a
  <1>2. ASSUME NEW d \in S PROVE d + 1 \in S
    <2>1. SUFFICES ASSUME i + 1 + (d + 1) \in 1..n PROVE f[i].hi < f[i + 1 + (d + 1)].lo
      OBVIOUS
    <2>2. i + 1 + d \in 1..n /\ i + 1 + (d + 1) = (i + 1 + d) + 1
      BY <1>2, <2>1
    <2>3. f[i].hi < f[i + 1 + d].lo
      BY <1>2, <2>2
    <2>4. f[i + 1 + d].hi < f[(i + 1 + d) + 1].lo
      BY <1>a, <2>1, <2>2
    <2> QED
      BY <1>0, <2>1, <2>2, <2>3, <2>4
  <1> HIDE DEF S
  <1>3. S \in SUBSET Nat
    BY DEF S
  <1>4. S = Nat
    BY <1>1, <1>2, <1>3, NatSets
  <1>5. j - i - 1 \in S
    BY <1>4
  <1> QED
    BY <1>5 DEF S

Covering(i) == xdb[i].lo <= ip /\ ip <= xdb[i].hi

GeoFile ==
    /\ \E n \in Nat : xdb \in [1..n -> Segment]
    /\ Ascending(xdb)
    /\ block \in [first : 1..Len(xdb), n : 0..Len(xdb)] /\ block.first + block.n - 1 <= Len(xdb)
    /\ ip \in Nat

GeoRange ==
    /\ left \in Nat /\ right \in 0..block.n /\ left <= right + 1 /\ found \in Nat
    /\ found # 0 => ended /\ Covering(found)

(* What is sought lies between left and right. *)
Sought(m) == Covering(block.first + m) => IF ended THEN found # 0 ELSE left <= m /\ m <= right

GeoInv == GeoFile /\ GeoRange /\ \A m \in 0..block.n - 1 : Sought(m)

LEMMA GeoStep == GeoInv /\ [GeoNext]_gvars => GeoInv'
  <1> SUFFICES ASSUME GeoInv, [GeoNext]_gvars PROVE GeoInv'
    OBVIOUS
  <1>0. PICK n \in Nat : xdb \in [1..n -> Segment]
    BY DEF GeoInv, GeoFile
  <1>1. Len(xdb) = n /\ DOMAIN xdb = 1..n
    BY <1>0
  <1>2. \A k \in 1..n : xdb[k].lo \in Nat /\ xdb[k].hi \in Nat /\ xdb[k].lo <= xdb[k].hi
    BY <1>0, GeoLookupAssumption DEF Segment
  <1>3. \A i, j \in 1..n : i < j => xdb[i].hi < xdb[j].lo
    BY <1>0, InOrderOfIndex DEF GeoInv, GeoFile
  <1>4. block.first \in 1..n /\ block.n \in 0..n /\ block.first + block.n - 1 <= n
    BY <1>1 DEF GeoInv, GeoFile
  <1>5. /\ ip \in Nat /\ left \in Nat /\ right \in 0..block.n /\ left <= right + 1
        /\ found \in Nat /\ (found # 0 => ended)
    BY DEF GeoInv, GeoFile, GeoRange
  <1>6. left <= right => Mid \in Nat /\ left <= Mid /\ Mid <= right
    BY <1>5 DEF Mid
  <1>7. (left <= right /\ Mid >= block.n) => left >= block.n
    BY <1>4, <1>5 DEF Mid
  <1>8. UNCHANGED <<xdb, block, ip>> /\ GeoFile'
    BY DEF GeoInv, GeoFile, GeoNext, SearchEnds, OutsideFile, GoLower, GoUpper, Hit, gvars
  <1>9. ASSUME NEW m \in 0..block.n - 1 PROVE block.first + m \in 1..n
    BY <1>4
  <1>10. ASSUME NEW m \in 0..block.n - 1 PROVE Sought(m)
    BY DEF GeoInv
  <1>11. CASE SearchEnds
    <2>1. ~ended /\ left > right /\ ended' = TRUE /\ UNCHANGED <<left, right, found>>
      BY <1>11 DEF SearchEnds
    <2>2. ASSUME NEW m \in 0..block.n - 1 PROVE Sought(m)'
      BY <1>5, <1>8, <1>10, <2>1 DEF Sought, Covering
    <2>3. GeoRange'
      BY <1>5, <1>8, <2>1 DEF GeoRange
    <2> QED
      BY <1>8, <2>2, <2>3 DEF GeoInv
  <1>12. CASE OutsideFile
    <2>1. /\ ~ended /\ left <= right /\ At(Mid) > n /\ ended' = TRUE
          /\ UNCHANGED <<left, right, found>>
      BY <1>1, <1>12 DEF OutsideFile
    <2>2. left >= block.n
      BY <1>4, <1>6, <1>7, <2>1 DEF At
    <2>3. ASSUME NEW m \in 0..block.n - 1 PROVE Sought(m)'
      BY <1>4, <1>5, <1>8, <1>10, <2>1, <2>2 DEF Sought, Covering
    <2>4. GeoRange'
      BY <1>5, <1>8, <2>1 DEF GeoRange
    <2> QED
      BY <1>8, <2>3, <2>4 DEF GeoInv
  <1>13. CASE GoLower
    <2>a. PICK a : a = Mid
      OBVIOUS
    <2>1. /\ ~ended /\ a \in Nat /\ left <= a /\ a <= right
          /\ block.first + a \in 1..n /\ ip < xdb[block.first + a].lo
      BY <1>1, <1>4, <1>6, <1>13, <2>a DEF GoLower, At
    <2>2. ASSUME NEW m \in 0..block.n - 1, Covering(block.first + m) PROVE m < a
      <3>1. xdb[block.first + m].lo <= ip
        BY <2>2 DEF Covering
      <3>2. m # a
        BY <1>2, <1>5, <1>9, <2>1, <3>1
      <3>3. a < m => xdb[block.first + a].hi < xdb[block.first + m].lo
        BY <1>3, <1>4, <1>9, <2>1
      <3>4. ~(a < m)
        BY <1>2, <1>5, <1>9, <2>1, <3>1, <3>3
      <3> QED
        BY <2>1, <3>2, <3>4
    <2>3. /\ UNCHANGED <<left, found>>
          /\ \/ a = 0 /\ ended' = TRUE /\ UNCHANGED right
             \/ a # 0 /\ right' = a - 1 /\ UNCHANGED ended
      BY <1>13, <2>a DEF GoLower
    <2>4. ASSUME NEW m \in 0..block.n - 1 PROVE Sought(m)'
      <3>1. Covering(block.first + m)' <=> Covering(block.first + m)
        BY <1>8 DEF Covering
      <3> QED
        BY <1>5, <1>8, <1>10, <2>1, <2>2, <2>3, <3>1 DEF Sought
    <2>5. GeoRange'
      BY <1>4, <1>5, <1>8, <2>1, <2>3 DEF GeoRange
    <2> QED
      BY <1>8, <2>4, <2>5 DEF GeoInv
  <1>14. CASE GoUpper
    <2>a. PICK a : a = Mid
      OBVIOUS
    <2>1. /\ ~ended /\ a \in Nat /\ left <= a /\ a <= right
          /\ block.first + a \in 1..n /\ ip > xdb[block.first + a].hi
      BY <1>1, <1>4, <1>6, <1>14, <2>a DEF GoUpper, At
    <2>2. ASSUME NEW m \in 0..block.n - 1, Covering(block.first + m) PROVE m > a
      <3>1. ip <= xdb[block.first + m].hi
        BY <2>2 DEF Covering
      <3>2. m # a
        BY <1>2, <1>5, <1>9, <2>1, <3>1
      <3>3. m < a => xdb[block.first + m].hi < xdb[block.first + a].lo
        BY <1>3, <1>4, <1>9, <2>1
      <3>4. ~(m < a)
        BY <1>2, <1>5, <1>9, <2>1, <3>1, <3>3
      <3> QED
        BY <2>1, <3>2, <3>4
    <2>3. UNCHANGED <<right, found, ended>> /\ left' = a + 1
      BY <1>14, <2>a DEF GoUpper
    <2>4. ASSUME NEW m \in 0..block.n - 1 PROVE Sought(m)'
      <3>1. Covering(block.first + m)' <=> Covering(block.first + m)
        BY <1>8 DEF Covering
      <3> QED
        BY <1>5, <1>8, <1>10, <2>1, <2>2, <2>3, <3>1 DEF Sought
    <2>5. GeoRange'
      BY <1>4, <1>5, <1>8, <2>1, <2>3 DEF GeoRange
    <2> QED
      BY <1>8, <2>4, <2>5 DEF GeoInv
  <1>15. CASE Hit
    <2>a. PICK a : a = At(Mid)
      OBVIOUS
    <2>1. /\ a \in 1..n /\ Covering(a) /\ found' = a /\ ended' = TRUE
          /\ UNCHANGED <<left, right>>
      BY <1>1, <1>4, <1>6, <1>15, <2>a DEF Hit, At, Covering
    <2>2. Covering(a)'
      BY <1>8, <2>1 DEF Covering
    <2>3. GeoRange'
      BY <1>5, <1>8, <2>1, <2>2 DEF GeoRange
    <2>4. ASSUME NEW m \in 0..block.n - 1 PROVE Sought(m)'
      BY <2>1 DEF Sought
    <2> QED
      BY <1>8, <2>3, <2>4 DEF GeoInv
  <1>16. CASE UNCHANGED gvars
    BY <1>16 DEF gvars, GeoInv, GeoFile, GeoRange, Sought, Covering
  <1> QED
    BY <1>11, <1>12, <1>13, <1>14, <1>15, <1>16 DEF GeoNext

LEMMA GeoStart == GeoInit => GeoInv
  <1> SUFFICES ASSUME GeoInit PROVE GeoInv
    OBVIOUS
  <1>1. PICK n \in 1..MaxRecords : xdb \in [1..n -> Segment]
    BY DEF GeoInit
  <1>2. n \in Nat /\ Len(xdb) = n /\ DOMAIN xdb = 1..n
    BY <1>1, GeoLookupAssumption
  <1>3. block \in [first : 1..n, n : 0..n] /\ block.first + block.n - 1 <= n
    BY <1>2 DEF GeoInit
  <1> QED
    BY <1>1, <1>2, <1>3, GeoLookupAssumption DEF GeoInit, GeoInv, GeoFile, GeoRange, Sought, LastMid

\* For files of any size, the search finds the record of the block that covers
\* the address, although it starts with one record too many.
THEOREM SearchIsComplete == GeoSpec => []LookupFinds
  <1>1. GeoInv => LookupFinds
    <2> SUFFICES ASSUME GeoInv PROVE LookupFinds
      OBVIOUS
    <2>1. found # 0 => xdb[found].lo <= ip /\ ip <= xdb[found].hi
      BY DEF GeoInv, GeoRange, Covering
    <2>2. ASSUME ended, found = 0, NEW i \in block.first..(block.first + block.n - 1)
          PROVE  ~(xdb[i].lo <= ip /\ ip <= xdb[i].hi)
      <3>1. block.first \in Int /\ block.n \in Int
        BY DEF GeoInv, GeoFile
      <3>2. i - block.first \in 0..block.n - 1 /\ block.first + (i - block.first) = i
        BY <3>1
      <3> QED
        BY <2>2, <3>2 DEF GeoInv, Sought, Covering
    <2> QED
      BY <2>1, <2>2 DEF LookupFinds
  <1> QED
    BY <1>1, GeoStart, GeoStep, PTL DEF GeoSpec

-----------------------------------------------------------------------------
(* The outbox.  What the task read and what it is sending is still as it    *)
(* was read, so a mark adds to the count that is in the table.              *)

Mail == [status : {"pending", "sent", "failed"}, attempts : Nat, due : BOOLEAN]

AsRead(x) ==
    /\ x.id \in 1..Len(outbox) /\ outbox[x.id].status = "pending"
    /\ outbox[x.id].attempts = x.attempts

Counted(m) ==
    /\ sends[m] = outbox[m].attempts + lost[m] + (IF outbox[m].status = "sent" THEN 1 ELSE 0)
                    + (IF sending.id = m THEN 1 ELSE 0)
    /\ outbox[m].attempts <= AttemptLimit
    /\ outbox[m].status = "failed" <=> outbox[m].attempts = AttemptLimit

Tables ==
    /\ outbox \in Seq(Mail) /\ sends \in Seq(Nat) /\ lost \in Seq(Nat)
    /\ Len(sends) = Len(outbox) /\ Len(lost) = Len(outbox)
    /\ sending \in [id : Nat, ok : BOOLEAN, attempts : Nat]
    /\ batch \in SUBSET [id : Nat, attempts : Nat]

OutboxInv ==
    /\ Tables
    /\ IF sending.id = 0 THEN sending = NoSending ELSE AsRead(sending)
    /\ \A x \in batch : AsRead(x) /\ x.id # sending.id
    /\ \A m \in 1..Len(outbox) : Counted(m)

LEMMA OutboxIdle ==
    ASSUME OutboxInv, UNCHANGED <<outbox, batch, sending, sends, lost>>
    PROVE  OutboxInv'
  BY DEF OutboxInv, Tables, AsRead, Counted

LEMMA OutboxGrows ==
    ASSUME OutboxInv, Enqueued, UNCHANGED <<batch, sending>>
    PROVE  OutboxInv'
  <1>r. PICK r : r = [status |-> "pending", attempts |-> 0, due |-> TRUE]
    OBVIOUS
  <1>1. r \in Mail /\ r.status = "pending" /\ r.attempts = 0
    BY <1>r DEF Mail
  <1>2. /\ outbox \in Seq(Mail) /\ sends \in Seq(Nat) /\ lost \in Seq(Nat)
        /\ Len(sends) = Len(outbox) /\ Len(lost) = Len(outbox)
    BY DEF OutboxInv, Tables
  <1>3. /\ outbox' = Append(outbox, r) /\ sends' = Append(sends, 0) /\ lost' = Append(lost, 0)
    BY <1>r DEF Enqueued
  <1>4. /\ Len(outbox') = Len(outbox) + 1 /\ outbox'[Len(outbox) + 1] = r
        /\ sends'[Len(outbox) + 1] = 0 /\ lost'[Len(outbox) + 1] = 0
        /\ \A m \in 1..Len(outbox) :
              outbox'[m] = outbox[m] /\ sends'[m] = sends[m] /\ lost'[m] = lost[m]
    BY <1>1, <1>2, <1>3
  <1>5. Tables'
    BY <1>1, <1>2, <1>3 DEF OutboxInv, Tables
  <1>6. ASSUME NEW x, AsRead(x) PROVE AsRead(x)'
    BY <1>2, <1>4, <1>6 DEF AsRead
  <1>7. ASSUME NEW m \in 1..Len(outbox') PROVE Counted(m)'
    <2>1. CASE m \in 1..Len(outbox)
      BY <1>4, <2>1 DEF OutboxInv, Counted
    <2>2. CASE m = Len(outbox) + 1
      <3>1. sending.id # m
        BY <1>2, <2>2 DEF OutboxInv, AsRead, NoSending
      <3> QED
        BY <1>1, <1>4, <2>2, <3>1, NotificationsAssumption DEF Counted
    <2> QED
      BY <1>2, <1>4, <2>1, <2>2
  <1>8. sending' = sending /\ batch' = batch
    OBVIOUS
  <1>9. IF sending'.id = 0 THEN sending' = NoSending ELSE AsRead(sending)'
    <2>1. CASE sending.id = 0
      BY <1>8, <2>1 DEF OutboxInv
    <2>2. CASE sending.id # 0
      <3>1. AsRead(sending)
        BY <2>2 DEF OutboxInv
      <3> QED
        BY <1>2, <1>4, <1>8, <2>2, <3>1 DEF AsRead
    <2> QED
      BY <2>1, <2>2
  <1> QED
    BY <1>5, <1>6, <1>7, <1>8, <1>9 DEF OutboxInv

\* What the tables hold for one message.
LEMMA OneMessage ==
    ASSUME OutboxInv, NEW m \in 1..Len(outbox)
    PROVE  /\ Counted(m) /\ outbox[m] \in Mail /\ outbox[m].attempts \in Nat
           /\ lost[m] \in Nat /\ sends[m] \in Nat
  <1>1. outbox[m] \in Mail /\ lost[m] \in Nat /\ sends[m] \in Nat
    BY DEF OutboxInv, Tables
  <1>2. outbox[m].attempts \in Nat
    BY <1>1 DEF Mail
  <1>3. Counted(m)
    BY DEF OutboxInv
  <1> QED
    BY <1>1, <1>2, <1>3

LEMMA OutboxStart == NotificationsInit => OutboxInv
  BY DEF NotificationsInit, OutboxInv, Tables, NoSending

LEMMA OutboxStep == OutboxInv /\ [NotificationsNext]_nvars => OutboxInv'
  <1> SUFFICES ASSUME OutboxInv, [NotificationsNext]_nvars PROVE OutboxInv'
    OBVIOUS
  <1>0. /\ outbox \in Seq(Mail) /\ sends \in Seq(Nat) /\ lost \in Seq(Nat)
        /\ Len(sends) = Len(outbox) /\ Len(lost) = Len(outbox)
        /\ sending \in [id : Nat, ok : BOOLEAN, attempts : Nat]
        /\ batch \in SUBSET [id : Nat, attempts : Nat]
    BY DEF OutboxInv, Tables
  <1>f. ASSUME sending # NoSending PROVE AsRead(sending) /\ sending.id # 0
    BY <1>f DEF OutboxInv
  <1>n. NoSending.id = 0 /\ NoSending \in [id : Nat, ok : BOOLEAN, attempts : Nat]
    BY DEF NoSending
  <1>1. CASE ReadOutbox
    <2>1. sending = NoSending /\ UNCHANGED <<outbox, sending, sends, lost>>
      BY <1>1 DEF ReadOutbox
    <2>2. ASSUME NEW x \in batch'
          PROVE  x \in [id : Nat, attempts : Nat] /\ AsRead(x) /\ x.id # 0
      <3>1. PICK m \in FirstOf(Pending, BatchSize) : x = [id |-> m, attempts |-> outbox[m].attempts]
        BY <1>1, <2>2 DEF ReadOutbox
      <3>2. m \in 1..Len(outbox) /\ outbox[m].status = "pending" /\ outbox[m].attempts \in Nat
        BY <1>0, <3>1, OneMessage DEF FirstOf, Pending
      <3> QED
        BY <3>1, <3>2 DEF AsRead
    <2>3. Tables'
      BY <1>0, <2>1, <2>2 DEF Tables
    <2> QED
      BY <1>n, <2>1, <2>2, <2>3 DEF OutboxInv, AsRead, Counted
  <1>2. ASSUME NEW ok \in BOOLEAN, Send(ok) PROVE OutboxInv'
    <2>1. sending = NoSending /\ UNCHANGED <<outbox, lost>>
      BY <1>2 DEF Send
    <2>2. PICK x \in batch :
             /\ sending' = [id |-> x.id, ok |-> ok, attempts |-> x.attempts]
             /\ sends' = [sends EXCEPT ![x.id] = @ + 1] /\ batch' = batch \ {x}
      BY <1>2 DEF Send
    <2>3. x \in [id : Nat, attempts : Nat] /\ AsRead(x) /\ x.id # 0
      BY <1>0, <2>2 DEF OutboxInv, AsRead
    <2>4. /\ sending'.id = x.id /\ sending'.attempts = x.attempts
          /\ sending' \in [id : Nat, ok : BOOLEAN, attempts : Nat]
      BY <2>2, <2>3
    <2>5. /\ sends' \in Seq(Nat) /\ Len(sends') = Len(sends)
          /\ \A m \in 1..Len(outbox) : sends'[m] = IF m = x.id THEN sends[m] + 1 ELSE sends[m]
      BY <1>0, <2>2, <2>3 DEF AsRead
    <2>6. Tables'
      BY <1>0, <2>1, <2>2, <2>4, <2>5 DEF Tables
    <2>7. ASSUME NEW y \in batch' PROVE AsRead(y)' /\ y.id # x.id
      <3>1. y \in batch /\ y # x /\ AsRead(y)
        BY <2>2, <2>7 DEF OutboxInv
      <3>2. y \in [id : Nat, attempts : Nat]
        BY <1>0, <3>1
      <3>3. y.id # x.id
        BY <2>3, <3>1, <3>2 DEF AsRead
      <3> QED
        BY <2>1, <3>1, <3>3 DEF AsRead
    <2>8. ASSUME NEW m \in 1..Len(outbox) PROVE Counted(m)'
      <3>1. /\ Counted(m) /\ outbox[m].attempts \in Nat /\ lost[m] \in Nat /\ sends[m] \in Nat
        BY OneMessage
      <3> QED
        BY <1>n, <2>1, <2>3, <2>4, <2>5, <3>1 DEF Counted
    <2>9. AsRead(sending)' /\ sending'.id # 0
      BY <2>1, <2>3, <2>4 DEF AsRead
    <2> QED
      BY <2>1, <2>4, <2>6, <2>7, <2>8, <2>9 DEF OutboxInv
  <1>3. CASE MarkOutbox
    <2>m. PICK m : m = sending.id
      OBVIOUS
    <2>1. /\ sending # NoSending /\ sending' = NoSending /\ UNCHANGED <<batch, sends, lost>>
          /\ m \in 1..Len(outbox) /\ outbox[m].status = "pending"
          /\ outbox[m].attempts = sending.attempts /\ Counted(m)
      BY <1>3, <1>f, <2>m DEF MarkOutbox, AsRead, OutboxInv
    <2>2. PICK r \in Mail : /\ outbox' = [outbox EXCEPT ![m] = r]
                            /\ \/ r.status = "sent" /\ r.attempts = outbox[m].attempts
                               \/ /\ r.attempts = outbox[m].attempts + 1
                                  /\ r.status = IF r.attempts >= AttemptLimit THEN "failed" ELSE "pending"
      <3>1. CASE sending.ok
        <4>r. PICK r : r = [outbox[m] EXCEPT !.status = "sent"]
          OBVIOUS
        <4>1. outbox[m] \in Mail
          BY <1>0, <2>1
        <4>2. r \in Mail /\ r.status = "sent" /\ r.attempts = outbox[m].attempts
          BY <4>1, <4>r DEF Mail
        <4>3. outbox' = [outbox EXCEPT ![m] = r]
          BY <1>0, <1>3, <2>m, <2>1, <3>1, <4>r DEF MarkOutbox
        <4> QED
          BY <4>2, <4>3
      <3>2. CASE ~sending.ok
        <4>t. PICK t : t = sending.attempts + 1
          OBVIOUS
        <4>r. PICK r : r = [status |-> IF t >= AttemptLimit THEN "failed" ELSE "pending",
                            attempts |-> t, due |-> FALSE]
          OBVIOUS
        <4>1. t \in Nat
          BY <1>0, <4>t
        <4>2. /\ r \in Mail /\ r.attempts = t
              /\ r.status = IF t >= AttemptLimit THEN "failed" ELSE "pending"
          BY <4>1, <4>r DEF Mail
        <4>3. outbox' = [outbox EXCEPT ![m] = r]
          BY <1>3, <2>m, <3>2, <4>t, <4>r DEF MarkOutbox
        <4> QED
          BY <2>1, <4>t, <4>2, <4>3
      <3> QED
        BY <3>1, <3>2
    <2>3. /\ outbox' \in Seq(Mail) /\ Len(outbox') = Len(outbox) /\ outbox'[m] = r
          /\ \A k \in 1..Len(outbox) : k # m => outbox'[k] = outbox[k]
      BY <1>0, <2>1, <2>2
    <2>4. Tables'
      BY <1>0, <1>n, <2>1, <2>3 DEF Tables
    <2>5. ASSUME NEW y \in batch' PROVE AsRead(y)' /\ y.id # 0
      BY <2>1, <2>3, <2>m DEF OutboxInv, AsRead
    <2>6. ASSUME NEW k \in 1..Len(outbox) PROVE Counted(k)'
      <3>1. /\ Counted(k) /\ outbox[k].attempts \in Nat /\ lost[k] \in Nat /\ sends[k] \in Nat
        BY OneMessage
      <3>2. sending'.id # k
        BY <1>n, <2>1
      <3>3. CASE k # m
        BY <2>1, <2>3, <2>m, <3>1, <3>2, <3>3 DEF Counted
      <3>4. CASE k = m
        <4>1. /\ sends[m] = outbox[m].attempts + lost[m] + 1
              /\ outbox[m].attempts < AttemptLimit /\ AttemptLimit \in Nat
          BY <2>1, <2>m, <3>1, <3>4, NotificationsAssumption DEF Counted
        <4>2. CASE r.status = "sent" /\ r.attempts = outbox[m].attempts
          BY <2>1, <2>3, <3>1, <3>2, <3>4, <4>1, <4>2 DEF Counted
        <4>3. CASE /\ r.attempts = outbox[m].attempts + 1
                   /\ r.status = IF r.attempts >= AttemptLimit THEN "failed" ELSE "pending"
          <5>1. /\ outbox'[k] = r /\ sends'[k] = sends[m] /\ lost'[k] = lost[m]
                /\ r.status # "sent" /\ r.attempts \in Nat /\ r.attempts <= AttemptLimit
            BY <2>1, <2>3, <3>1, <3>4, <4>1, <4>3
          <5>2. r.status = "failed" <=> r.attempts = AttemptLimit
            BY <4>1, <4>3, <5>1
          <5> QED
            BY <3>1, <3>2, <3>4, <4>1, <4>3, <5>1, <5>2 DEF Counted
        <4> QED
          BY <2>2, <4>2, <4>3
      <3> QED
        BY <3>3, <3>4
    <2> QED
      BY <1>n, <2>1, <2>3, <2>4, <2>5, <2>6 DEF OutboxInv
  <1>4. ASSUME sending # NoSending, lost' = [lost EXCEPT ![sending.id] = @ + 1],
               sending' = NoSending, batch' = {}, UNCHANGED <<outbox, sends>>
        PROVE  OutboxInv'
    <2>m. PICK m : m = sending.id
      OBVIOUS
    <2>1. m \in 1..Len(outbox)
      BY <1>4, <1>f, <2>m DEF AsRead
    <2>2. /\ lost' \in Seq(Nat) /\ Len(lost') = Len(lost)
          /\ \A k \in 1..Len(outbox) : lost'[k] = IF k = m THEN lost[k] + 1 ELSE lost[k]
      BY <1>0, <1>4, <2>m, <2>1
    <2>3. Tables'
      BY <1>0, <1>4, <1>n, <2>2 DEF Tables
    <2>4. ASSUME NEW k \in 1..Len(outbox) PROVE Counted(k)'
      <3>1. /\ Counted(k) /\ outbox[k].attempts \in Nat /\ lost[k] \in Nat /\ sends[k] \in Nat
        BY OneMessage
      <3>2. sending'.id # k
        BY <1>4, <1>n
      <3>3. CASE k = m
        <4>1. sends[k] = outbox[k].attempts + lost[k] + 1 + (IF outbox[k].status = "sent" THEN 1 ELSE 0)
          BY <2>m, <3>1, <3>3 DEF Counted
        <4>2. outbox'[k] = outbox[k] /\ sends'[k] = sends[k] /\ lost'[k] = lost[k] + 1
          BY <1>4, <2>2, <3>3
        <4>3. (IF sending'.id = k THEN 1 ELSE 0) = 0
          BY <3>2
        <4>4. sends'[k] = outbox'[k].attempts + lost'[k]
                            + (IF outbox'[k].status = "sent" THEN 1 ELSE 0)
                            + (IF sending'.id = k THEN 1 ELSE 0)
          BY <3>1, <4>1, <4>2, <4>3
        <4> QED
          BY <3>1, <4>2, <4>4 DEF Counted
      <3>4. CASE k # m
        BY <1>4, <2>m, <2>2, <3>1, <3>2, <3>4 DEF Counted
      <3> QED
        BY <3>3, <3>4
    <2> QED
      BY <1>4, <1>n, <2>3, <2>4 DEF OutboxInv
  <1>5. CASE MarkFails
    BY <1>4, <1>5 DEF MarkFails
  <1>6. CASE StopNotifications
    <2>1. CASE sending = NoSending
      BY <1>6, <1>0, <1>n, <2>1 DEF StopNotifications, OutboxInv, Tables, Counted
    <2>2. CASE sending # NoSending
      BY <1>4, <1>6, <2>2 DEF StopNotifications
    <2> QED
      BY <2>1, <2>2
  <1>7. ASSUME NEW m \in DOMAIN outbox, ComesDue(m) PROVE OutboxInv'
    <2>r. PICK r : r = [outbox[m] EXCEPT !.due = TRUE]
      OBVIOUS
    <2>1. m \in 1..Len(outbox) /\ outbox[m] \in Mail
      BY <1>0
    <2>2. r \in Mail /\ r.status = outbox[m].status /\ r.attempts = outbox[m].attempts
      BY <2>r, <2>1 DEF Mail
    <2>3. outbox' = [outbox EXCEPT ![m] = r] /\ UNCHANGED <<batch, sending, sends, lost>>
      BY <1>0, <1>7, <2>r, <2>1 DEF ComesDue, mailer
    <2>4. /\ outbox' \in Seq(Mail) /\ Len(outbox') = Len(outbox)
          /\ \A k \in 1..Len(outbox) : /\ outbox'[k].status = outbox[k].status
                                        /\ outbox'[k].attempts = outbox[k].attempts
      BY <1>0, <2>1, <2>2, <2>3
    <2>5. Tables'
      BY <1>0, <2>3, <2>4 DEF Tables
    <2>6. ASSUME NEW k \in 1..Len(outbox) PROVE Counted(k)'
      BY <2>3, <2>4 DEF OutboxInv, Counted
    <2> QED
      BY <2>3, <2>4, <2>5, <2>6 DEF OutboxInv, AsRead
  <1>8. CASE Enqueue \/ (\E r \in Recipients : QueueAlert(r))
    <2>1. Enqueued /\ UNCHANGED <<batch, sending>>
      BY <1>8 DEF Enqueue, QueueAlert
    <2> QED
      BY <2>1, OutboxGrows
  <1>9. CASE \/ SaveSmtp \/ StartCheck \/ CheckFails \/ (\E b \in BOOLEAN : FinishCheck(b))
             \/ TrafficMoves \/ Evaluate \/ (\E ok \in BOOLEAN : PostWebhook(ok)) \/ WebhookHangs \/ QueueAlertFails
             \/ (\E x \in Events \X Channels : CooldownEnds(x))
    <2>1. UNCHANGED <<outbox, mailer>>
      BY <1>9 DEF SaveSmtp, StartCheck, CheckFails, FinishCheck, TrafficMoves, Evaluate,
                  PostWebhook, WebhookHangs, QueueAlertFails, CooldownEnds
    <2> QED
      BY <2>1, OutboxIdle DEF mailer
  <1>10. CASE UNCHANGED nvars
    BY <1>10, OutboxIdle DEF nvars
  <1> QED
    BY <1>1, <1>2, <1>3, <1>5, <1>6, <1>7, <1>8, <1>9, <1>10
       DEF NotificationsNext, OutboxTask, AlertTask

\* However rounds of the outbox, faults and restarts mix, every delivery of a
\* message is accounted for, and none is given up before its last attempt.
THEOREM DeliveriesAccounted == NotificationsSpec => []MailAccounted
  <1>1. OutboxInv => MailAccounted
    <2> SUFFICES ASSUME OutboxInv PROVE MailAccounted
      OBVIOUS
    <2>1. DOMAIN outbox = 1..Len(outbox)
      BY DEF OutboxInv, Tables
    <2> QED
      BY <2>1 DEF OutboxInv, Counted, MailAccounted
  <1> QED
    BY <1>1, OutboxStart, OutboxStep, PTL DEF NotificationsSpec

-----------------------------------------------------------------------------
(* The IP access policy.  As long as the policy lags behind the table, some *)
(* request that has yet to list the table, or has listed it as it is, will  *)
(* replace the policy.                                                      *)

RuleTables == UNION {[D -> {Row(e) : e \in Entries}] : D \in SUBSET Ids}
EditorRec == [phase : {"idle", "changed", "refresh", "listed"}, row : Nat, listed : RuleTables]

WillRefresh(h) ==
    \/ editor[h].phase = "changed" /\ editor[h].row \in DOMAIN rules
    \/ editor[h].phase = "refresh"
    \/ editor[h].phase = "listed" /\ ~overtaken[h]

ListsAgree == \A h \in Editors : (editor[h].phase = "listed" /\ ~overtaken[h]) => editor[h].listed = rules

Follows == disturbed \/ policy = Compile(rules) \/ \E h \in Editors : WillRefresh(h)

PolicyInv ==
    /\ rules \in RuleTables /\ editor \in [Editors -> EditorRec]
    /\ overtaken \in [Editors -> BOOLEAN]
    /\ ListsAgree /\ Follows

(* Once all changes are answered and none was overtaken or failed, the      *)
(* policy in memory is the one of the table.                                *)
PolicyCurrent ==
    ((\A h \in Editors : editor[h] = Quiet) /\ ~disturbed) => policy = Compile(rules)

LEMMA QuietEditor == Quiet \in EditorRec /\ Quiet.phase = "idle"
  <1>1. NoRules \in [{} -> {Row(e) : e \in Entries}]
    BY DEF NoRules
  <1>2. NoRules \in RuleTables
    BY <1>1 DEF RuleTables
  <1> QED
    BY <1>2 DEF Quiet, EditorRec

LEMMA PolicyStart == IpAccessInit => PolicyInv
  <1> SUFFICES ASSUME IpAccessInit PROVE PolicyInv
    OBVIOUS
  <1>1. NoRules \in [{} -> {Row(e) : e \in Entries}]
    BY DEF NoRules
  <1>2. rules \in RuleTables
    BY <1>1 DEF RuleTables, IpAccessInit
  <1> QED
    BY <1>2, QuietEditor DEF IpAccessInit, PolicyInv, ListsAgree, Follows

\* A change makes the lists of others old and its own request refresh.
LEMMA TableChanges ==
    ASSUME PolicyInv, NEW h \in Editors, NEW i \in Ids, NEW rows \in RuleTables,
           NEW next \in {"changed", "refresh"}, next = "changed" => i \in DOMAIN rows,
           Changed(h, i, rows, next)
    PROVE  PolicyInv'
  <1>x. PICK x : x = [editor[h] EXCEPT !.phase = next, !.row = i]
    OBVIOUS
  <1>0. /\ editor \in [Editors -> EditorRec] /\ overtaken \in [Editors -> BOOLEAN]
        /\ i \in Nat
    BY IpAccessAssumption DEF PolicyInv
  <1>1. x \in EditorRec /\ x.phase = next /\ x.row = i
    BY <1>0, <1>x DEF EditorRec
  <1>2. /\ editor' = [editor EXCEPT ![h] = x] /\ rules' = rows
        /\ overtaken' = [g \in Editors |-> editor[g].phase = "listed" \/ overtaken[g]]
    BY <1>0, <1>x DEF Changed
  <1>3. editor' \in [Editors -> EditorRec] /\ editor'[h] = x
    BY <1>0, <1>1, <1>2
  <1>4. overtaken' \in [Editors -> BOOLEAN]
    BY <1>0, <1>2
  <1>5. WillRefresh(h)'
    BY <1>1, <1>2, <1>3 DEF WillRefresh
  <1>6. ASSUME NEW g \in Editors, editor'[g].phase = "listed" PROVE overtaken'[g]
    BY <1>0, <1>1, <1>2, <1>6
  <1> QED
    BY <1>2, <1>3, <1>4, <1>5, <1>6 DEF PolicyInv, ListsAgree, Follows

\* One request moves, the table and the marks of the others stay.
LEMMA OneEditor ==
    ASSUME PolicyInv, NEW h \in Editors, NEW x \in EditorRec, editor' = [editor EXCEPT ![h] = x],
           UNCHANGED rules, overtaken' \in [Editors -> BOOLEAN],
           \A g \in Editors : g # h => overtaken'[g] = overtaken[g],
           x.phase = "listed" => x.listed = rules, Follows'
    PROVE  PolicyInv'
  <1>1. editor' \in [Editors -> EditorRec] /\ editor'[h] = x
    BY DEF PolicyInv
  <1>2. ASSUME NEW g \in Editors, editor'[g].phase = "listed", ~overtaken'[g]
        PROVE  editor'[g].listed = rules
    <2>1. CASE g = h
      BY <1>1, <1>2, <2>1
    <2>2. CASE g # h
      BY <1>2, <2>2 DEF PolicyInv, ListsAgree
    <2> QED
      BY <2>1, <2>2
  <1> QED
    BY <1>1, <1>2 DEF PolicyInv, ListsAgree

LEMMA PolicyStep == PolicyInv /\ [IpAccessNext]_ivars => PolicyInv'
  <1> SUFFICES ASSUME PolicyInv, [IpAccessNext]_ivars PROVE PolicyInv'
    OBVIOUS
  <1>0. /\ editor \in [Editors -> EditorRec] /\ overtaken \in [Editors -> BOOLEAN]
        /\ rules \in RuleTables /\ ListsAgree /\ Follows
    BY DEF PolicyInv
  <1>d. PICK D \in SUBSET Ids : rules \in [D -> {Row(e) : e \in Entries}]
    BY <1>0 DEF RuleTables
  <1>1. ASSUME NEW h \in Editors, NEW i \in Ids, NEW e \in Entries, CreateRule(h, i, e)
        PROVE  PolicyInv'
    <2>r. PICK rows : rows = [j \in DOMAIN rules \cup {i} |-> IF j = i THEN Row(e) ELSE rules[j]]
      OBVIOUS
    <2>1. rows \in [D \cup {i} -> {Row(x) : x \in Entries}] /\ i \in DOMAIN rows
      BY <1>d, <2>r
    <2>2. rows \in RuleTables
      BY <2>1 DEF RuleTables
    <2>3. Changed(h, i, rows, "changed")
      BY <1>1, <2>r DEF CreateRule
    <2> QED
      BY <2>1, <2>2, <2>3, TableChanges
  <1>2. ASSUME NEW h \in Editors, NEW i \in Ids, NEW e \in Entries, UpdateRule(h, i, e)
        PROVE  PolicyInv'
    <2>r. PICK rows : rows = [rules EXCEPT ![i] = Row(e)]
      OBVIOUS
    <2>1. rows \in [D -> {Row(x) : x \in Entries}] /\ i \in DOMAIN rows
      BY <1>2, <1>d, <2>r DEF UpdateRule
    <2>2. rows \in RuleTables
      BY <2>1 DEF RuleTables
    <2>3. Changed(h, i, rows, "changed")
      BY <1>2, <2>r DEF UpdateRule
    <2> QED
      BY <2>1, <2>2, <2>3, TableChanges
  <1>3. ASSUME NEW h \in Editors, NEW i \in Ids, DeleteRule(h, i) PROVE PolicyInv'
    <2>r. PICK rows : rows = [j \in DOMAIN rules \ {i} |-> rules[j]]
      OBVIOUS
    <2>1. rows \in [D \ {i} -> {Row(x) : x \in Entries}]
      BY <1>d, <2>r
    <2>2. rows \in RuleTables
      BY <2>1 DEF RuleTables
    <2>3. Changed(h, i, rows, "refresh")
      BY <1>3, <2>r DEF DeleteRule
    <2> QED
      BY <2>2, <2>3, TableChanges
  <1>4. ASSUME NEW h \in Editors, ReadBack(h) PROVE PolicyInv'
    <2>u. UNCHANGED <<rules, policy, overtaken, disturbed>>
      BY <1>4 DEF ReadBack
    <2>1. CASE editor[h].row \in DOMAIN rules
      <3>x. PICK x : x = [editor[h] EXCEPT !.phase = "refresh"]
        OBVIOUS
      <3>1. x \in EditorRec /\ x.phase = "refresh"
        BY <1>0, <3>x DEF EditorRec
      <3>2. editor' = [editor EXCEPT ![h] = x]
        BY <1>4, <2>1, <3>x DEF ReadBack
      <3>3. WillRefresh(h)'
        BY <1>0, <3>1, <3>2 DEF WillRefresh
      <3> QED
        BY <1>0, <2>u, <3>1, <3>2, <3>3, OneEditor DEF Follows
    <2>2. CASE editor[h].row \notin DOMAIN rules
      <3>1. editor' = [editor EXCEPT ![h] = Quiet]
        BY <1>4, <2>2 DEF ReadBack
      <3>2. ~WillRefresh(h)
        BY <1>4, <2>2 DEF ReadBack, WillRefresh
      <3>3. ASSUME NEW g \in Editors, WillRefresh(g) PROVE WillRefresh(g)'
        BY <1>0, <2>u, <3>1, <3>2, <3>3 DEF WillRefresh
      <3>4. Follows'
        BY <1>0, <2>u, <3>3 DEF Follows
      <3> QED
        BY <1>0, <2>u, <3>1, <3>4, OneEditor, QuietEditor
    <2> QED
      BY <2>1, <2>2
  <1>5. ASSUME NEW h \in Editors, ListRules(h) PROVE PolicyInv'
    <2>u. UNCHANGED <<rules, policy, disturbed>> /\ overtaken' = [overtaken EXCEPT ![h] = FALSE]
      BY <1>5 DEF ListRules
    <2>x. PICK x : x = [editor[h] EXCEPT !.phase = "listed", !.listed = rules]
      OBVIOUS
    <2>1. x \in EditorRec /\ x.phase = "listed" /\ x.listed = rules
      BY <1>0, <2>x DEF EditorRec
    <2>2. editor' = [editor EXCEPT ![h] = x]
      BY <1>0, <1>5, <2>x DEF ListRules
    <2>3. WillRefresh(h)'
      BY <1>0, <2>u, <2>1, <2>2 DEF WillRefresh
    <2> QED
      BY <1>0, <2>u, <2>1, <2>2, <2>3, OneEditor DEF Follows
  <1>6. ASSUME NEW h \in Editors, ReplacePolicy(h) PROVE PolicyInv'
    <2>1. /\ UNCHANGED <<rules, overtaken>> /\ disturbed' = overtaken[h]
          /\ editor' = [editor EXCEPT ![h] = Quiet] /\ policy' = Compile(editor[h].listed)
          /\ editor[h].phase = "listed"
      BY <1>6 DEF ReplacePolicy
    <2>2. CASE overtaken[h]
      <3>1. Follows'
        BY <2>1, <2>2 DEF Follows
      <3> QED
        BY <1>0, <2>1, <3>1, OneEditor, QuietEditor
    <2>3. CASE ~overtaken[h]
      <3>1. editor[h].listed = rules
        BY <1>0, <2>1, <2>3 DEF ListsAgree
      <3>2. policy' = Compile(rules)
        BY <2>1, <3>1
      <3>3. Compile(rules)' = Compile(rules)
        BY <2>1 DEF Compile
      <3>4. Follows'
        BY <3>2, <3>3 DEF Follows
      <3> QED
        BY <1>0, <2>1, <3>4, OneEditor, QuietEditor
    <2> QED
      BY <2>2, <2>3
  <1>7. ASSUME NEW h \in Editors, RefreshFails(h) PROVE PolicyInv'
    <2>1. /\ UNCHANGED <<rules, overtaken>> /\ disturbed' = TRUE
          /\ editor' = [editor EXCEPT ![h] = Quiet]
      BY <1>7 DEF RefreshFails
    <2>2. Follows'
      BY <2>1 DEF Follows
    <2> QED
      BY <1>0, <2>1, <2>2, OneEditor, QuietEditor
  <1>8. CASE RestartServer
    <2>1. /\ UNCHANGED <<rules, overtaken>> /\ policy' = Compile(rules)
          /\ editor' = [h \in Editors |-> Quiet]
      BY <1>8 DEF RestartServer
    <2>2. Compile(rules)' = Compile(rules)
      BY <2>1 DEF Compile
    <2>3. Follows'
      BY <2>1, <2>2 DEF Follows
    <2> QED
      BY <1>0, <2>1, <2>3, QuietEditor DEF PolicyInv, ListsAgree
  <1>9. CASE UNCHANGED ivars
    <2>1. UNCHANGED <<rules, policy, editor, overtaken, disturbed>>
      BY <1>9 DEF ivars
    <2> QED
      BY <1>0, <2>1 DEF PolicyInv, ListsAgree, Follows, WillRefresh, Compile
  <1> QED
    BY <1>1, <1>2, <1>3, <1>4, <1>5, <1>6, <1>7, <1>8, <1>9 DEF IpAccessNext

LEMMA PolicyFollows == PolicyInv => PolicyCurrent
  BY QuietEditor DEF PolicyInv, Follows, WillRefresh, PolicyCurrent

\* However requests that change rules overlap: when they have been answered,
\* the policy is the one of the table, unless the last list was overtaken or a
\* refresh failed.
THEOREM PolicyFollowsTable == IpAccessSpec => []PolicyCurrent
  BY PolicyStart, PolicyStep, PolicyFollows, PTL DEF IpAccessSpec

-----------------------------------------------------------------------------
(* Masks and prefixes.  The provers know nothing of powers: 2^n is the      *)
(* number of subsets of 1..n, which doubles with each element.              *)

LEMMA Subsets ==
    ASSUME NEW n \in Nat
    PROVE  /\ IsFiniteSet(SUBSET (1..n)) /\ Cardinality(SUBSET (1..n)) \in Nat
           /\ Cardinality(SUBSET (1..n)) = 2^n
  <1>1. IsFiniteSet(1..n) /\ Cardinality(1..n) = n
    BY FS_Interval
  <1>2. IsFiniteSet(SUBSET (1..n)) /\ Cardinality(SUBSET (1..n)) = 2^Cardinality(1..n)
    BY <1>1, FS_SUBSET, Zenon
  <1> QED
    BY <1>1, <1>2, FS_CardinalityType

LEMMA TwiceTheSubsets ==
    ASSUME NEW n \in Nat
    PROVE  Cardinality(SUBSET (1..(n + 1)))
            = Cardinality(SUBSET (1..n)) + Cardinality(SUBSET (1..n))
  <1> DEFINE A == SUBSET (1..n)
             B == {T \cup {n + 1} : T \in A}
  <1>1. IsFiniteSet(A) /\ Cardinality(A) \in Nat
    BY Subsets
  <1>2. ExistsBijection(A, B)
    <2>1. PICK f : f = [T \in A |-> T \cup {n + 1}]
      OBVIOUS
    <2>2. \A T \in A : n + 1 \notin T
      OBVIOUS
    <2>3. f \in [A -> B]
      BY <2>1
    <2>4. ASSUME NEW S \in A, NEW T \in A, f[S] = f[T] PROVE S = T
      <3>1. f[S] = S \cup {n + 1} /\ f[T] = T \cup {n + 1}
        BY <2>1, Zenon
      <3>2. S = (S \cup {n + 1}) \ {n + 1} /\ T = (T \cup {n + 1}) \ {n + 1}
        BY <2>2
      <3> QED
        BY <2>4, <3>1, <3>2, Zenon
    <2>5. \A b \in B : \E T \in A : f[T] = b
      BY <2>1
    <2> HIDE DEF A, B
    <2>6. f \in Injection(A, B)
      BY <2>3, <2>4 DEF Injection, IsInjective
    <2>7. f \in Surjection(A, B)
      BY <2>3, <2>5 DEF Surjection
    <2> QED
      BY <2>6, <2>7 DEF ExistsBijection, Bijection
  <1>3. IsFiniteSet(B) /\ Cardinality(B) = Cardinality(A)
    BY <1>1, <1>2, FS_Bijection
  <1>4. A \cap B = {}
    OBVIOUS
  <1>5. A \cup B = SUBSET (1..(n + 1))
    <2>1. ASSUME NEW U \in SUBSET (1..(n + 1)), n + 1 \in U PROVE U \in B
      <3>1. U \ {n + 1} \in A
        OBVIOUS
      <3>2. U = (U \ {n + 1}) \cup {n + 1}
        BY <2>1
      <3> QED
        BY <3>1, <3>2
    <2>2. ASSUME NEW U \in SUBSET (1..(n + 1)), n + 1 \notin U PROVE U \in A
      BY <2>2
    <2>3. ASSUME NEW U \in A PROVE U \in SUBSET (1..(n + 1)) /\ U \cup {n + 1} \in SUBSET (1..(n + 1))
      OBVIOUS
    <2>4. SUBSET (1..(n + 1)) \subseteq A \cup B
      <3> HIDE DEF A, B
      <3> QED
        BY <2>1, <2>2
    <2>5. A \cup B \subseteq SUBSET (1..(n + 1))
      <3>1. ASSUME NEW U \in B PROVE U \in SUBSET (1..(n + 1))
        <4>1. PICK T \in A : U = T \cup {n + 1}
          OBVIOUS
        <4> QED
          BY <2>3, <4>1, Zenon
      <3>2. ASSUME NEW U \in A PROVE U \in SUBSET (1..(n + 1))
        BY <2>3, Zenon
      <3> HIDE DEF A, B
      <3> QED
        BY <3>1, <3>2, Zenon
    <2> QED
      BY <2>4, <2>5, Zenon
  <1>6. Cardinality(A \cup B) = Cardinality(A) + Cardinality(B) - Cardinality(A \cap B)
    <2> HIDE DEF A, B
    <2> QED
      BY <1>1, <1>3, FS_Union
  <1>7. Cardinality(A \cap B) = 0
    BY <1>4, FS_EmptySet, Zenon
  <1> HIDE DEF A, B
  <1>8. Cardinality(A \cup B) = Cardinality(A) + Cardinality(A)
    BY <1>1, <1>3, <1>6, <1>7
  <1> QED
    BY <1>5, <1>8, Zenon DEF A

(* The powers of two, as a function. *)
Doubling == {P \in [Nat -> Nat \ {0}] : P[0] = 1 /\ \A n \in Nat : P[n + 1] = 2 * P[n]}

LEMMA Powers ==
    \E P \in [Nat -> Nat \ {0}] : /\ \A n \in Nat : P[n] = 2^n /\ P[n + 1] = 2 * P[n]
                                        /\ P[0] = 1
  <1>1. PICK P : P = [n \in Nat |-> Cardinality(SUBSET (1..n))]
    OBVIOUS
  <1>2. \A n \in Nat : P[n] \in Nat /\ P[n] = 2^n
    BY <1>1, Subsets, Zenon
  <1>3. ASSUME NEW n \in Nat PROVE P[n + 1] = 2 * P[n]
    <2>1. n + 1 \in Nat
      OBVIOUS
    <2>2. P[n + 1] = P[n] + P[n]
      BY <1>1, <2>1, TwiceTheSubsets, Zenon
    <2> QED
      BY <1>2, <2>2
  <1>4. P[0] = 1
    <2>1. P[0] = Cardinality(SUBSET (1..0))
      BY <1>1
    <2>2. SUBSET (1..0) = {{}}
      OBVIOUS
    <2> QED
      BY <2>1, <2>2, FS_Singleton
  <1>5. ASSUME NEW n \in Nat PROVE P[n] # 0
    <2> DEFINE S == {k \in Nat : P[k] # 0}
    <2>1. 0 \in S /\ \A k \in S : k + 1 \in S
      BY <1>2, <1>3, <1>4
    <2>2. S \in SUBSET Nat
      OBVIOUS
    <2> HIDE DEF S
    <2>3. S = Nat
      BY <2>1, <2>2, NatSets
    <2> QED
      BY <2>3 DEF S
  <1>6. P \in [Nat -> Nat \ {0}]
    BY <1>1, <1>2, <1>5
  <1> QED
    BY <1>2, <1>3, <1>4, <1>6

(* Quotients: what they are, and that halving a quotient doubles the divisor. *)
LEMMA Quotient ==
    ASSUME NEW z \in Nat, NEW d \in Nat \ {0}, NEW q \in Nat, d * q <= z, z < d * q + d
    PROVE  z \div d = q
  <1>1. PICK s \in Nat : s = z \div d
    OBVIOUS
  <1>2. d * s <= z /\ z < d * s + d
    BY <1>1
  <1>3. ~(s < q)
    <2> SUFFICES ASSUME s < q PROVE FALSE
      OBVIOUS
    <2>1. PICK t \in Nat : q = s + 1 + t
      <3>1. q - s - 1 \in Nat /\ q = s + 1 + (q - s - 1)
        OBVIOUS
      <3> QED
        BY <3>1
    <2>2. d * q = d * s + d + d * t /\ d * t >= 0
      BY <2>1
    <2> QED
      BY <1>2, <2>2
  <1>4. ~(q < s)
    <2> SUFFICES ASSUME q < s PROVE FALSE
      OBVIOUS
    <2>1. PICK t \in Nat : s = q + 1 + t
      <3>1. s - q - 1 \in Nat /\ s = q + 1 + (s - q - 1)
        OBVIOUS
      <3> QED
        BY <3>1
    <2>2. d * s = d * q + d + d * t /\ d * t >= 0
      BY <2>1
    <2> QED
      BY <1>2, <2>2
  <1> QED
    BY <1>1, <1>3, <1>4

LEMMA Halved ==
    ASSUME NEW z \in Nat, NEW d \in Nat \ {0}
    PROVE  (z \div d) \div 2 = z \div (2 * d)
  <1>1. PICK q \in Nat : q = z \div d
    OBVIOUS
  <1>2. d * q <= z /\ z < d * q + d
    BY <1>1
  <1>3. PICK s \in Nat : s = q \div 2
    OBVIOUS
  <1>4. q = 2 * s \/ q = 2 * s + 1
    BY <1>3
  <1>5. PICK c \in Nat : c = d * s
    OBVIOUS
  <1>6. (2 * d) * s = 2 * c
    BY <1>5
  <1>7. d * q = 2 * c \/ d * q = 2 * c + d
    BY <1>4, <1>5
  <1>8. (2 * d) * s <= z /\ z < (2 * d) * s + 2 * d
    BY <1>2, <1>6, <1>7
  <1>9. PICK e \in Nat \ {0} : e = 2 * d
    OBVIOUS
  <1>10. z \div e = s
    BY <1>8, <1>9, Quotient
  <1> QED
    BY <1>1, <1>3, <1>9, <1>10

(* The first p bits of two numbers of W bits agree exactly if the numbers   *)
(* without their other bits do.                                             *)
SameBits(P, W, p, x, y) == \A k \in 1..p : (x \div P[W - k]) % 2 = (y \div P[W - k]) % 2

LEMMA SameQuotient ==
    ASSUME NEW P \in Doubling, NEW W \in Nat, NEW p \in 0..W,
           NEW x \in Nat, x < P[W], NEW y \in Nat, y < P[W]
    PROVE  SameBits(P, W, p, x, y) <=> x \div P[W - p] = y \div P[W - p]
  <1> DEFINE Same(j) == \A k \in 1..j : (x \div P[W - k]) % 2 = (y \div P[W - k]) % 2
             S == {j \in Nat : j <= W => (Same(j) <=> x \div P[W - j] = y \div P[W - j])}
  <1>0. P \in [Nat -> Nat \ {0}] /\ P[0] = 1 /\ \A n \in Nat : P[n + 1] = 2 * P[n]
    BY DEF Doubling
  <1>1. 0 \in S
    <2>1. PICK m \in Nat \ {0} : m = P[W]
      BY <1>0
    <2>2. x \div m = 0 /\ y \div m = 0
      <3>1. m * 0 <= x /\ x < m * 0 + m /\ m * 0 <= y /\ y < m * 0 + m
        BY <2>1
      <3> QED
        BY <3>1, Quotient
    <2>3. Same(0)
      OBVIOUS
    <2>4. W - 0 = W
      OBVIOUS
    <2> QED
      BY <2>1, <2>2, <2>3, <2>4
  <1>2. ASSUME NEW j \in S PROVE j + 1 \in S
    <2>1. j \in Nat /\ (j <= W => (Same(j) <=> x \div P[W - j] = y \div P[W - j]))
      OBVIOUS
    <2> HIDE DEF S
    <2> SUFFICES ASSUME j + 1 <= W
                 PROVE  Same(j + 1) <=> x \div P[W - (j + 1)] = y \div P[W - (j + 1)]
      BY <2>1 DEF S
    <2>2. PICK i \in Nat : i = W - (j + 1)
      BY <2>1
    <2>3. W - j = i + 1
      BY <2>1, <2>2
    <2>4. PICK d \in Nat \ {0} : d = P[i]
      BY <1>0, <2>2
    <2>5. P[W - j] = 2 * d
      BY <1>0, <2>2, <2>3, <2>4
    <2>6. PICK u \in Nat : u = x \div d
      BY <2>4
    <2>7. PICK v \in Nat : v = y \div d
      BY <2>4
    <2>8. u \div 2 = x \div (2 * d) /\ v \div 2 = y \div (2 * d)
      BY <2>4, <2>6, <2>7, Halved
    <2>9. Same(j) <=> u \div 2 = v \div 2
      <3> HIDE DEF Same
      <3> QED
        BY <2>1, <2>5, <2>8
    <2>10. Same(j + 1) <=> Same(j) /\ u % 2 = v % 2
      <3>1. /\ \A k \in 1..(j + 1) : k \in 1..j \/ k = j + 1
            /\ \A k \in 1..j : k \in 1..(j + 1)
            /\ j + 1 \in 1..(j + 1)
        BY <2>1
      <3>2. (x \div P[W - (j + 1)]) % 2 = u % 2 /\ (y \div P[W - (j + 1)]) % 2 = v % 2
        BY <2>2, <2>4, <2>6, <2>7
      <3> QED
        BY <3>1, <3>2, Zenon
    <2>11. (u \div 2 = v \div 2 /\ u % 2 = v % 2) <=> u = v
      BY <2>6, <2>7
    <2>12. x \div P[W - (j + 1)] = u /\ y \div P[W - (j + 1)] = v
      BY <2>2, <2>4, <2>6, <2>7
    <2> HIDE DEF Same
    <2> QED
      BY <2>9, <2>10, <2>11, <2>12
  <1>3. S \in SUBSET Nat
    OBVIOUS
  <1>4. S = Nat
    <2> HIDE DEF S
    <2> QED
      BY <1>1, <1>2, <1>3, NatSets
  <1>5. p \in Nat /\ p <= W
    OBVIOUS
  <1>6. p \in S
    BY <1>4, <1>5, Zenon
  <1> QED
    BY <1>5, <1>6, Zenon DEF SameBits

(* mask_ip clears the other bits. *)
LEMMA Masked ==
    ASSUME NEW x \in Nat, NEW y \in Nat, NEW m \in Nat \ {0}
    PROVE  /\ x - (x % m) \in Nat /\ x - (x % m) <= x
           /\ x - (x % m) = y - (y % m) <=> (x - (x % m)) \div m = y \div m
  <1>1. PICK q \in Nat : q = x \div m
    OBVIOUS
  <1>2. PICK r \in Nat : r = y \div m
    OBVIOUS
  <1>3. x = m * q + (x % m) /\ x % m \in 0..(m - 1)
    BY <1>1
  <1>4. y = m * r + (y % m) /\ y % m \in 0..(m - 1)
    BY <1>2
  <1>5. PICK c \in Nat : c = m * q
    OBVIOUS
  <1>6. x - (x % m) = c /\ y - (y % m) = m * r
    BY <1>3, <1>4, <1>5
  <1>7. c \div m = q
    BY <1>5, Quotient
  <1>8. c <= x
    BY <1>3, <1>5
  <1>9. (m * r) \div m = r
    <2>1. PICK b \in Nat : b = m * r
      OBVIOUS
    <2> QED
      BY <2>1, Quotient
  <1>10. c = m * r <=> q = r
    BY <1>5, <1>7, <1>9
  <1> QED
    BY <1>2, <1>6, <1>7, <1>8, <1>10

(* Two addresses agree after mask_ip exactly if their first bits do. *)
LEMMA MaskIsPrefix ==
    ASSUME NEW e \in Entries, NEW a \in Addresses
    PROVE  NetContains(Row(e).net, a) <=> Covers(Row(e).net, a)
  <1>1. PICK P \in [Nat -> Nat \ {0}] : /\ \A n \in Nat : P[n] = 2^n /\ P[n + 1] = 2 * P[n]
                                        /\ P[0] = 1
    BY Powers
  <1>2. /\ Width \in Nat
        /\ e.ip \in Addresses /\ e.prefix \in 0..Width
    BY IpAccessAssumption DEF Entry
  <1>w. PICK W \in Nat : W = Width
    BY <1>2
  <1>p. PICK p \in 0..W : p = e.prefix
    BY <1>2, <1>w
  <1>t. PICK T : T = 0..(2^Width - 1)
    OBVIOUS
  <1>b. Addresses = [v : Versions, n : T]
    BY <1>t, Zenon DEF Addresses
  <1>c. T = 0..(P[W] - 1)
    BY <1>1, <1>t, <1>w, Zenon
  <1>x. PICK x \in T : x = e.ip.n
    BY <1>2, <1>b
  <1>y. PICK y \in T : y = a.n
    BY <1>b
  <1>m. PICK m \in Nat \ {0} : m = P[W - p]
    OBVIOUS
  <1>3. x \in Nat /\ x < P[W] /\ y \in Nat /\ y < P[W]
    <2>1. PICK top \in Nat : top = P[W]
      OBVIOUS
    <2>2. x \in 0..(top - 1) /\ y \in 0..(top - 1)
      BY <1>c, <2>1
    <2>3. x \in Nat /\ x < top /\ y \in Nat /\ y < top
      BY <2>2
    <2> QED
      BY <2>1, <2>3
  <1>n. PICK n : n = IF p = 0 THEN 0 ELSE x - (x % m)
    OBVIOUS
  <1>o. PICK o : o = IF p = 0 THEN 0 ELSE y - (y % m)
    OBVIOUS
  <1>4. 2^(Width - e.prefix) = m
    <2>1. W - p \in Nat
      OBVIOUS
    <2>2. P[W - p] = 2^(W - p)
      BY <1>1, <2>1, Zenon
    <2> QED
      BY <1>m, <1>w, <1>p, <2>2, Zenon
  <1>5. Mask(e.ip, p) = [e.ip EXCEPT !.n = n]
    BY <1>4, <1>w, <1>p, <1>x, <1>n, <1>2, <1>b DEF Mask
  <1>6. Mask(a, p) = [a EXCEPT !.n = o]
    BY <1>4, <1>w, <1>p, <1>y, <1>o, <1>b DEF Mask
  <1>7. e.ip = [v |-> e.ip.v, n |-> x] /\ a = [v |-> a.v, n |-> y]
    BY <1>2, <1>b, <1>x, <1>y
  <1>8. Mask(e.ip, p) = [v |-> e.ip.v, n |-> n] /\ Mask(a, p) = [v |-> a.v, n |-> o]
    BY <1>5, <1>6, <1>7
  <1>9. Row(e).net = [network |-> [v |-> e.ip.v, n |-> n], prefix |-> p]
    BY <1>8, <1>p DEF Row, Network
  <1>10. NetContains(Row(e).net, a) <=> e.ip.v = a.v /\ o = n
    BY <1>8, <1>9 DEF NetContains
  <1>11. n \in Nat /\ n < P[W] /\ (n = o <=> n \div m = y \div m)
    <2>1. CASE p = 0
      <3>1. m = P[W]
        BY <1>m, <2>1
      <3>2. n = 0 /\ o = 0
        BY <1>n, <1>o, <2>1
      <3>3. 0 \div m = 0 /\ y \div m = 0
        BY <1>3, <3>1, Quotient
      <3> QED
        BY <1>3, <3>1, <3>2, <3>3
    <2>2. CASE p # 0
      <3>1. n = x - (x % m) /\ o = y - (y % m)
        BY <1>n, <1>o, <2>2
      <3>2. /\ x - (x % m) \in Nat /\ x - (x % m) <= x
            /\ x - (x % m) = y - (y % m) <=> (x - (x % m)) \div m = y \div m
        BY <1>3, Masked, ZenonT(30)
      <3>3. n \in Nat /\ n <= x /\ (n = o <=> n \div m = y \div m)
        BY <3>1, <3>2, Zenon
      <3>4. PICK top \in Nat : top = P[W]
        OBVIOUS
      <3>5. x < top
        BY <1>3, <3>4
      <3>6. n < top
        BY <1>3, <3>3, <3>5
      <3> QED
        BY <3>3, <3>4, <3>6
    <2> QED
      BY <2>1, <2>2
  <1>12. Covers(Row(e).net, a)
            <=> e.ip.v = a.v /\ SameBits(P, W, p, n, y)
    <2>1. \A k \in 1..p : W - k \in Nat /\ 2^(Width - k) = P[W - k]
      BY <1>1, <1>w
    <2>2. \A k \in 1..p : /\ Bit(n, k) = (n \div P[W - k]) % 2
                          /\ Bit(y, k) = (y \div P[W - k]) % 2
      BY <2>1 DEF Bit
    <2> QED
      BY <1>9, <1>y, <2>2 DEF Covers, SameBits
  <1>13. SameBits(P, W, p, n, y) <=> n \div P[W - p] = y \div P[W - p]
    <2>1. \A i \in Nat : P[i + 1] = 2 * P[i]
      BY <1>1
    <2>2. n \in Nat /\ n < P[W] /\ y \in Nat /\ y < P[W]
      BY <1>3, <1>11
    <2>3. P \in Doubling
      BY <1>1, <2>1 DEF Doubling
    <2>4. PICK g \in Doubling : g = P
      BY <2>3
    <2>5. PICK s \in Nat : s = n
      BY <2>2
    <2>6. PICK t \in Nat : t = y
      BY <2>2
    <2>7. s < g[W] /\ t < g[W]
      BY <2>2, <2>4, <2>5, <2>6
    <2>8. SameBits(g, W, p, s, t) <=> s \div g[W - p] = t \div g[W - p]
      BY <2>7, SameQuotient
    <2> QED
      BY <2>4, <2>5, <2>6, <2>8
  <1> QED
    BY <1>10, <1>11, <1>12, <1>13, <1>m

\* IpAccessPolicy::compile and decide judge every address as the rules of the
\* table say, a denial before an allowance, whatever the tables, the width of
\* addresses and the overlapping requests.
THEOREM AddressesJudged == IpAccessSpec => []PolicyInForce
  <1>1. PolicyInv => PolicyInForce
    <2> SUFFICES ASSUME PolicyInv, \A h \in Editors : editor[h] = Quiet, ~disturbed,
                        NEW a \in Addresses
                 PROVE  Decide(policy, a) = Verdict(a)
      BY DEF PolicyInForce
    <2>1. policy = Compile(rules)
      BY PolicyFollows DEF PolicyCurrent
    <2>2. PICK D \in SUBSET Ids : rules \in [D -> {Row(e) : e \in Entries}]
      BY DEF PolicyInv, RuleTables
    <2>3. ASSUME NEW i \in D PROVE NetContains(rules[i].net, a) <=> Covers(rules[i].net, a)
      <3>1. PICK e \in Entries : rules[i] = Row(e)
        BY <2>2
      <3> QED
        BY <3>1, MaskIsPrefix
    <2> DEFINE On(x) == {i \in D : rules[i].enabled /\ rules[i].action = x}
               Hits(x) == {i \in D : /\ rules[i].enabled /\ rules[i].action = x
                                     /\ Covers(rules[i].net, a)}
    <2>4. DOMAIN rules = D
      BY <2>2
    <2>5. ASSUME NEW x \in {"allow", "deny"}
          PROVE  policy[x] = {rules[i].net : i \in On(x)}
      BY <2>1, <2>4 DEF Compile
    <2>6. ASSUME NEW x \in {"allow", "deny"}
          PROVE  (\E net \in policy[x] : NetContains(net, a)) <=> Hits(x) # {}
      BY <2>3, <2>5
    <2>7. policy["allow"] # {} <=> On("allow") # {}
      BY <2>5
    <2>8. (\E net \in policy["deny"] : NetContains(net, a)) <=> Hits("deny") # {}
      BY <2>6
    <2>9. (\E net \in policy["allow"] : NetContains(net, a)) <=> Hits("allow") # {}
      BY <2>6
    <2>10. Verdict(a) = CASE Hits("deny") # {} -> "deny_rule"
                          [] Hits("deny") = {} /\ On("allow") # {} /\ Hits("allow") = {}
                                -> "allowlist_required"
                          [] OTHER -> "allow"
      BY <2>4 DEF Verdict
    <2> HIDE DEF On, Hits
    <2> QED
      BY <2>7, <2>8, <2>9, <2>10 DEF Decide
  <1> QED
    BY <1>1, PolicyStart, PolicyStep, PTL DEF IpAccessSpec

-----------------------------------------------------------------------------
(* Certificate renewal, for any domains, callers of trigger_renewal, and    *)
(* numbers of issuances and restarts.                                       *)

Issued == {None} \cup 1..MaxIssue

(* Every challenge that is answered is still to be removed by the issuance, *)
(* or was left by a fault.                                                  *)
Tracked ==
    /\ worker \in WorkerPhases
    /\ provisioned \in Seq(Domains)
    /\ IsInjective(provisioned)
    /\ method \in {"http-01", "dns-01"}
    /\ leftover \subseteq Domains
    /\ method = "http-01" => leftover = {}
    /\ challenges \subseteq ToSet(provisioned) \cup leftover
    /\ worker \notin {"provision", "cleanupOk", "cleanupErr"} => provisioned = <<>>

(* The files are of the latest issuances, and what is served was on disk as *)
(* a pair, of which the key has since only been replaced by newer ones.     *)
Numbered ==
    /\ issued \in 0..MaxIssue /\ cert \in Issued /\ key \in Issued
    /\ worker = "writeKey" => issued > 0
    /\ cert # None => cert <= issued
    /\ key # None => key <= issued
    /\ https \in Listener
    /\ https.served # None => key # None /\ https.served <= key
    /\ generation \in Nat /\ crashes \in 0..MaxCrashes

Signals ==
    /\ running \in BOOLEAN /\ due \in BOOLEAN /\ silent \in BOOLEAN
    /\ queue \in 0..1
    /\ trigger \in [Triggers -> {"idle", "clear", "sent"}]

-----------------------------------------------------------------------------
(* The challenges.                                                          *)

LEMMA TrackedInit == AcmeInit => Tracked
  BY DEF AcmeInit, Tracked, WorkerPhases, IsInjective

LEMMA Provisioned ==
    ASSUME NEW s \in Seq(Domains), IsInjective(s), NEW d \in Domains, d \notin ToSet(s)
    PROVE  /\ Append(s, d) \in Seq(Domains) /\ IsInjective(Append(s, d))
           /\ ToSet(Append(s, d)) = ToSet(s) \cup {d}
  <1>1. /\ Append(s, d) \in Seq(Domains) /\ Len(Append(s, d)) = Len(s) + 1
        /\ DOMAIN Append(s, d) = 1..(Len(s) + 1) /\ DOMAIN s = 1..Len(s) /\ Len(s) \in Nat
        /\ \A i \in 1..Len(s) : Append(s, d)[i] = s[i]
        /\ Append(s, d)[Len(s) + 1] = d
    OBVIOUS
  <1>2. IsInjective(Append(s, d))
    BY <1>1 DEF IsInjective, ToSet
  <1>3. ToSet(Append(s, d)) = ToSet(s) \cup {d}
    BY <1>1 DEF ToSet
  <1> QED
    BY <1>1, <1>2, <1>3

LEMMA Removed ==
    ASSUME NEW s \in Seq(Domains), IsInjective(s), s # <<>>
    PROVE  /\ Front(s) \in Seq(Domains) /\ IsInjective(Front(s))
           /\ ToSet(s) \ {Last(s)} \subseteq ToSet(Front(s))
  <1>1. /\ Len(s) \in Nat /\ Len(s) > 0 /\ DOMAIN s = 1..Len(s)
    OBVIOUS
  <1>2. /\ Front(s) \in Seq(Domains) /\ DOMAIN Front(s) = 1..(Len(s) - 1)
        /\ \A i \in 1..(Len(s) - 1) : Front(s)[i] = s[i]
    BY <1>1 DEF Front
  <1>3. IsInjective(Front(s))
    BY <1>1, <1>2 DEF IsInjective
  <1>4. ToSet(s) \ {Last(s)} \subseteq ToSet(Front(s))
    BY <1>1, <1>2 DEF ToSet, Last
  <1> QED
    BY <1>2, <1>3, <1>4

LEMMA TrackedNext == Tracked /\ [AcmeNext]_acmevars => Tracked'
  <1> SUFFICES ASSUME Tracked, [AcmeNext]_acmevars PROVE Tracked'
    OBVIOUS
  <1>1. CASE UNCHANGED <<worker, provisioned, answers>>
    BY <1>1 DEF Tracked, answers
  <1>2. ASSUME NEW d \in Domains, Provision(d) PROVE Tracked'
    BY <1>2, Provisioned DEF Provision, Tracked
  <1>3. CASE Cleanup \/ CleanupFails
    <2>1. Last(provisioned) \in Domains
      BY <1>3 DEF Cleanup, CleanupFails, Tracked, Last
    <2> QED
      BY <1>3, <2>1, Removed DEF Cleanup, CleanupFails, Tracked
  <1>4. CASE \E d \in Domains : PresentLost(d)
    BY <1>4 DEF PresentLost, Tracked, WorkerPhases
  <1>5. CASE Order
    BY <1>5 DEF Order, Tracked, WorkerPhases
  <1>6. CASE Tick \/ Receive \/ Finalize \/ CleanupDone \/ WriteCert \/ WriteKey
             \/ Failed \/ OrderFails \/ WriteKeyFails
    BY <1>6 DEF Tick, Receive, Finalize, CleanupDone, WriteCert, WriteKey,
                Failed, OrderFails, WriteKeyFails, Tracked, WorkerPhases, answers
  <1>7. CASE Crash
    <2>1. challenges \subseteq Domains
      BY DEF Tracked, ToSet
    <2> QED
      BY <1>7, <2>1 DEF Crash, Tracked, WorkerPhases, IsInjective
  <1> QED
    BY <1>1, <1>2, <1>3, <1>4, <1>5, <1>6, <1>7
    DEF AcmeNext, Worker, HttpsListener, TriggerCheck, TriggerSend, TriggerMark,
        Subscribe, ReadCert, ReadKey, Renewed, BecomesDue, acmevars, answers

\* However an issuance ends, with its error paths and restarts, no challenge
\* of it is answered once the worker writes the certificate or waits again,
\* but for records of a DNS provider whose own call failed or that a stop of
\* the process has orphaned.
THEOREM ChallengesAreCleared == AcmeSpec => []ChallengesCleared
  <1>1. Tracked => ChallengesCleared
    BY DEF Tracked, ChallengesCleared, ToSet
  <1> QED
    BY <1>1, TrackedInit, TrackedNext, PTL DEF AcmeSpec

-----------------------------------------------------------------------------
(* The files and the listener.                                              *)

LEMMA NumberedInit == AcmeInit => Numbered
  BY AcmeAssumption DEF AcmeInit, Numbered, Issued, Listening, Listener

LEMMA ListenerStep ==
    ASSUME Numbered, HttpsListener
    PROVE  /\ Numbered'
           /\ https'.served # https.served =>
                 https'.served # None /\ (https.served # None => https'.served > https.served)
  <1>0. /\ UNCHANGED <<worker, issued, cert, key, generation, crashes>>
        /\ https \in Listener /\ generation \in Nat /\ cert \in Issued /\ key \in Issued /\ MaxIssue \in Nat
        /\ https.served # None => key # None /\ https.served <= key
    BY AcmeAssumption DEF HttpsListener, Subscribe, ReadCert, ReadKey, Renewed, disk, Numbered
  <1>n. cert \in {None} \cup Nat /\ key \in {None} \cup Nat
    BY <1>0 DEF Issued
  <1>1. CASE Subscribe \/ Renewed
    <2>1. https' = [https EXCEPT !.phase = "readCert", !.seen = generation]
      BY <1>1 DEF Subscribe, Renewed
    <2>2. https' \in Listener /\ https'.served = https.served
      BY <1>0, <2>1 DEF Listener
    <2> QED
      BY <1>0, <2>2 DEF Numbered
  <1>2. CASE ReadCert
    <2>1. https' = [https EXCEPT !.phase = "readKey", !.read = cert]
      BY <1>2 DEF ReadCert
    <2>2. https' \in Listener /\ https'.served = https.served
      BY <1>0, <1>n, <2>1 DEF Listener
    <2> QED
      BY <1>0, <2>2 DEF Numbered
  <1>3. CASE ReadKey
    <2>1. CASE https.read # None /\ https.read = key
      <3>1. https' = [https EXCEPT !.phase = "serving", !.served = key, !.read = None]
        BY <1>3, <2>1 DEF ReadKey
      <3>2. https' \in Listener /\ https'.served = key /\ key # None
        BY <1>0, <1>n, <2>1, <3>1 DEF Listener
      <3>3. key \in Nat /\ https.served \in {None} \cup Nat
        BY <1>0, <1>n, <3>2 DEF Listener
      <3> QED
        BY <1>0, <3>2, <3>3 DEF Numbered
    <2>2. CASE ~(https.read # None /\ https.read = key)
      <3>p. PICK p \in {"waiting", "serving"} : p = IF https.served = None THEN "waiting" ELSE "serving"
        OBVIOUS
      <3>1. https' = [https EXCEPT !.read = None, !.phase = p]
        BY <1>3, <2>2, <3>p DEF ReadKey
      <3>2. https' \in Listener /\ https'.served = https.served
        BY <1>0, <3>1 DEF Listener
      <3> QED
        BY <1>0, <3>2 DEF Numbered
    <2> QED
      BY <2>1, <2>2
  <1> QED
    BY <1>1, <1>2, <1>3 DEF HttpsListener

LEMMA NumberedNext == Numbered /\ [AcmeNext]_acmevars => Numbered'
  <1> SUFFICES ASSUME Numbered, [AcmeNext]_acmevars PROVE Numbered'
    OBVIOUS
  <1>0. /\ issued \in 0..MaxIssue /\ cert \in Issued /\ key \in Issued /\ MaxIssue \in Nat
        /\ https \in Listener /\ generation \in Nat /\ crashes \in 0..MaxCrashes /\ MaxCrashes \in Nat
        /\ None \notin Nat
    BY AcmeAssumption DEF Numbered
  <1>s. https.served \in {None} \cup Nat
    BY <1>0 DEF Listener
  <1>1. CASE HttpsListener
    BY <1>1, ListenerStep
  <1>2. CASE UNCHANGED <<worker, issued, cert, key, https, generation, crashes>>
    BY <1>2 DEF Numbered
  <1>3. CASE /\ UNCHANGED <<issued, cert, key, https, generation, crashes>>
             /\ worker' # "writeKey"
    BY <1>3 DEF Numbered
  <1>4. CASE WriteCert
    <2>1. CASE worker' = "failed"
      BY <1>3, <1>4, <2>1 DEF WriteCert
    <2>2. CASE worker' # "failed"
      <3>1. /\ issued < MaxIssue /\ issued' = issued + 1 /\ cert' = issued + 1
            /\ UNCHANGED <<key, crashes, generation, https>>
        BY <1>4, <2>2 DEF WriteCert
      <3>2. issued' \in 0..MaxIssue /\ cert' \in 1..MaxIssue /\ issued' > 0
        BY <1>0, <3>1
      <3>3. key # None => key \in Nat /\ key <= issued'
        BY <1>0, <3>1 DEF Numbered, Issued
      <3> QED
        BY <1>0, <3>1, <3>2, <3>3 DEF Numbered, Issued
    <2> QED
      BY <2>1, <2>2
  <1>5. CASE /\ worker = "writeKey" /\ worker' # "writeKey" /\ key' = issued
             /\ generation' \in Nat
             /\ UNCHANGED <<issued, cert, https, crashes>>
    <2>1. key' \in 1..MaxIssue /\ key' \in Nat /\ key' # None
      BY <1>0, <1>5 DEF Numbered
    <2>2. https.served # None => https.served \in Nat /\ key \in Nat /\ https.served <= key /\ key <= issued
      BY <1>0, <1>s DEF Numbered, Issued
    <2>3. https.served # None => https.served <= key'
      BY <1>0, <1>5, <2>2
    <2> QED
      BY <1>0, <1>5, <2>1, <2>3 DEF Numbered, Issued
  <1>6. CASE Crash
    <2>1. /\ crashes < MaxCrashes /\ crashes' = crashes + 1 /\ worker' = "start"
          /\ generation' = 0 /\ https' = Listening /\ UNCHANGED <<cert, key, issued>>
      BY <1>6 DEF Crash
    <2>2. https' \in Listener /\ https'.served = None
      BY <2>1 DEF Listening, Listener
    <2>3. crashes' \in 0..MaxCrashes
      BY <1>0, <2>1
    <2> QED
      BY <1>0, <2>1, <2>2, <2>3 DEF Numbered
  <1>7. CASE WriteKey \/ WriteKeyFails
    BY <1>0, <1>3, <1>5, <1>7 DEF WriteKey, WriteKeyFails, disk
  <1>8. CASE Tick \/ Receive \/ Order \/ (\E d \in Domains : Provision(d)) \/ Finalize \/ Cleanup
             \/ CleanupDone \/ Failed \/ OrderFails \/ CleanupFails \/ (\E d \in Domains : PresentLost(d))
    BY <1>2, <1>3, <1>8 DEF Tick, Receive, Order, Provision, Finalize, Cleanup, CleanupDone,
                      Failed, OrderFails, CleanupFails, PresentLost, disk
  <1> QED
    BY <1>1, <1>2, <1>4, <1>6, <1>7, <1>8
    DEF AcmeNext, Worker, TriggerCheck, TriggerSend, TriggerMark, BecomesDue, disk, acmevars

\* The listener replaces the pair it serves only by one of a later issuance,
\* although it reads the two files in two steps while the worker replaces
\* them in two steps.
THEOREM ServesNoOlder == AcmeSpec => NeverOlder
  <1>1. ASSUME Numbered, [AcmeNext]_acmevars
        PROVE  [https.served # None /\ https'.served # https.served =>
                  \/ https' = Listening
                  \/ https'.served # None /\ https'.served > https.served]_acmevars
    <2>1. CASE HttpsListener
      BY <1>1, <2>1, ListenerStep
    <2>2. CASE UNCHANGED https
      BY <2>2
    <2>3. CASE https' = Listening
      BY <2>3
    <2> QED
      BY <1>1, <2>1, <2>2, <2>3
      DEF AcmeNext, Worker, TriggerCheck, TriggerSend, TriggerMark, BecomesDue, Crash, acmevars,
          Tick, Receive, Order, Provision, Finalize, Cleanup, CleanupDone, WriteCert,
          WriteKey, Failed, OrderFails, CleanupFails, PresentLost, WriteKeyFails
  <1> QED
    BY <1>1, NumberedInit, NumberedNext, PTL DEF AcmeSpec, NeverOlder

-----------------------------------------------------------------------------

LEMMA SignalsHold == AcmeSpec => []Signals
  <1>1. AcmeInit => Signals
    <2> SUFFICES ASSUME AcmeInit PROVE Signals
      OBVIOUS
    <2>1. running \in BOOLEAN /\ due \in BOOLEAN /\ silent \in BOOLEAN
      BY Zenon DEF AcmeInit
    <2>2. queue \in 0..1 /\ trigger \in [Triggers -> {"idle", "clear", "sent"}]
      BY DEF AcmeInit
    <2> QED
      BY <2>1, <2>2 DEF Signals
  <1>2. Signals /\ [AcmeNext]_acmevars => Signals'
    <2> SUFFICES ASSUME Signals, [AcmeNext]_acmevars PROVE Signals'
      OBVIOUS
    <2>1. running' \in BOOLEAN /\ due' \in BOOLEAN /\ silent' \in BOOLEAN
      BY DEF Signals, AcmeNext, Worker, HttpsListener, TriggerCheck, TriggerSend, TriggerMark, BecomesDue,
          Crash, acmevars, disk, status, Tick, Receive, Order, Provision, Finalize, Cleanup, CleanupFails, PresentLost, CleanupDone,
          WriteCert, WriteKey, Failed, OrderFails, WriteKeyFails, Subscribe, ReadCert, ReadKey, Renewed
    <2>2. queue' \in 0..1 /\ trigger' \in [Triggers -> {"idle", "clear", "sent"}]
      BY DEF Signals, AcmeNext, Worker, HttpsListener, TriggerCheck, TriggerSend, TriggerMark, BecomesDue,
          Crash, acmevars, disk, status, Tick, Receive, Order, Provision, Finalize, Cleanup, CleanupFails, PresentLost, CleanupDone,
          WriteCert, WriteKey, Failed, OrderFails, WriteKeyFails, Subscribe, ReadCert, ReadKey, Renewed
    <2> QED
      BY <2>1, <2>2 DEF Signals
  <1> QED
    BY <1>1, <1>2, PTL DEF AcmeSpec

\* The state of the worker, the files and the listener is always of its kind.
THEOREM AcmeTypeCorrect == AcmeSpec => []AcmeTypeOK
  <1>1. Tracked /\ Numbered /\ Signals => AcmeTypeOK
    BY DEF Tracked, Numbered, Signals, AcmeTypeOK, ToSet, Issued
  <1> QED
    BY <1>1, TrackedInit, TrackedNext, NumberedInit, NumberedNext, SignalsHold, PTL DEF AcmeSpec

-----------------------------------------------------------------------------
(* The client's files.  What a record covers is the user's until the       *)
(* record is on disk; then the record says what was there.  No two records *)
(* of package managers cover the same file.                                *)

Own == UserTexts \cup {Missing}
Contents == Own \cup {Managed}
Plans == UNION {[S -> Own] : S \in SUBSET Files}
Results == Plans \cup {Installed(p) : p \in Plans}

Scope(k) == {f \in SystemFiles : \/ k = "system"
                                 \/ k = "apt" /\ f \in AptFiles
                                 \/ k # "system" /\ f = FileOf[k]}

Commands == [kind : {"none", "set", "reset", "setup", "undo", "rollback"}, key : Keys,
             phase : {"idle", "ask", "record", "write"}, plan : Plans, todo : SUBSET Files,
             to : Results, moved : Contents]

Alone == record["system"] # NoRecord => \A t \in Targets : record[t] = NoRecord

Recorded ==
    \A k \in Keys : \A f \in DOMAIN record[k] : record[k][f] = mine[f] \/ file[f] = mine[f]

Untouched ==
    \A f \in SystemFiles : (\A k \in Keys : f \notin DOMAIN record[k]) => file[f] = mine[f]

AgentKept(f) ==
    \/ mine[f] = Missing \/ file[f] = mine[f]
    \/ \E i \in DOMAIN setups : f \in DOMAIN setups[i] /\ setups[i][f] = mine[f]

FileTables ==
    /\ file \in [Files -> Contents] /\ mine \in [Files -> Own]
    /\ record \in [Keys -> Plans] /\ setups \in Seq(Plans)
    /\ \A k \in Keys : DOMAIN record[k] \subseteq Scope(k)
    /\ \A i \in DOMAIN setups : DOMAIN setups[i] \subseteq AgentFiles
    /\ Alone /\ Recorded /\ Untouched
    /\ \A f \in AgentFiles : AgentKept(f)

(* What a running command relies on.  A command on package managers keeps  *)
(* the user out; one on agents does not, and looks again before it writes. *)
SetOK ==
    /\ DOMAIN command.plan \subseteq Scope(command.key)
    /\ \A f \in DOMAIN command.plan : command.plan[f] = mine[f]
    /\ command.phase \in {"record", "write"}
    /\ command.phase = "record" =>
          /\ record["system"] = NoRecord /\ record[command.key] = NoRecord
          /\ command.key = "system" => \A t \in Targets : record[t] = NoRecord
    /\ command.phase = "write" => record[command.key] = command.plan

ResetOK ==
    /\ command.phase = "write" /\ command.to = command.plan
    /\ record[command.key] = command.plan
    /\ \A f \in DOMAIN command.plan :
          command.plan[f] = mine[f] /\ (f \in command.todo \/ file[f] = mine[f])

AgentOK ==
    /\ DOMAIN command.plan \subseteq AgentFiles
    /\ command.kind # "setup" => command.phase = "write"
    /\ command.phase = "write" => \E i \in DOMAIN setups : setups[i] = command.plan
    /\ Aside => file[Current] = Missing

CommandOK ==
    /\ command \in Commands
    /\ command.to \in {command.plan, Installed(command.plan)}
    /\ command.todo \subseteq DOMAIN command.plan
    /\ Aside => command.phase = "write" /\ command.todo # {}
    /\ command.kind = "none" => command = Ready
    /\ command.kind = "set" => SetOK
    /\ command.kind = "reset" => ResetOK
    /\ command.kind \in {"setup", "undo", "rollback"} => AgentOK

FilesInv == FileTables /\ CommandOK

LEMMA PlanFacts ==
    ASSUME NEW p \in Plans
    PROVE  /\ DOMAIN p \subseteq Files
           /\ \A f \in DOMAIN p : p[f] \in Own
           /\ DOMAIN Installed(p) = DOMAIN p
           /\ \A f \in DOMAIN p : Installed(p)[f] = Managed
  BY DEF Plans, Installed

LEMMA PlanOf ==
    ASSUME NEW S \in SUBSET Files, NEW g, \A f \in S : g[f] \in Own
    PROVE  [f \in S |-> g[f]] \in Plans
  <1>1. [f \in S |-> g[f]] \in [S -> Own]
    OBVIOUS
  <1> QED
    BY <1>1 DEF Plans

LEMMA NoRecordFacts == NoRecord \in Plans /\ DOMAIN NoRecord = {}
  <1>1. NoRecord \in [{} -> Own]
    BY DEF NoRecord
  <1> QED
    BY <1>1 DEF Plans, NoRecord

LEMMA ReadyOK == Ready \in Commands /\ Ready.kind = "none" /\ Ready.to = Ready.plan
                 /\ Ready.todo \subseteq DOMAIN Ready.plan
  BY NoRecordFacts DEF Ready, Commands, Keys, Results, Contents, Own, Missing

\* A file of a package manager is in one record at most.
LEMMA OneRecord ==
    ASSUME FileTables, NEW k \in Keys, NEW l \in Keys, NEW f,
           f \in DOMAIN record[k], f \in DOMAIN record[l]
    PROVE  k = l
  <1>1. k # "system" /\ l # "system" => k = l
    BY SourceFilesAssumption DEF FileTables, Scope, Keys
  <1>2. record[k] # NoRecord /\ record[l] # NoRecord
    BY NoRecordFacts
  <1> QED
    BY <1>1, <1>2 DEF FileTables, Alone, Keys

\* The file of a target without a record, when nothing was migrated.
LEMMA UncoveredFile ==
    ASSUME FileTables, record["system"] = NoRecord, NEW k \in Keys, record[k] = NoRecord,
           k = "system" => \A t \in Targets : record[t] = NoRecord, NEW f \in Scope(k)
    PROVE  /\ f \in SystemFiles /\ file[f] = mine[f] /\ mine[f] \in Own
           /\ \A l \in Keys : f \notin DOMAIN record[l]
  <1>1. f \in SystemFiles /\ f \in Files
    BY DEF Scope, Files
  <1>2. ASSUME NEW l \in Keys, f \in DOMAIN record[l] PROVE FALSE
    <2>1. l # "system" /\ l # k /\ k # "system"
      BY <1>2, NoRecordFacts DEF Keys
    <2>2. f \in Scope(l)
      BY <1>2 DEF FileTables
    <2> QED
      BY <2>1, <2>2, SourceFilesAssumption DEF Scope, Keys
  <1> QED
    BY <1>1, <1>2 DEF FileTables, Untouched

\* Two kinds of command never meet in a file.
LEMMA ScopeFacts == /\ \A k \in Keys : Scope(k) \cap AgentFiles = {}
                    /\ SystemFiles \subseteq Files /\ AgentFiles \subseteq Files
                    /\ Managed \notin Own
  BY SourceFilesAssumption DEF Scope, Files, Managed, Own, Missing

-----------------------------------------------------------------------------
\* One file gets new contents: it is in the record of the command at work, or
\* it held nothing of the user's that no setup has kept.
LEMMA FileChanges ==
    ASSUME FilesInv, NEW c \in command.todo, NEW x \in Contents, command.phase = "write",
           file' = [file EXCEPT ![c] = x], UNCHANGED <<record, setups, mine>>,
           command.kind \in {"setup", "undo", "rollback"} =>
              file[c] # mine[c] \/ mine[c] = Missing \/ command.plan[c] = mine[c]
    PROVE  FileTables'
  <1>1. c \in DOMAIN command.plan /\ c \in Files /\ command.kind # "none"
    BY PlanFacts DEF FilesInv, CommandOK, Commands, Ready
  <1>2. file' \in [Files -> Contents] /\ file'[c] = x /\ \A f \in Files : f # c => file'[f] = file[f]
    BY <1>1 DEF FilesInv, FileTables
  <1>3. CASE command.kind \in {"set", "reset"}
    <2>1. /\ command.key \in Keys /\ record[command.key] = command.plan
          /\ c \in DOMAIN record[command.key] /\ record[command.key][c] = mine[c]
      BY <1>1, <1>3 DEF FilesInv, CommandOK, Commands, SetOK, ResetOK
    <2>2. c \in SystemFiles /\ c \notin AgentFiles
      BY <2>1, ScopeFacts DEF FilesInv, FileTables, Scope
    <2>3. Recorded'
      <3> SUFFICES ASSUME NEW k \in Keys, NEW f \in DOMAIN record[k]
                   PROVE  record[k][f] = mine[f] \/ file'[f] = mine[f]
        BY DEF Recorded
      <3>1. CASE f = c
        <4>1. k = command.key
          BY <3>1, <2>1, OneRecord DEF FilesInv
        <4> QED
          BY <4>1, <3>1, <2>1
      <3>2. CASE f # c
        <4>1. f \in Files
          BY ScopeFacts DEF FilesInv, FileTables, Scope
        <4> QED
          BY <4>1, <3>2, <1>2 DEF FilesInv, FileTables, Recorded
      <3> QED
        BY <3>1, <3>2
    <2>4. Untouched'
      BY <1>2, <2>1, ScopeFacts DEF FilesInv, FileTables, Untouched
    <2>5. ASSUME NEW f \in AgentFiles PROVE AgentKept(f)'
      BY <1>2, <2>2, ScopeFacts DEF FilesInv, FileTables, AgentKept
    <2> QED
      BY <1>2, <2>3, <2>4, <2>5 DEF FilesInv, FileTables, Alone
  <1>4. CASE command.kind \in {"setup", "undo", "rollback"}
    <2>1. c \in AgentFiles /\ c \notin SystemFiles
      BY <1>1, <1>4, SourceFilesAssumption DEF FilesInv, CommandOK, AgentOK
    <2>2. PICK i \in DOMAIN setups : setups[i] = command.plan
      BY <1>4 DEF FilesInv, CommandOK, AgentOK
    <2>3. Recorded'
      BY <1>2, <2>1, ScopeFacts DEF FilesInv, FileTables, Recorded, Scope
    <2>4. Untouched'
      BY <1>2, <2>1, ScopeFacts DEF FilesInv, FileTables, Untouched
    <2>5. AgentKept(c)'
      <3>1. AgentKept(c)
        BY <2>1 DEF FilesInv, FileTables
      <3> QED
        BY <3>1, <1>1, <1>4, <2>2 DEF AgentKept
    <2>6. ASSUME NEW f \in AgentFiles, f # c PROVE AgentKept(f)'
      BY <1>2, <2>6, ScopeFacts DEF FilesInv, FileTables, AgentKept
    <2> QED
      BY <1>2, <2>3, <2>4, <2>5, <2>6 DEF FilesInv, FileTables, Alone
  <1> QED
    BY <1>1, <1>3, <1>4 DEF FilesInv, CommandOK, Commands

\* Only the command changes.
LEMMA TablesRest == FileTables /\ UNCHANGED <<file, record, setups, mine>> => FileTables'
  BY DEF FileTables, Alone, Recorded, Untouched, AgentKept

LEMMA CommandEnds == command' = Ready => CommandOK'
  BY ReadyOK DEF CommandOK, Aside, Ready

\* What follows an error: nothing, or the undoing of a setup.
LEMMA ErrorEnds ==
    ASSUME FilesInv, NEW content, command' = AfterError(content), UNCHANGED setups
    PROVE  CommandOK'
  <1> DEFINE attempted == {f \in DOMAIN command.plan : f \in command.todo => f = Current}
  <1>1. CASE command' = Ready
    BY <1>1, CommandEnds
  <1>2. CASE command' # Ready
    <2>1. /\ command.kind = "setup" /\ command.phase = "write"
          /\ command' = [command EXCEPT !.kind = "undo", !.to = command.plan,
                                        !.todo = attempted, !.moved = Missing]
      BY <1>2 DEF AfterError
    <2>2. command \in Commands /\ command.plan \in Plans /\ AgentOK
      BY <2>1 DEF FilesInv, CommandOK, Commands
    <2>3. attempted \in SUBSET Files /\ attempted \subseteq DOMAIN command.plan
      BY <2>2, PlanFacts
    <2> HIDE DEF attempted
    <2>4. /\ command'.kind = "undo" /\ command'.to = command.plan /\ command'.plan = command.plan
          /\ command'.todo = attempted /\ command'.moved = Missing /\ command'.phase = "write"
          /\ command' \in Commands
      BY <2>1, <2>2, <2>3 DEF Commands, Results, Contents, Own
    <2>5. AgentOK'
      BY <2>1, <2>2, <2>4 DEF AgentOK, Aside
    <2> QED
      BY <2>3, <2>4, <2>5 DEF CommandOK, Aside
  <1> QED
    BY <1>1, <1>2

-----------------------------------------------------------------------------
LEMMA SetStep ==
    ASSUME FilesInv, NEW t \in Targets, NEW force \in BOOLEAN, Set(t, force)
    PROVE  FilesInv'
  <1> DEFINE plan == [f \in {FileOf[t]} |-> file[f]]
  <1>1. t \in Keys /\ FileOf[t] \in Scope(t) /\ t # "system"
    BY SourceFilesAssumption DEF Keys, Scope
  <1>2. /\ record["system"] = NoRecord /\ record[t] = NoRecord
        /\ command' = [kind |-> "set", key |-> t, phase |-> "record", plan |-> plan,
                       todo |-> {FileOf[t]}, to |-> Installed(plan), moved |-> Missing]
        /\ UNCHANGED <<file, record, setups, mine>>
    BY DEF Set, Begin
  <1>3. FileOf[t] \in Files /\ file[FileOf[t]] = mine[FileOf[t]] /\ mine[FileOf[t]] \in Own
    BY <1>1, <1>2, UncoveredFile, ScopeFacts DEF FilesInv
  <1>4. plan \in Plans /\ DOMAIN plan = {FileOf[t]} /\ plan[FileOf[t]] = mine[FileOf[t]]
    BY <1>3, PlanOf
  <1> HIDE DEF plan
  <1>5. command' \in Commands
    BY <1>1, <1>2, <1>3, <1>4 DEF Commands, Results, Contents, Own
  <1>6. SetOK'
    BY <1>1, <1>2, <1>4 DEF SetOK
  <1>7. CommandOK'
    BY <1>2, <1>4, <1>5, <1>6 DEF CommandOK, Aside
  <1> QED
    BY <1>2, <1>7, TablesRest DEF FilesInv

LEMMA MigrateStep ==
    ASSUME FilesInv, NEW k \in Keys, NEW create \in BOOLEAN, Migrate(k, create)
    PROVE  FilesInv'
  <1> DEFINE S == {f \in IF k = "apt" THEN AptFiles ELSE SystemFiles :
                     file[f] # Managed /\ (create \/ file[f] # Missing)}
             plan == [f \in S |-> file[f]]
  <1>1. /\ k \in {"apt", "system"} /\ \A r \in Keys : record[r] = NoRecord
        /\ command' = [kind |-> "set", key |-> k, phase |-> "record", plan |-> plan,
                       todo |-> S, to |-> Installed(plan), moved |-> Missing]
        /\ UNCHANGED <<file, record, setups, mine>>
    BY DEF Migrate, Begin
  <1>2. S \subseteq Scope(k) /\ S \subseteq Files
    BY <1>1, ScopeFacts, SourceFilesAssumption DEF Scope
  <1>3. \A f \in S : file[f] = mine[f] /\ file[f] \in Own
    BY <1>1, <1>2, UncoveredFile DEF FilesInv, Keys
  <1>4. plan \in Plans /\ DOMAIN plan = S /\ \A f \in S : plan[f] = mine[f]
    BY <1>2, <1>3, PlanOf
  <1> HIDE DEF plan, S
  <1>5. command' \in Commands
    BY <1>1, <1>2, <1>4 DEF Commands, Results, Contents, Own
  <1>6. SetOK'
    BY <1>1, <1>2, <1>4 DEF SetOK, Keys
  <1>7. CommandOK'
    BY <1>1, <1>4, <1>5, <1>6 DEF CommandOK, Aside
  <1> QED
    BY <1>1, <1>7, TablesRest DEF FilesInv

\* A reset takes back what the user gave up; what it leaves alone is what is
\* recorded.
LEMMA ResetStep ==
    ASSUME FilesInv, NEW k \in Keys, NEW force \in BOOLEAN, Reset(k, force)
    PROVE  FilesInv'
  <1> DEFINE plan == record[k]
             given == {f \in DOMAIN plan : file[f] \notin {plan[f], Managed}}
             single == k # "system" /\ DOMAIN plan = {FileOf[k]}
             todo == IF single /\ file[FileOf[k]] = plan[FileOf[k]] THEN {} ELSE DOMAIN plan
  <1>1. /\ command' = [kind |-> "reset", key |-> k, phase |-> "write", plan |-> plan,
                       todo |-> todo, to |-> plan, moved |-> Missing]
        /\ UNCHANGED <<file, record, setups>>
        /\ mine' = [f \in Files |-> IF f \in given THEN plan[f] ELSE mine[f]]
    BY DEF Reset, Begin
  <1>2. plan \in Plans /\ DOMAIN plan \subseteq Scope(k) /\ DOMAIN plan \subseteq Files
    BY PlanFacts DEF FilesInv, FileTables
  <1>3. \A f \in DOMAIN plan : mine'[f] = plan[f] /\ plan[f] \in Own
    BY <1>1, <1>2, PlanFacts, ScopeFacts DEF FilesInv, FileTables, Recorded
  <1>4. mine' \in [Files -> Own] /\ \A f \in Files : f \notin DOMAIN plan => mine'[f] = mine[f]
    BY <1>1, <1>2, <1>3 DEF FilesInv, FileTables
  <1>5. todo \subseteq DOMAIN plan /\ \A f \in DOMAIN plan : f \in todo \/ file[f] = plan[f]
    OBVIOUS
  <1> HIDE DEF todo, given, single
  <1>6. Recorded'
    <2> SUFFICES ASSUME NEW l \in Keys, NEW f \in DOMAIN record[l]
                 PROVE  record[l][f] = mine'[f] \/ file[f] = mine'[f]
      BY <1>1 DEF Recorded
    <2>1. CASE f \in DOMAIN plan
      BY <2>1, <1>3, OneRecord DEF FilesInv
    <2>2. CASE f \notin DOMAIN plan
      <3>1. f \in Files
        BY ScopeFacts DEF FilesInv, FileTables, Scope
      <3> QED
        BY <3>1, <2>2, <1>4 DEF FilesInv, FileTables, Recorded
    <2> QED
      BY <2>1, <2>2
  <1>7. Untouched'
    BY <1>1, <1>4, ScopeFacts DEF FilesInv, FileTables, Untouched
  <1>8. ASSUME NEW f \in AgentFiles PROVE AgentKept(f)'
    <2>1. f \notin DOMAIN plan /\ f \in Files
      BY <1>2, ScopeFacts
    <2> QED
      BY <2>1, <1>1, <1>4 DEF FilesInv, FileTables, AgentKept
  <1>9. FileTables'
    BY <1>1, <1>4, <1>6, <1>7, <1>8 DEF FilesInv, FileTables, Alone
  <1>10. command' \in Commands
    BY <1>1, <1>2, <1>5 DEF Commands, Results, Contents, Own
  <1>11. ResetOK'
    BY <1>1, <1>3, <1>5 DEF ResetOK
  <1>12. CommandOK'
    BY <1>1, <1>5, <1>10, <1>11 DEF CommandOK, Aside
  <1> QED
    BY <1>9, <1>12 DEF FilesInv

LEMMA SetupStep == FilesInv /\ Setup => FilesInv'
  <1> SUFFICES ASSUME FilesInv, Setup PROVE FilesInv'
    OBVIOUS
  <1> DEFINE S == {f \in AgentFiles : file[f] # Managed}
             plan == [f \in S |-> file[f]]
  <1>1. /\ command' = [kind |-> "setup", key |-> "system", phase |-> "ask", plan |-> plan,
                       todo |-> S, to |-> Installed(plan), moved |-> Missing]
        /\ UNCHANGED <<file, record, setups, mine>>
    BY DEF Setup, Begin
  <1>2. S \subseteq Files /\ S \subseteq AgentFiles /\ \A f \in S : file[f] \in Own
    BY ScopeFacts DEF FilesInv, FileTables, Contents
  <1>3. plan \in Plans /\ DOMAIN plan = S
    BY <1>2, PlanOf
  <1> HIDE DEF plan, S
  <1>4. command' \in Commands
    BY <1>1, <1>2, <1>3 DEF Commands, Results, Contents, Own, Keys
  <1>5. AgentOK'
    BY <1>1, <1>2, <1>3 DEF AgentOK, Aside
  <1>6. CommandOK'
    BY <1>1, <1>3, <1>4, <1>5 DEF CommandOK, Aside
  <1> QED
    BY <1>1, <1>6, TablesRest DEF FilesInv

LEMMA RollbackStep ==
    ASSUME FilesInv, NEW i \in DOMAIN setups, Rollback(i)
    PROVE  FilesInv'
  <1> DEFINE plan == setups[i]
  <1>1. /\ command' = [kind |-> "rollback", key |-> "system", phase |-> "write", plan |-> plan,
                       todo |-> DOMAIN plan, to |-> plan, moved |-> Missing]
        /\ UNCHANGED <<file, record, setups, mine>>
    BY DEF Rollback, Begin
  <1>2. plan \in Plans /\ DOMAIN plan \subseteq AgentFiles /\ DOMAIN plan \subseteq Files
    BY ScopeFacts DEF FilesInv, FileTables
  <1> HIDE DEF plan
  <1>3. command' \in Commands
    BY <1>1, <1>2 DEF Commands, Results, Contents, Own, Keys
  <1>4. AgentOK'
    BY <1>1, <1>2 DEF AgentOK, Aside, plan
  <1>5. CommandOK'
    BY <1>1, <1>3, <1>4 DEF CommandOK, Aside
  <1> QED
    BY <1>1, <1>5, TablesRest DEF FilesInv

LEMMA CurrentIsTodo == command.todo # {} => Current \in command.todo
  BY DEF Current

LEMMA ConfirmStep == FilesInv /\ Confirm => FilesInv'
  <1> SUFFICES ASSUME FilesInv, Confirm PROVE FilesInv'
    OBVIOUS
  <1>1. FileTables'
    BY TablesRest DEF FilesInv, Confirm
  <1>2. CommandOK'
    <2>1. CASE command' = Ready
      BY <2>1, CommandEnds
    <2>2. CASE command' = [command EXCEPT !.phase = "record"]
      <3>1. command \in Commands /\ command.phase = "ask"
        BY DEF FilesInv, CommandOK, Confirm
      <3>2. /\ command' \in Commands /\ command'.phase = "record" /\ command'.kind = command.kind
            /\ command'.plan = command.plan /\ command'.todo = command.todo
            /\ command'.to = command.to /\ command'.moved = command.moved
        BY <2>2, <3>1 DEF Commands
      <3>3. command.kind \in {"setup", "undo", "rollback"}
        BY <3>1 DEF FilesInv, CommandOK, SetOK, ResetOK, Commands, Ready
      <3>4. AgentOK'
        BY <3>1, <3>2, <3>3 DEF FilesInv, CommandOK, AgentOK, Aside
      <3> QED
        BY <3>1, <3>2, <3>3, <3>4 DEF FilesInv, CommandOK, Aside
    <2> QED
      BY <2>1, <2>2 DEF Confirm
  <1> QED
    BY <1>1, <1>2 DEF FilesInv

\* The record goes to disk while everything it covers is the user's.
LEMMA SaveRecordStep == FilesInv /\ SaveRecord => FilesInv'
  <1> SUFFICES ASSUME FilesInv, SaveRecord PROVE FilesInv'
    OBVIOUS
  <1>1. /\ command \in Commands /\ command.phase = "record" /\ command.key \in Keys
        /\ command.plan \in Plans /\ command.kind \notin {"none", "reset"}
    BY DEF FilesInv, CommandOK, SaveRecord, Commands, Ready, ResetOK
  <1>2. command' = [command EXCEPT !.phase = "write"] /\ UNCHANGED <<file, mine>>
    BY DEF SaveRecord
  <1>3. /\ command' \in Commands /\ command'.phase = "write" /\ command'.kind = command.kind
        /\ command'.plan = command.plan /\ command'.todo = command.todo /\ command'.key = command.key
        /\ command'.to = command.to /\ command'.moved = command.moved
    BY <1>1, <1>2 DEF Commands
  <1>4. CASE command.kind = "setup"
    <2>1. setups' = Append(setups, command.plan) /\ UNCHANGED record
      BY <1>4 DEF SaveRecord
    <2>2. setups \in Seq(Plans) /\ DOMAIN command.plan \subseteq AgentFiles
      BY <1>4 DEF FilesInv, FileTables, CommandOK, AgentOK
    <2>3. /\ setups' \in Seq(Plans) /\ DOMAIN setups' = 1..Len(setups) + 1
          /\ setups'[Len(setups) + 1] = command.plan
          /\ DOMAIN setups = 1..Len(setups) /\ Len(setups) \in Nat
          /\ \A i \in DOMAIN setups : i \in DOMAIN setups' /\ setups'[i] = setups[i]
      BY <2>1, <2>2, <1>1
    <2>4. \A i \in DOMAIN setups' : DOMAIN setups'[i] \subseteq AgentFiles
      BY <2>2, <2>3 DEF FilesInv, FileTables
    <2>5. ASSUME NEW f \in AgentFiles PROVE AgentKept(f)'
      BY <1>2, <2>3 DEF FilesInv, FileTables, AgentKept
    <2>6. FileTables'
      BY <1>2, <2>1, <2>3, <2>4, <2>5 DEF FilesInv, FileTables, Alone, Recorded, Untouched
    <2>7. Len(setups) + 1 \in DOMAIN setups'
      BY <2>3
    <2>8. AgentOK'
      BY <1>1, <1>3, <1>4, <2>2, <2>3, <2>7 DEF FilesInv, CommandOK, AgentOK, Aside
    <2> QED
      BY <1>3, <1>4, <2>6, <2>8 DEF FilesInv, CommandOK, Aside
  <1>5. CASE command.kind = "set"
    <2>1. record' = [record EXCEPT ![command.key] = command.plan] /\ UNCHANGED setups
      BY <1>5 DEF SaveRecord
    <2>2. SetOK
      BY <1>5 DEF FilesInv, CommandOK, Aside
    <2>3. /\ record' \in [Keys -> Plans] /\ record'[command.key] = command.plan
          /\ \A k \in Keys : k # command.key => record'[k] = record[k]
      BY <1>1, <2>1 DEF FilesInv, FileTables
    <2>4. \A k \in Keys : DOMAIN record'[k] \subseteq Scope(k)
      BY <2>2, <2>3 DEF FilesInv, FileTables, SetOK
    <2>5. Alone'
      BY <1>1, <2>2, <2>3, SourceFilesAssumption DEF SetOK, Alone, Keys
    <2>6. Recorded'
      <3>1. \A f \in DOMAIN command.plan : command.plan[f] = mine[f]
        BY <2>2 DEF SetOK
      <3> QED
        BY <1>2, <2>3, <3>1 DEF FilesInv, FileTables, Recorded
    <2>7. Untouched'
      <3>1. record[command.key] = NoRecord
        BY <1>1, <2>2 DEF SetOK
      <3> QED
        BY <1>1, <1>2, <2>3, <3>1, NoRecordFacts DEF FilesInv, FileTables, Untouched
    <2>8. FileTables'
      BY <1>2, <2>1, <2>3, <2>4, <2>5, <2>6, <2>7 DEF FilesInv, FileTables, AgentKept
    <2>9. SetOK'
      BY <1>2, <1>3, <2>2, <2>3 DEF SetOK
    <2> QED
      BY <1>3, <1>5, <2>8, <2>9 DEF FilesInv, CommandOK, Aside
  <1>6. CASE command.kind \in {"undo", "rollback"}
    <2>1. record' = [record EXCEPT ![command.key] = command.plan]
      BY <1>6 DEF SaveRecord
    <2> QED
      BY <1>1, <1>6 DEF FilesInv, CommandOK, AgentOK
  <1> QED
    BY <1>1, <1>4, <1>5, <1>6 DEF Commands

\* A file is moved aside only if a record holds it, or it is not the user's.
LEMMA MoveAsideStep == FilesInv /\ MoveAside => FilesInv'
  <1> SUFFICES ASSUME FilesInv, MoveAside PROVE FilesInv'
    OBVIOUS
  <1>1. /\ command \in Commands /\ command.phase = "write" /\ command.todo # {} /\ Identified
        /\ Current \in command.todo /\ Current \in DOMAIN command.plan /\ Current \in Files
        /\ file[Current] \in Contents
    BY CurrentIsTodo, PlanFacts DEF FilesInv, FileTables, CommandOK, Commands, MoveAside, Writing
  <1>2. /\ file' = [file EXCEPT ![Current] = Missing] /\ UNCHANGED <<record, setups, mine>>
        /\ command' = [command EXCEPT !.moved = file[Current]]
    BY DEF MoveAside
  <1>3. command.kind \in {"setup", "undo", "rollback"} =>
           file[Current] # mine[Current] \/ command.plan[Current] = mine[Current]
    <2>1. mine[Current] # Managed
      BY <1>1, ScopeFacts DEF FilesInv, FileTables
    <2>2. command.kind \in {"setup", "undo", "rollback"} =>
             file[Current] \in {command.plan[Current], Managed}
      BY <1>1 DEF Identified
    <2> QED
      BY <2>1, <2>2
  <1>4. Missing \in Contents
    BY DEF Contents, Own
  <1>5. FileTables'
    BY <1>1, <1>2, <1>3, <1>4, FileChanges
  <1>6. /\ command' \in Commands /\ command'.phase = "write" /\ command'.kind = command.kind
        /\ command'.plan = command.plan /\ command'.todo = command.todo /\ command'.key = command.key
        /\ command'.to = command.to
    BY <1>1, <1>2 DEF Commands
  <1>7. Current' = Current
    BY <1>6 DEF Current
  <1>8. file'[Current] = Missing /\ \A f \in Files : f # Current => file'[f] = file[f]
    BY <1>1, <1>2 DEF FilesInv, FileTables
  <1>9. command.kind = "set" => SetOK'
    BY <1>2, <1>6 DEF FilesInv, CommandOK, SetOK
  <1>10. command.kind = "reset" => ResetOK'
    BY <1>1, <1>2, <1>6, <1>8, PlanFacts DEF FilesInv, CommandOK, Commands, ResetOK
  <1>11. command.kind \in {"setup", "undo", "rollback"} => AgentOK'
    BY <1>1, <1>2, <1>6, <1>7, <1>8 DEF FilesInv, CommandOK, AgentOK
  <1>12. command.kind # "none"
    BY <1>1 DEF FilesInv, CommandOK, Ready
  <1> QED
    BY <1>1, <1>5, <1>6, <1>9, <1>10, <1>11, <1>12 DEF FilesInv, CommandOK, Aside

\* Where a command replaces contents, they are recorded or not the user's.
LEMMA ReplacedIsKept ==
    ASSUME FilesInv, command.phase = "write", command.todo # {},
           Aside \/ (Identified /\ (file[Current] = Missing \/ command.to[Current] = Missing)),
           command.kind \in {"setup", "undo", "rollback"}
    PROVE  file[Current] # mine[Current] \/ mine[Current] = Missing
              \/ command.plan[Current] = mine[Current]
  <1>1. Current \in command.todo /\ Current \in DOMAIN command.plan /\ Current \in Files
    BY CurrentIsTodo, PlanFacts DEF FilesInv, CommandOK, Commands
  <1>2. mine[Current] # Managed
    BY <1>1, ScopeFacts DEF FilesInv, FileTables
  <1>3. CASE Aside
    BY <1>3 DEF FilesInv, CommandOK, AgentOK
  <1>4. CASE Identified
    BY <1>2, <1>4 DEF Identified
  <1> QED
    BY <1>3, <1>4

LEMMA ResultIsText ==
    ASSUME FilesInv, NEW f \in command.todo
    PROVE  command.to[f] \in Contents /\ f \in Files /\ f \in DOMAIN command.plan
  BY PlanFacts DEF FilesInv, CommandOK, Commands, Contents

LEMMA InstallStep == FilesInv /\ Install => FilesInv'
  <1> SUFFICES ASSUME FilesInv, Install PROVE FilesInv'
    OBVIOUS
  <1>1. /\ command \in Commands /\ command.phase = "write" /\ command.todo # {}
        /\ Current \in command.todo /\ command.to[Current] \in Contents
        /\ Current \in Files /\ Current \in DOMAIN command.plan
    BY CurrentIsTodo, ResultIsText DEF FilesInv, CommandOK, Install, Writing
  <1>2. /\ file' = [file EXCEPT ![Current] = command.to[Current]]
        /\ UNCHANGED <<record, setups, mine>>
        /\ command' = [command EXCEPT !.moved = Missing, !.todo = command.todo \ {Current}]
    BY DEF Install
  <1>3. FileTables'
    <2>1. command.kind \in {"setup", "undo", "rollback"} =>
             file[Current] # mine[Current] \/ mine[Current] = Missing
                \/ command.plan[Current] = mine[Current]
      BY <1>1, ReplacedIsKept DEF Install
    <2> QED
      BY <1>1, <1>2, <2>1, FileChanges
  <1>4. /\ command' \in Commands /\ command'.phase = "write" /\ command'.kind = command.kind
        /\ command'.plan = command.plan /\ command'.todo = command.todo \ {Current}
        /\ command'.key = command.key /\ command'.to = command.to /\ command'.moved = Missing
    BY <1>1, <1>2 DEF Commands, Contents, Own
  <1>5. file'[Current] = command.to[Current] /\ \A f \in Files : f # Current => file'[f] = file[f]
    BY <1>1, <1>2 DEF FilesInv, FileTables
  <1>6. command.kind = "set" => SetOK'
    BY <1>2, <1>4 DEF FilesInv, CommandOK, SetOK
  <1>7. command.kind = "reset" => ResetOK'
    BY <1>1, <1>2, <1>4, <1>5, PlanFacts DEF FilesInv, CommandOK, Commands, ResetOK
  <1>8. command.kind \in {"setup", "undo", "rollback"} => AgentOK'
    BY <1>1, <1>2, <1>4 DEF FilesInv, CommandOK, AgentOK, Aside
  <1>9. command.kind # "none"
    BY <1>1 DEF FilesInv, CommandOK, Ready
  <1> QED
    BY <1>3, <1>4, <1>6, <1>7, <1>8, <1>9 DEF FilesInv, CommandOK, Aside

\* A record goes when everything it covers is back.
LEMMA FinishStep == FilesInv /\ Finish => FilesInv'
  <1> SUFFICES ASSUME FilesInv, Finish PROVE FilesInv'
    OBVIOUS
  <1>1. CommandOK'
    BY CommandEnds DEF Finish
  <1>2. CASE command.kind # "reset"
    BY <1>1, <1>2, TablesRest DEF FilesInv, Finish
  <1>3. CASE command.kind = "reset"
    <2>1. /\ record' = [record EXCEPT ![command.key] = NoRecord]
          /\ UNCHANGED <<file, setups, mine>> /\ command.todo = {}
      BY <1>3 DEF Finish
    <2>2. ResetOK /\ command.key \in Keys
      BY <1>3 DEF FilesInv, CommandOK, Commands
    <2>3. \A f \in DOMAIN record[command.key] : file[f] = mine[f]
      BY <2>1, <2>2 DEF ResetOK
    <2>4. /\ record' \in [Keys -> Plans] /\ record'[command.key] = NoRecord
          /\ \A k \in Keys : k # command.key => record'[k] = record[k]
      BY <2>1, <2>2, NoRecordFacts DEF FilesInv, FileTables
    <2>5. \A k \in Keys : DOMAIN record'[k] \subseteq Scope(k)
      BY <2>4, NoRecordFacts DEF FilesInv, FileTables
    <2>6. Alone'
      BY <2>2, <2>4 DEF FilesInv, FileTables, Alone, Keys
    <2>7. Recorded'
      BY <2>1, <2>4, NoRecordFacts DEF FilesInv, FileTables, Recorded
    <2>8. Untouched'
      BY <2>1, <2>2, <2>3, <2>4, NoRecordFacts DEF FilesInv, FileTables, Untouched
    <2> QED
      BY <1>1, <2>1, <2>4, <2>5, <2>6, <2>7, <2>8 DEF FilesInv, FileTables, AgentKept
  <1> QED
    BY <1>2, <1>3

LEMMA InstallFailsStep ==
    ASSUME FilesInv, NEW rest \in UserTexts \cup {Missing, Managed}, InstallFails(rest)
    PROVE  FilesInv'
  <1>1. rest \in Contents /\ Aside
    BY DEF Contents, Own, InstallFails
  <1>2. CommandOK'
    BY ErrorEnds DEF InstallFails
  <1>3. CASE command.phase = "write" /\ command.todo # {}
    <2>1. Current \in command.todo
      BY <1>3, CurrentIsTodo
    <2>2. command.kind \in {"setup", "undo", "rollback"} =>
             file[Current] # mine[Current] \/ mine[Current] = Missing
                \/ command.plan[Current] = mine[Current]
      BY <1>1, <1>3, ReplacedIsKept
    <2>3. FileTables'
      BY <1>1, <1>3, <2>1, <2>2, FileChanges DEF InstallFails
    <2> QED
      BY <1>2, <2>3 DEF FilesInv
  <1> QED
    BY <1>1, <1>3 DEF FilesInv, CommandOK, Aside

\* While package managers are configured the user writes nothing; a setup
\* reads again.
LEMMA EditStep ==
    ASSUME FilesInv, NEW f \in Files, NEW c \in UserTexts \cup {Missing}, Edit(f, c)
    PROVE  FilesInv'
  <1>1. /\ file' = [file EXCEPT ![f] = c] /\ mine' = [mine EXCEPT ![f] = c]
        /\ UNCHANGED <<record, setups, command>>
        /\ command.kind \in {"none", "setup", "undo"} /\ (command = Ready \/ ~Aside)
    BY ReadyOK DEF Edit
  <1>2. /\ file' \in [Files -> Contents] /\ mine' \in [Files -> Own]
        /\ file'[f] = c /\ mine'[f] = c
        /\ \A g \in Files : g # f => file'[g] = file[g] /\ mine'[g] = mine[g]
    BY <1>1 DEF FilesInv, FileTables, Contents, Own
  <1>3. Recorded'
    <2> SUFFICES ASSUME NEW k \in Keys, NEW g \in DOMAIN record[k]
                 PROVE  record[k][g] = mine'[g] \/ file'[g] = mine'[g]
      BY <1>1 DEF Recorded
    <2>1. g \in Files
      BY ScopeFacts DEF FilesInv, FileTables, Scope
    <2> QED
      BY <2>1, <1>2 DEF FilesInv, FileTables, Recorded
  <1>4. Untouched'
    BY <1>1, <1>2, ScopeFacts DEF FilesInv, FileTables, Untouched
  <1>5. ASSUME NEW g \in AgentFiles PROVE AgentKept(g)'
    BY <1>1, <1>2, ScopeFacts DEF FilesInv, FileTables, AgentKept
  <1>6. FileTables'
    BY <1>1, <1>2, <1>3, <1>4, <1>5 DEF FilesInv, FileTables, Alone
  <1>7. CommandOK'
    <2>1. command.kind \in {"setup", "undo"} => AgentOK'
      BY <1>1, ReadyOK DEF FilesInv, CommandOK, AgentOK, Aside
    <2> QED
      BY <1>1, <2>1 DEF FilesInv, CommandOK, Aside
  <1> QED
    BY <1>6, <1>7 DEF FilesInv

LEMMA FilesStep == FilesInv /\ [SourceFilesNext]_svars => FilesInv'
  <1> SUFFICES ASSUME FilesInv, [SourceFilesNext]_svars PROVE FilesInv'
    OBVIOUS
  <1>1. CASE StepFails
    <2>1. CommandOK'
      BY <1>1, ErrorEnds DEF StepFails
    <2> QED
      BY <1>1, <2>1, TablesRest DEF FilesInv, StepFails
  <1>2. CASE ChangedMeanwhile
    <2>1. CommandOK'
      BY <1>2, ErrorEnds DEF ChangedMeanwhile
    <2> QED
      BY <1>2, <2>1, TablesRest DEF FilesInv, ChangedMeanwhile
  <1>3. CASE Killed
    BY <1>3, CommandEnds, TablesRest DEF FilesInv, Killed
  <1>4. CASE UNCHANGED svars
    <2>1. UNCHANGED <<file, record, setups, command, mine>>
      BY <1>4 DEF svars
    <2>2. CommandOK'
      BY <2>1 DEF FilesInv, CommandOK, SetOK, ResetOK, AgentOK, Aside, Current
    <2> QED
      BY <2>1, <2>2, TablesRest DEF FilesInv
  <1> QED
    BY <1>1, <1>2, <1>3, <1>4, SetStep, MigrateStep, ResetStep, SetupStep, RollbackStep,
       ConfirmStep, SaveRecordStep, MoveAsideStep, InstallStep, FinishStep, InstallFailsStep,
       EditStep DEF SourceFilesNext

\* Whatever fails, and wherever the client is killed: what the user wrote is
\* in its file or in a record, and a record goes only after everything it
\* covers is back (client main.rs, write_atomic and reset; setup.rs, apply).
THEOREM FilesAreKept == SourceFilesSpec => []FilesKept
  <1>1. SourceFilesInit => FilesInv
    <2> SUFFICES ASSUME SourceFilesInit PROVE FilesInv
      OBVIOUS
    <2>1. \A k \in Keys : record[k] = NoRecord
      BY DEF SourceFilesInit
    <2>2. /\ file \in [Files -> Contents] /\ mine \in [Files -> Own] /\ mine = file
          /\ record \in [Keys -> Plans] /\ setups = <<>> /\ setups \in Seq(Plans)
      BY NoRecordFacts DEF SourceFilesInit, Contents, Own
    <2>3. FileTables
      BY <2>1, <2>2, NoRecordFacts, ScopeFacts
         DEF FileTables, Alone, Recorded, Untouched, AgentKept, Keys
    <2> QED
      BY <2>3, ReadyOK DEF FilesInv, CommandOK, SourceFilesInit, Aside, Ready
  <1>2. FilesInv => FilesKept
    <2> SUFFICES ASSUME FilesInv PROVE FilesKept
      OBVIOUS
    <2>1. UnmanagedIsRestored
      BY NoRecordFacts DEF UnmanagedIsRestored, FilesInv, FileTables, Untouched
    <2>2. NothingLost
      <3> SUFFICES ASSUME NEW f \in Files
                   PROVE  \/ mine[f] = Missing \/ file[f] = mine[f]
                          \/ \E k \in Keys : f \in DOMAIN record[k] /\ record[k][f] = mine[f]
                          \/ \E i \in DOMAIN setups : f \in DOMAIN setups[i] /\ setups[i][f] = mine[f]
        BY DEF NothingLost
      <3>1. CASE f \in AgentFiles
        BY <3>1 DEF FilesInv, FileTables, AgentKept
      <3>2. CASE f \in SystemFiles
        BY <3>2 DEF FilesInv, FileTables, Recorded, Untouched
      <3> QED
        BY <3>1, <3>2 DEF Files
    <2> QED
      BY <2>1, <2>2 DEF FilesKept
  <1> QED
    BY <1>1, <1>2, FilesStep, PTL DEF SourceFilesSpec

=============================================================================
