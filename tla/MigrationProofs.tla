--------------------------- MODULE MigrationProofs ---------------------------
(***************************************************************************)
(* What deployment and startup may rely on, for any jobs, runtimes,        *)
(* bundles and layouts, and any number of calls of apply.                  *)
(***************************************************************************)
EXTENDS Migration, SequenceTheorems, TLAPS

\* Among the tables T is the one of layout l, and one that its metadata may
\* vouch for.
Exists(T, l) == T[TableOf[l]] # NoLayout

Backed(T, l) ==
  /\ Exists(T, l)
  /\ IsAppendOnly[l] => OrderOf[T[TableOf[l]]] = OrderOf[l]

Place == [stage : {"ddl", "check", "insert", "sent"}, bundle : Bundles, at : Nat, alone : BOOLEAN]

Startup ==
  [stage : {"down", "probed", "verifying", "ready"}, binding : Bundles \cup {NoBundle},
   seen : SUBSET Layouts]

TypeInv ==
  /\ tables \in [Tables -> Layouts \cup {NoLayout}]
  /\ clock \in Nat
  /\ job \in [Jobs -> Place \cup {Idle}]
  /\ runtime \in [Runtimes -> Startup]

\* How far a job has come is how far its layouts are backed.
OnCourse(T, stage, b, at) ==
  /\ at \in DOMAIN b.layouts
  /\ stage = "ddl" => \A i \in 1..(at - 1) : Exists(T, b.layouts[i])
  /\ stage # "ddl" => \A l \in LayoutsOf(b) : Exists(T, l)
  /\ stage = "check" => \A i \in 1..(at - 1) : Backed(T, b.layouts[i])
  /\ stage \in {"insert", "sent"} => \A l \in LayoutsOf(b) : Backed(T, l)

JobInv == \A j \in Jobs : job[j] # Idle => OnCourse(tables, job[j].stage, job[j].bundle, job[j].at)

\* What a job then sends, and what is stored of it, stays backed.
Message == [job : Jobs, bundle : Bundles, updated : Nat, awaited : BOOLEAN]

WireInv == \A m \in wire : m \in Message /\ \A l \in LayoutsOf(m.bundle) : Backed(tables, l)

StoredInv == \A x \in metadata : x.record.body \in Layouts /\ Backed(tables, x.record.body)

BackInv == TypeInv /\ JobInv /\ WireInv /\ StoredInv

-----------------------------------------------------------------------------
\* Bundles.

\* A bundle has layouts, each of a table.
LEMMA LayoutsKnown ==
  ASSUME NEW b \in Bundles
  PROVE  /\ Len(b.layouts) \in Nat \ {0} /\ DOMAIN b.layouts = 1..Len(b.layouts)
         /\ \A i \in DOMAIN b.layouts : b.layouts[i] \in Layouts /\ TableOf[b.layouts[i]] \in Tables
         /\ LayoutsOf(b) \subseteq Layouts
<1>1. b.layouts \in Seq(Layouts) /\ b.layouts # << >>
  BY MigrationAssumption
<1>2. Len(b.layouts) \in Nat \ {0} /\ DOMAIN b.layouts = 1..Len(b.layouts)
  BY <1>1, LenProperties, EmptySeq
<1>3. \A i \in DOMAIN b.layouts : b.layouts[i] \in Layouts
  BY <1>1, <1>2, ElementOfSeq
<1> QED
  BY <1>2, <1>3 DEF LayoutsOf, Tables

\* A table once made is never changed: whatever is backed stays backed.
LEMMA BackedStable ==
  ASSUME TypeInv, [Next]_vars
  PROVE  /\ \A l \in Layouts : (Exists(tables, l) => Exists(tables', l)) /\ (Backed(tables, l) => Backed(tables', l))
         /\ \A t \in Tables : tables[t] # NoLayout => tables'[t] = tables[t]
<1>1. \A t \in Tables : tables[t] # NoLayout => tables'[t] = tables[t]
  <2>1. CASE \E j \in Jobs : CreateTable(j)
    BY <2>1 DEF CreateTable, TypeInv
  <2>2. CASE UNCHANGED tables
    BY <2>2
  <2> QED
    BY <2>1, <2>2 DEF Next, vars, database, BeginApply, CheckOrder, SendMetadata, FinishApply, AbortApply,
      StoreMetadata, Probe, ReadMetadata, VerifyTables, Stop
<1>2. \A l \in Layouts : TableOf[l] \in Tables
  BY DEF Tables
<1> QED
  BY <1>1, <1>2 DEF Exists, Backed

\* Moving a job to another statement leaves it a place in apply.
LEMMA PlaceUpdate ==
  ASSUME NEW p \in Place, NEW v \in Nat, NEW w \in {"ddl", "check", "insert", "sent"}
  PROVE  [p EXCEPT !.at = v, !.stage = w] \in Place
BY DEF Place

\* A job moves to its next layout, or to the next stage behind its last one.
LEMMA AdvanceEffect ==
  ASSUME TypeInv, JobInv, NEW j \in Jobs, job[j] # Idle,
         NEW stage \in {"check", "insert"}, Advance(j, stage)
  PROVE  LET n == Len(job[j].bundle.layouts)  p == job[j] IN
         /\ p.bundle \in Bundles /\ p.at \in 1..n
         /\ job' \in [Jobs -> Place \cup {Idle}] /\ job'[j] # Idle
         /\ \A k \in Jobs \ {j} : job'[k] = job[k]
         /\ job'[j].bundle = p.bundle /\ job'[j].alone = p.alone
         /\ p.at < n => job'[j].at = p.at + 1 /\ job'[j].stage = p.stage
         /\ p.at = n => job'[j].at = 1 /\ job'[j].stage = stage
<1> DEFINE n == Len(job[j].bundle.layouts)
           p == job[j]
           v == IF p.at = n THEN 1 ELSE p.at + 1
           w == IF p.at = n THEN stage ELSE p.stage
           q == [p EXCEPT !.at = v, !.stage = w]
<1>1. p \in Place
  BY DEF TypeInv
<1>2. p.bundle \in Bundles /\ n \in Nat \ {0} /\ p.at \in 1..n
  BY <1>1, LayoutsKnown DEF Place, JobInv, OnCourse
<1>3. q \in Place /\ q.stage # "idle"
  <2>1. p.stage \in {"ddl", "check", "insert", "sent"}
    BY <1>1 DEF Place
  <2>2. p.at \in Nat
    BY <1>2
  <2>3. v \in Nat
    BY <2>2
  <2>4. stage \in {"ddl", "check", "insert", "sent"}
    OBVIOUS
  <2>5. w \in {"ddl", "check", "insert", "sent"}
    <3>1. CASE p.at = n
      BY <2>4, <3>1, Zenon
    <3>2. CASE p.at # n
      BY <2>1, <3>2, Zenon
    <3> QED
      BY <3>1, <3>2
  <2> HIDE DEF v, w
  <2>6. q \in Place
    BY <1>1, <2>3, <2>5, PlaceUpdate, Zenon
  <2> HIDE DEF q
  <2> QED
    BY <2>6 DEF Place
<1>4. job' = [job EXCEPT ![j] = q]
  BY DEF Advance
<1>5. job'[j] = q /\ (\A k \in Jobs \ {j} : job'[k] = job[k]) /\ job' \in [Jobs -> Place \cup {Idle}]
  BY <1>3, <1>4 DEF TypeInv
<1>6. q # Idle
  BY <1>3 DEF Idle
<1>7. /\ q.bundle = p.bundle /\ q.alone = p.alone
      /\ p.at < n => q.at = p.at + 1 /\ q.stage = p.stage
      /\ p.at = n => q.at = 1 /\ q.stage = stage
  BY <1>1, <1>2 DEF Place
<1> HIDE DEF q
<1> QED
  BY <1>2, <1>5, <1>6, <1>7

\* A job begins, and every other one knows that it is not alone.
LEMMA BeginEffect ==
  ASSUME TypeInv, NEW j \in Jobs, NEW b \in Bundles, BeginApply(j, b)
  PROVE  /\ job' \in [Jobs -> Place \cup {Idle}]
         /\ job'[j].stage = "ddl" /\ job'[j].bundle = b /\ job'[j].at = 1
         /\ job'[j].alone <=> \A i \in Jobs : job[i].stage = "idle"
         /\ \A k \in Jobs \ {j} :
              \/ job[k] = Idle /\ job'[k] = Idle
              \/ /\ job[k] # Idle /\ job'[k].stage = job[k].stage
                 /\ job'[k].bundle = job[k].bundle /\ job'[k].at = job[k].at /\ ~job'[k].alone
<1>1. \A k \in Jobs : job'[k] =
        IF k = j THEN [stage |-> "ddl", bundle |-> b, at |-> 1,
                       alone |-> \A i \in Jobs : job[i].stage = "idle"]
        ELSE [job[k] EXCEPT !.alone = FALSE]
  BY DEF BeginApply
<1>2. job'[j] \in Place
  <2> DEFINE alone == \A i \in Jobs : job[i].stage = "idle"
  <2>1. alone \in BOOLEAN
    BY Zenon
  <2>2. job'[j] = [stage |-> "ddl", bundle |-> b, at |-> 1, alone |-> alone]
    BY <1>1
  <2> HIDE DEF alone
  <2> QED
    BY <2>1, <2>2 DEF Place
<1>3. ASSUME NEW k \in Jobs \ {j}, job[k] = Idle PROVE job'[k] = Idle
  <2>1. job'[k] = [Idle EXCEPT !.alone = FALSE]
    BY <1>1, <1>3
  <2> QED
    BY <2>1 DEF Idle
<1>4. ASSUME NEW k \in Jobs \ {j}, job[k] # Idle
      PROVE  /\ job'[k] \in Place
             /\ job'[k].stage = job[k].stage
             /\ job'[k].bundle = job[k].bundle /\ job'[k].at = job[k].at /\ ~job'[k].alone
  <2>1. job[k] \in Place
    BY <1>4 DEF TypeInv
  <2>2. \A p \in Place : LET q == [p EXCEPT !.alone = FALSE] IN
          q \in Place /\ q.stage = p.stage /\ q.bundle = p.bundle /\ q.at = p.at /\ ~q.alone
    BY DEF Place
  <2>3. job'[k] = [job[k] EXCEPT !.alone = FALSE]
    BY <1>1
  <2> QED
    BY <2>1, <2>2, <2>3
<1>5. job' = [k \in Jobs |-> job'[k]]
  BY DEF BeginApply
<1>6. job' \in [Jobs -> Place \cup {Idle}]
  BY <1>2, <1>3, <1>4, <1>5
<1> QED
  BY <1>1, <1>3, <1>4, <1>6

\* SendMetadata moves its own job and no other.
LEMMA SendEffect ==
  ASSUME TypeInv, NEW j \in Jobs, SendMetadata(j)
  PROVE  /\ job' \in [Jobs -> Place \cup {Idle}]
         /\ job'[j].stage = "sent" /\ job'[j].bundle = job[j].bundle /\ job'[j].at = job[j].at
         /\ job'[j].alone = job[j].alone
         /\ \A k \in Jobs \ {j} : job'[k] = job[k]
<1>1. job[j] \in Place
  BY DEF SendMetadata, TypeInv, Idle
<1>2. \A p \in Place : LET q == [p EXCEPT !.stage = "sent"] IN
        q \in Place /\ q.stage = "sent" /\ q.bundle = p.bundle /\ q.at = p.at /\ q.alone = p.alone
  BY DEF Place
<1>3. job' = [job EXCEPT ![j] = [job[j] EXCEPT !.stage = "sent"]]
  BY DEF SendMetadata
<1> QED
  BY <1>1, <1>2, <1>3 DEF TypeInv

\* Steps that only move one job to where OnCourse holds of it keep JobInv.
LEMMA OnCourseStable ==
  ASSUME TypeInv, [Next]_vars, NEW b \in Bundles, NEW s, NEW i, OnCourse(tables, s, b, i)
  PROVE  OnCourse(tables', s, b, i)
<1>1. \A l \in Layouts : (Exists(tables, l) => Exists(tables', l)) /\ (Backed(tables, l) => Backed(tables', l))
  BY BackedStable
<1>2. i \in Nat /\ \A k \in 1..(i - 1) : b.layouts[k] \in Layouts
  BY LayoutsKnown DEF OnCourse
<1>3. LayoutsOf(b) \subseteq Layouts
  BY LayoutsKnown
<1> QED
  BY <1>1, <1>2, <1>3 DEF OnCourse

-----------------------------------------------------------------------------
\* Nothing is vouched for that the database does not back.
LEMMA TypeStep ==
  ASSUME BackInv, [Next]_vars
  PROVE  TypeInv'
<1> USE DEF BackInv
<1>1. ASSUME NEW j \in Jobs, NEW b \in Bundles, BeginApply(j, b) PROVE TypeInv'
  <2>1. job' \in [Jobs -> Place \cup {Idle}]
    BY <1>1, BeginEffect
  <2> QED
    BY <1>1, <2>1 DEF BeginApply, database, TypeInv
<1>2. ASSUME NEW j \in Jobs, CreateTable(j) PROVE TypeInv'
  <2>1. job[j] # Idle
    BY <1>2 DEF CreateTable, Idle
  <2>2. job' \in [Jobs -> Place \cup {Idle}] /\ job[j].bundle \in Bundles /\ Layout(j) \in Layouts
    BY <1>2, <2>1, AdvanceEffect, LayoutsKnown DEF CreateTable, Layout, JobInv, OnCourse
  <2> QED
    BY <1>2, <2>2 DEF CreateTable, TypeInv
<1>3. ASSUME NEW j \in Jobs, CheckOrder(j) PROVE TypeInv'
  <2>1. job[j] # Idle
    BY <1>3 DEF CheckOrder, Idle
  <2>2. job' \in [Jobs -> Place \cup {Idle}]
    BY <1>3, <2>1, AdvanceEffect DEF CheckOrder
  <2> QED
    BY <1>3, <2>2 DEF CheckOrder, database, TypeInv
<1>4. ASSUME NEW j \in Jobs, SendMetadata(j) PROVE TypeInv'
  <2>1. job' \in [Jobs -> Place \cup {Idle}]
    BY <1>4, SendEffect
  <2> QED
    BY <1>4, <2>1 DEF SendMetadata, TypeInv
<1>5. ASSUME NEW j \in Jobs, FinishApply(j) \/ AbortApply(j) PROVE TypeInv'
  BY <1>5 DEF FinishApply, AbortApply, TypeInv
<1>6. ASSUME NEW m \in wire, StoreMetadata(m) PROVE TypeInv'
  BY <1>6 DEF StoreMetadata, TypeInv
<1>7. ASSUME NEW r \in Runtimes, NEW b \in Bundles, Probe(r, b) PROVE TypeInv'
  BY <1>7 DEF Probe, database, TypeInv, Startup
<1>8. ASSUME NEW r \in Runtimes, ReadMetadata(r) PROVE TypeInv'
  <2>1. {x.record.body : x \in MT!Final(metadata)} \in SUBSET Layouts
    BY DEF MT!Final, StoredInv
  <2>2. ASSUME NEW q \in Startup, NEW S \in SUBSET Layouts
        PROVE  [q EXCEPT !.stage = "verifying", !.seen = S] \in Startup
    <3>1. [q EXCEPT !.stage = "verifying"] \in Startup
      BY DEF Startup
    <3>2. \A u \in Startup : [u EXCEPT !.seen = S] \in Startup
      BY DEF Startup
    <3> QED
      BY <3>1, <3>2
  <2>3. runtime' = [runtime EXCEPT ![r] = [runtime[r] EXCEPT
          !.stage = "verifying", !.seen = {x.record.body : x \in MT!Final(metadata)}]]
    BY <1>8 DEF ReadMetadata
  <2> DEFINE seen == {x.record.body : x \in MT!Final(metadata)}
             next == [runtime[r] EXCEPT !.stage = "verifying", !.seen = seen]
  <2>4. seen \in SUBSET Layouts /\ runtime[r] \in Startup
    BY <2>1 DEF TypeInv
  <2> HIDE DEF seen
  <2>5. next \in Startup
    BY <2>2, <2>4
  <2>6. runtime' = [runtime EXCEPT ![r] = next]
    BY <2>3 DEF seen
  <2> HIDE DEF next
  <2> QED
    BY <1>8, <2>5, <2>6 DEF ReadMetadata, database, TypeInv
<1>9. ASSUME NEW r \in Runtimes, VerifyTables(r) \/ Stop(r) PROVE TypeInv'
  <2>1. Down \in Startup
    BY DEF Down, Startup
  <2>2. ASSUME NEW q \in Startup
        PROVE  [q EXCEPT !.stage = "ready", !.seen = {}] \in Startup
    BY DEF Startup
  <2>3. \/ runtime' = [runtime EXCEPT ![r] = [runtime[r] EXCEPT !.stage = "ready", !.seen = {}]]
        \/ runtime' = [runtime EXCEPT ![r] = Down]
    BY <1>9 DEF VerifyTables, Stop, Refuse
  <2>4. runtime[r] \in Startup /\ runtime \in [Runtimes -> Startup]
    BY DEF TypeInv
  <2>5. runtime' \in [Runtimes -> Startup]
    BY <2>1, <2>2, <2>3, <2>4
  <2>6. UNCHANGED <<tables, clock, job>>
    BY <1>9 DEF VerifyTables, Stop, database
  <2> QED
    BY <2>5, <2>6 DEF TypeInv
<1>10. CASE UNCHANGED vars
  BY <1>10 DEF vars, database, TypeInv
<1> QED
  BY <1>1, <1>2, <1>3, <1>4, <1>5, <1>6, <1>7, <1>8, <1>9, <1>10 DEF Next

\* How far a job has come is how far its layouts exist, after any step.
LEMMA JobStep ==
  ASSUME BackInv, [Next]_vars
  PROVE  JobInv'
<1> USE DEF BackInv
<1>1. \A b \in Bundles : \A s, i : OnCourse(tables, s, b, i) => OnCourse(tables', s, b, i)
  BY OnCourseStable
<1>2. \A k \in Jobs : job[k] # Idle =>
        job[k].bundle \in Bundles /\ OnCourse(tables', job[k].stage, job[k].bundle, job[k].at)
  <2>1. \A k \in Jobs : job[k] # Idle => job[k].bundle \in Bundles
    BY DEF TypeInv, Place
  <2> QED
    BY <1>1, <2>1, Zenon DEF JobInv
<1>3. ASSUME NEW j \in Jobs, NEW b \in Bundles, BeginApply(j, b) PROVE JobInv'
  <2>1. OnCourse(tables', "ddl", b, 1)
    BY LayoutsKnown DEF OnCourse
  <2> QED
    BY <1>2, <1>3, <2>1, BeginEffect DEF JobInv
<1>4. ASSUME NEW j \in Jobs, CreateTable(j) PROVE JobInv'
  <2>1. job[j].stage = "ddl" /\ job[j] # Idle
    BY <1>4 DEF CreateTable, Idle
  <2> DEFINE b == job[j].bundle
             n == Len(b.layouts)
  <2>0. /\ b \in Bundles /\ job[j].at \in 1..n
        /\ \A k \in Jobs \ {j} : job'[k] = job[k]
        /\ job'[j].bundle = b
        /\ job[j].at < n => job'[j].at = job[j].at + 1 /\ job'[j].stage = job[j].stage
        /\ job[j].at = n => job'[j].at = 1 /\ job'[j].stage = "check"
    BY <1>4, <2>1, AdvanceEffect DEF CreateTable
  <2>2. b \in Bundles /\ job[j].at \in 1..n /\ DOMAIN b.layouts = 1..n /\ n \in Nat
    BY <2>0, LayoutsKnown
  <2>3. Layout(j) \in Layouts /\ TableOf[Layout(j)] \in Tables
    BY <2>2, LayoutsKnown DEF Layout
  <2>4. Exists(tables', Layout(j))
    BY <1>4, <2>3, MigrationAssumption DEF CreateTable, TypeInv, Exists
  <2>5. \A i \in 1..job[j].at : Exists(tables', b.layouts[i])
    BY <1>2, <2>1, <2>2, <2>4 DEF OnCourse, Layout
  <2>6. OnCourse(tables', job'[j].stage, b, job'[j].at)
    <3>1. CASE job[j].at < n
      <4>1. job'[j].stage = "ddl" /\ job'[j].at = job[j].at + 1
        BY <2>0, <2>1, <3>1
      <4>2. job'[j].at \in DOMAIN b.layouts /\ job'[j].at - 1 = job[j].at
        BY <2>2, <3>1, <4>1
      <4> QED
        BY <2>5, <4>1, <4>2 DEF OnCourse
    <3>2. CASE job[j].at = n
      <4>1. \A l \in LayoutsOf(b) : Exists(tables', l)
        BY <2>2, <2>5, <3>2 DEF LayoutsOf
      <4>2. job'[j].at = 1 /\ job'[j].stage = "check"
        BY <2>0, <3>2
      <4> QED
        BY <2>2, <4>1, <4>2 DEF OnCourse
    <3> QED
      BY <2>2, <3>1, <3>2
  <2> QED
    BY <1>2, <1>4, <2>1, <2>6, <2>0 DEF JobInv
<1>5. ASSUME NEW j \in Jobs, CheckOrder(j) PROVE JobInv'
  <2>1. job[j].stage = "check" /\ job[j] # Idle
    BY <1>5 DEF CheckOrder, Idle
  <2> DEFINE b == job[j].bundle
             n == Len(b.layouts)
  <2>0. /\ b \in Bundles /\ job[j].at \in 1..n
        /\ \A k \in Jobs \ {j} : job'[k] = job[k]
        /\ job'[j].bundle = b
        /\ job[j].at < n => job'[j].at = job[j].at + 1 /\ job'[j].stage = job[j].stage
        /\ job[j].at = n => job'[j].at = 1 /\ job'[j].stage = "insert"
    BY <1>5, <2>1, AdvanceEffect DEF CheckOrder
  <2>2. b \in Bundles /\ job[j].at \in 1..n /\ DOMAIN b.layouts = 1..n /\ n \in Nat
    BY <2>0, LayoutsKnown
  <2>3. Layout(j) \in LayoutsOf(b)
    BY <2>2 DEF Layout, LayoutsOf
  <2>4. Backed(tables, Layout(j))
    BY <1>5, <2>1, <2>3 DEF CheckOrder, OrderMatches, Backed, JobInv, OnCourse
  <2>5. Backed(tables', Layout(j))
    BY <2>2, <2>3, <2>4, BackedStable, LayoutsKnown
  <2>6. \A i \in 1..job[j].at : Backed(tables', b.layouts[i])
    BY <1>2, <2>1, <2>2, <2>5 DEF OnCourse, Layout
  <2>7. \A l \in LayoutsOf(b) : Exists(tables', l)
    BY <1>2, <2>1 DEF OnCourse
  <2>8. OnCourse(tables', job'[j].stage, b, job'[j].at)
    <3>1. CASE job[j].at < n
      BY <1>5, <2>1, <2>2, <2>6, <2>7, <2>0, <3>1 DEF OnCourse
    <3>2. CASE job[j].at = n
      <4>1. \A l \in LayoutsOf(b) : Backed(tables', l)
        BY <2>2, <2>6, <3>2 DEF LayoutsOf
      <4>2. job'[j].at = 1 /\ job'[j].stage = "insert"
        BY <2>0, <3>2
      <4> QED
        BY <2>2, <2>7, <4>1, <4>2 DEF OnCourse
    <3> QED
      BY <2>2, <3>1, <3>2
  <2> QED
    BY <1>2, <1>5, <2>1, <2>8, <2>0 DEF JobInv
<1>6. ASSUME NEW j \in Jobs, SendMetadata(j) PROVE JobInv'
  <2>1. job[j].stage = "insert" /\ job[j] # Idle
    BY <1>6 DEF SendMetadata, Idle
  <2>2. OnCourse(tables', "sent", job[j].bundle, job[j].at)
    BY <1>2, <2>1 DEF OnCourse
  <2> QED
    BY <1>2, <1>6, <2>2, SendEffect DEF JobInv
<1>7. ASSUME NEW j \in Jobs, FinishApply(j) \/ AbortApply(j) PROVE JobInv'
  BY <1>2, <1>7 DEF FinishApply, AbortApply, JobInv, TypeInv
<1>8. CASE UNCHANGED job
  BY <1>2, <1>8 DEF JobInv
<1> QED
  BY <1>3, <1>4, <1>5, <1>6, <1>7, <1>8 DEF Next, vars, StoreMetadata, Probe, ReadMetadata, VerifyTables, Stop

\* An insert that was sent and a row that is stored came from a job that had
\* found every layout of its bundle backed.
LEMMA StoredStep ==
  ASSUME BackInv, [Next]_vars
  PROVE  WireInv' /\ StoredInv'
<1> USE DEF BackInv
<1>1. \A l \in Layouts : Backed(tables, l) => Backed(tables', l)
  BY BackedStable
<1>2. \A m \in wire : m \in Message /\ m.bundle \in Bundles /\ \A l \in LayoutsOf(m.bundle) : Backed(tables', l)
  <2>1. \A m \in wire : m \in Message /\ m.bundle \in Bundles
    BY DEF WireInv, Message
  <2> QED
    BY <1>1, <2>1, LayoutsKnown DEF WireInv
<1>3. \A x \in metadata : x.record.body \in Layouts /\ Backed(tables', x.record.body)
  BY <1>1 DEF StoredInv
<1>4. ASSUME NEW j \in Jobs, SendMetadata(j) PROVE WireInv' /\ StoredInv'
  <2>1. job[j].stage = "insert" /\ job[j] # Idle
    BY <1>4 DEF SendMetadata, Idle
  <2>2. job[j].bundle \in Bundles /\ \A l \in LayoutsOf(job[j].bundle) : Backed(tables, l)
    BY <2>1 DEF TypeInv, Place, JobInv, OnCourse
  <2>3. \A l \in LayoutsOf(job[j].bundle) : Backed(tables', l)
    BY <1>1, <2>2, LayoutsKnown
  <2> DEFINE m == [job |-> j, bundle |-> job[j].bundle, updated |-> clock, awaited |-> TRUE]
  <2>4. m \in Message /\ m.bundle = job[j].bundle
    BY <2>2 DEF Message, TypeInv
  <2>5. wire' = wire \cup {m} /\ metadata' = metadata
    BY <1>4 DEF SendMetadata, Stamp
  <2> HIDE DEF m
  <2> QED
    BY <1>2, <1>3, <2>3, <2>4, <2>5 DEF WireInv, StoredInv
<1>5. ASSUME NEW j \in Jobs, FinishApply(j) PROVE WireInv' /\ StoredInv'
  BY <1>2, <1>3, <1>5 DEF FinishApply, WireInv, StoredInv, MT!Final
<1>6. ASSUME NEW j \in Jobs, AbortApply(j) PROVE WireInv' /\ StoredInv'
  <2>1. ASSUME NEW m \in wire'
        PROVE  m \in Message /\ \A l \in LayoutsOf(m.bundle) : Backed(tables', l)
    <3>1. PICK o \in wire : m = [o EXCEPT !.awaited = o.awaited /\ o.job # j]
      BY <1>6 DEF AbortApply
    <3>2. o \in Message
      BY <1>2
    <3>3. (o.awaited /\ o.job # j) \in BOOLEAN
      BY Zenon
    <3>4. m \in Message /\ m.bundle = o.bundle
      BY <3>1, <3>2, <3>3 DEF Message
    <3> QED
      BY <1>2, <3>4
  <2> QED
    BY <1>3, <1>6, <2>1 DEF AbortApply, WireInv, StoredInv
<1>7. ASSUME NEW m \in wire, StoreMetadata(m) PROVE WireInv' /\ StoredInv'
  <2>1. \A i \in DOMAIN m.bundle.layouts :
          /\ MetadataRow(m, i).record.body \in Layouts
          /\ Backed(tables', MetadataRow(m, i).record.body)
    BY <1>2, LayoutsKnown DEF MetadataRow, LayoutsOf
  <2> QED
    BY <1>2, <1>3, <1>7, <2>1 DEF StoreMetadata, WireInv, StoredInv
<1>8. CASE UNCHANGED <<wire, metadata>>
  BY <1>2, <1>3, <1>8 DEF WireInv, StoredInv
<1> QED
  BY <1>4, <1>5, <1>6, <1>7, <1>8
  DEF Next, vars, database, BeginApply, CreateTable, CheckOrder, Probe, ReadMetadata, VerifyTables, Stop

\* What jobs, inserts and metadata rest on is always there.
LEMMA Invariance == Spec => []BackInv
<1>1. Init => BackInv
  BY DEF Init, BackInv, TypeInv, JobInv, WireInv, StoredInv, Down, Startup
<1>2. BackInv /\ [Next]_vars => BackInv'
  <2> SUFFICES ASSUME BackInv, [Next]_vars PROVE BackInv'
    OBVIOUS
  <2>1. TypeInv'
    BY TypeStep
  <2>2. JobInv'
    BY JobStep
  <2>3. WireInv' /\ StoredInv'
    BY StoredStep
  <2> QED
    BY <2>1, <2>2, <2>3 DEF BackInv
<1> QED
  BY <1>1, <1>2, PTL DEF Spec

\* Metadata names only tables that exist and have the sorting key that an
\* append-only layout needs, however jobs overlap, crash and repeat
\* (ClickHouseMigrator.apply).
THEOREM MetadataIsBacked == Spec => []MetadataBacked
<1>1. BackInv => MetadataBacked
  BY DEF BackInv, StoredInv, MetadataBacked, Backed, Exists
<1> QED
  BY <1>1, Invariance, PTL

-----------------------------------------------------------------------------
\* Startup.

Physical(T, l) == Backed(T, l) /\ ColumnsOf[T[TableOf[l]]] = ColumnsOf[l]

ReadyInv ==
  \A r \in Runtimes : runtime[r].stage = "ready" =>
    \A l \in LayoutsOf(runtime[r].binding) : Physical(tables, l)

\* A runtime that serves found every table of its Binding as the layout says,
\* and no job or other runtime can change that afterwards (verify_physical).
THEOREM ReadinessLasts == Spec => []ReadyIsPhysical
<1>1. Init => ReadyInv
  BY DEF Init, Down, ReadyInv
<1>2. BackInv /\ ReadyInv /\ [Next]_vars => ReadyInv'
  <2> SUFFICES ASSUME BackInv, ReadyInv, [Next]_vars, NEW r \in Runtimes,
                      runtime'[r].stage = "ready",
                      NEW l \in LayoutsOf(runtime'[r].binding)
               PROVE  Physical(tables', l)
    BY DEF ReadyInv
  <2>1. \A k \in Layouts : Physical(tables, k) => Physical(tables', k)
    <3> SUFFICES ASSUME NEW k \in Layouts, Physical(tables, k) PROVE Physical(tables', k)
      OBVIOUS
    <3>1. TableOf[k] \in Tables /\ tables[TableOf[k]] # NoLayout
      BY DEF Physical, Backed, Exists, Tables
    <3>2. tables'[TableOf[k]] = tables[TableOf[k]]
      BY <3>1, BackedStable DEF BackInv
    <3> QED
      BY <3>2 DEF Physical, Backed, Exists
  <2>2. runtime[r].binding \in Bundles \cup {NoBundle}
    BY DEF BackInv, TypeInv, Startup
  <2>3. LayoutsOf(NoBundle) = {}
    BY DEF LayoutsOf, NoBundle
  <2>4. LayoutsOf(runtime[r].binding) \subseteq Layouts
    BY <2>2, <2>3, LayoutsKnown
  <2>5. CASE runtime'[r] = runtime[r]
    BY <2>1, <2>4, <2>5 DEF ReadyInv
  <2>6. ASSUME NEW q \in Runtimes, NEW b \in Bundles, Probe(q, b), runtime'[r] # runtime[r]
        PROVE  FALSE
    BY <2>6 DEF Probe, BackInv, TypeInv
  <2>7. ASSUME NEW q \in Runtimes, ReadMetadata(q) \/ Stop(q), runtime'[r] # runtime[r]
        PROVE  FALSE
    <3>1. runtime'[r].stage \in {"verifying", "down"}
      BY <2>7 DEF ReadMetadata, Stop, Refuse, Down, BackInv, TypeInv, Startup
    <3> QED
      BY <3>1
  <2>8. ASSUME NEW q \in Runtimes, VerifyTables(q), runtime'[r] # runtime[r]
        PROVE  Physical(tables', l)
    <3>1. q = r /\ runtime'[r].binding = runtime[r].binding
          /\ \A k \in LayoutsOf(runtime[r].binding) : Verified(runtime[r].seen, k)
      BY <2>8 DEF VerifyTables, Refuse, Down, BackInv, TypeInv, Startup
    <3>2. l \in Layouts /\ Verified(runtime[r].seen, l)
      BY <2>4, <3>1
    <3>3. Physical(tables, l)
      BY <3>2, MigrationAssumption DEF Verified, OrderMatches, Physical, Backed, Exists
    <3> QED
      BY <2>1, <3>2, <3>3
  <2> QED
    BY <2>5, <2>6, <2>7, <2>8 DEF Next, vars, BeginApply, CreateTable, CheckOrder, SendMetadata,
      FinishApply, AbortApply, StoreMetadata
<1>3. ReadyInv => ReadyIsPhysical
  BY DEF ReadyInv, ReadyIsPhysical, Physical, Backed, Exists
<1> QED
  BY <1>1, <1>2, <1>3, Invariance, PTL DEF Spec

-----------------------------------------------------------------------------
\* What an apply leaves in the metadata table of an engine that forgets tokens.

RowOf(b, n, i, u) ==
  [scope |-> "database", record |-> [key |-> ResourceOf[b.layouts[i]], body |-> b.layouts[i]],
   ingested |-> u, block |-> n, pos |-> i]

RowsOf(b, n, u) == {RowOf(b, n, i, u) : i \in DOMAIN b.layouts}

\* The rows R hold one block of bundle b, stamped u; all others are older.
Settled(R, b, u) ==
  \E n \in Nat : RowsOf(b, n, u) \subseteq R /\ \A x \in R \ RowsOf(b, n, u) : x.ingested < u

Older(u) == (\A m \in wire : m.updated < u) /\ (\A x \in metadata : x.ingested < u)

SeenInv ==
  /\ tokens \in Seq({b.id : b \in Bundles})
  /\ \A m \in wire : m.updated <= clock
  /\ \A x \in metadata : x.scope = "database" /\ x.ingested \in Nat /\ x.ingested <= clock

\* The insert of a job that is alone is on its way or stored.
Sent(j) ==
  \/ \E own \in wire : /\ own.job = j /\ own.bundle = job[j].bundle
                       /\ own.updated = clock /\ own.awaited
                       /\ \A m \in wire \ {own} : m.updated < clock
                       /\ \A x \in metadata : x.ingested < clock
  \/ (\A m \in wire : m.updated < clock) /\ Settled(metadata, job[j].bundle, clock)

AloneInv ==
  \A j \in Jobs : job[j].alone =>
    /\ \A k \in Jobs \ {j} : job[k] = Idle
    /\ job[j].stage # "sent" => Older(clock)
    /\ job[j].stage = "sent" => Sent(j)

CurrentInv ==
  current # NoBundle =>
    /\ current \in Bundles
    /\ \A j \in Jobs : job[j] = Idle
    /\ \A m \in wire : m.updated < clock
    /\ Settled(metadata, current, clock)

SettleInv == SeenInv /\ AloneInv /\ CurrentInv

\* The layouts of a bundle are of different Resources.
LEMMA OneRowPerResource ==
  ASSUME NEW b \in Bundles, NEW n, NEW u, NEW x \in RowsOf(b, n, u), NEW y \in RowsOf(b, n, u),
         x.record.key = y.record.key
  PROVE  x = y
BY MigrationAssumption DEF RowsOf, RowOf

\* OPTIMIZE ... FINAL and a FINAL read keep every row of the last bundle.
LEMMA SettledSurvives ==
  ASSUME NEW b \in Bundles, NEW R, NEW u \in Nat, NEW n \in Nat, RowsOf(b, n, u) \subseteq R,
         \A x \in R : x.ingested \in Nat,
         \A x \in R \ RowsOf(b, n, u) : x.ingested < u
  PROVE  /\ RowsOf(b, n, u) \subseteq MT!Final(R)
         /\ \A x \in MT!Final(R) \ RowsOf(b, n, u) : x.ingested < u
<1>1. ASSUME NEW x \in RowsOf(b, n, u), NEW y \in R, MT!SameKey(x, y), MT!Newer(y, x) PROVE FALSE
  <2>1. x.ingested = u /\ x.record.key = y.record.key
    BY <1>1 DEF RowsOf, RowOf, MT!SameKey
  <2>2. y \in RowsOf(b, n, u)
    BY <1>1, <2>1 DEF MT!Newer
  <2>3. x = y
    BY <2>1, <2>2, OneRowPerResource
  <2>4. x.pos \in Nat /\ x.block = n
    BY LayoutsKnown DEF RowsOf, RowOf
  <2>5. y.ingested = u /\ y.pos = x.pos /\ y.block = x.block
    BY <2>1, <2>3
  <2> QED
    BY <1>1, <2>1, <2>4, <2>5 DEF MT!Newer
<1> QED
  BY <1>1 DEF MT!Final, MT!Superseded

\* What StoreMetadata stores where no token is remembered.
LEMMA StoreEffect ==
  ASSUME EngineWindow = 0, BackInv, SeenInv, NEW m \in wire, StoreMetadata(m)
  PROVE  /\ wire' = wire \ {m}
         /\ \E n \in Nat : metadata' = metadata \cup RowsOf(m.bundle, n, m.updated)
         /\ tokens' \in Seq({b.id : b \in Bundles})
<1>1. Len(tokens) \in Nat
  BY LenProperties DEF SeenInv
<1>2. Remembered = {}
  BY <1>1 DEF Remembered
<1>3. m.bundle.id \in {b.id : b \in Bundles}
  BY DEF BackInv, WireInv, Message
<1>4. metadata' = metadata \cup RowsOf(m.bundle, Len(tokens) + 1, m.updated) /\ tokens' = Append(tokens, m.bundle.id)
  BY <1>2 DEF StoreMetadata, MetadataRow, RowsOf, RowOf
<1>5. tokens' \in Seq({b.id : b \in Bundles})
  BY <1>3, <1>4, AppendProperties DEF SeenInv
<1> QED
  BY <1>1, <1>4, <1>5 DEF StoreMetadata

\* Older rows leave a settled bundle settled.
LEMMA SettledGrows ==
  ASSUME NEW b, NEW R, NEW S, NEW u, Settled(R, b, u), \A x \in S : x.ingested < u
  PROVE  Settled(R \cup S, b, u)
<1>1. PICK n \in Nat : RowsOf(b, n, u) \subseteq R /\ \A x \in R \ RowsOf(b, n, u) : x.ingested < u
  BY DEF Settled
<1> QED
  BY <1>1 DEF Settled

\* No stamp is later than the clock, after any step.
LEMMA SeenStep ==
  ASSUME EngineWindow = 0, BackInv, SeenInv, [Next]_vars
  PROVE  SeenInv'
<1>1. \A m \in wire : m.updated \in Nat /\ clock \in Nat
  BY DEF BackInv, WireInv, Message, TypeInv
<1>2. ASSUME NEW j \in Jobs, NEW b \in Bundles, BeginApply(j, b) PROVE SeenInv'
  BY <1>1, <1>2 DEF BackInv, TypeInv, BeginApply, database, SeenInv
<1>3. ASSUME NEW j \in Jobs, SendMetadata(j) PROVE SeenInv'
  BY <1>1, <1>3 DEF BackInv, TypeInv, SendMetadata, Stamp, SeenInv
<1>4. ASSUME NEW j \in Jobs, FinishApply(j) PROVE SeenInv'
  BY <1>4 DEF FinishApply, MT!Final, SeenInv
<1>5. ASSUME NEW j \in Jobs, AbortApply(j) PROVE SeenInv'
  <2>1. ASSUME NEW m \in wire' PROVE m.updated <= clock
    <3>1. PICK o \in wire : m = [o EXCEPT !.awaited = o.awaited /\ o.job # j]
      BY <1>5 DEF AbortApply
    <3>2. m.updated = o.updated
      BY <3>1 DEF BackInv, WireInv, Message
    <3> QED
      BY <3>2 DEF SeenInv
  <2> QED
    BY <1>5, <2>1 DEF AbortApply, SeenInv
<1>6. ASSUME NEW m \in wire, StoreMetadata(m) PROVE SeenInv'
  <2>1. PICK n \in Nat : metadata' = metadata \cup RowsOf(m.bundle, n, m.updated)
    BY <1>6, StoreEffect
  <2>2. \A x \in RowsOf(m.bundle, n, m.updated) :
          x.scope = "database" /\ x.ingested \in Nat /\ x.ingested <= clock
    BY <1>1 DEF RowsOf, RowOf, SeenInv
  <2>3. clock' = clock /\ wire' \subseteq wire
    BY <1>6 DEF StoreMetadata
  <2>4. tokens' \in Seq({b.id : b \in Bundles})
    BY <1>6, StoreEffect
  <2> QED
    BY <2>1, <2>2, <2>3, <2>4 DEF SeenInv
<1>7. CASE UNCHANGED <<metadata, tokens, wire, clock>>
  BY <1>7 DEF SeenInv
<1> QED
  BY <1>2, <1>3, <1>4, <1>5, <1>6, <1>7
  DEF Next, vars, database, CreateTable, CheckOrder, Probe, ReadMetadata, VerifyTables, Stop

\* A job that is alone is the only one that can take a step.
LEMMA OnlyOne ==
  ASSUME BackInv, AloneInv, NEW j \in Jobs, NEW k \in Jobs, job[j].alone, job[k].stage # "idle"
  PROVE  k = j
BY DEF AloneInv, Idle

\* A job that is alone keeps the latest stamp, after any step.
LEMMA AloneStep ==
  ASSUME EngineWindow = 0, BackInv, SettleInv, [Next]_vars
  PROVE  AloneInv'
<1> USE DEF SettleInv
<1>0. clock \in Nat /\ \A m \in wire : m.updated \in Nat /\ m.bundle \in Bundles /\ m.job \in Jobs
  BY DEF BackInv, WireInv, Message, TypeInv
<1> SUFFICES ASSUME NEW j \in Jobs, job'[j].alone
             PROVE  /\ \A k \in Jobs \ {j} : job'[k] = Idle
                    /\ job'[j].stage # "sent" => Older(clock)'
                    /\ job'[j].stage = "sent" => Sent(j)'
  BY DEF AloneInv
<1>1. ASSUME NEW i \in Jobs, NEW b \in Bundles, BeginApply(i, b)
      PROVE  /\ \A k \in Jobs \ {j} : job'[k] = Idle
             /\ job'[j].stage = "ddl" /\ Older(clock)'
  <2>1. i = j
    BY <1>1, BeginEffect DEF BackInv, Idle
  <2>2. \A k \in Jobs : job[k].stage = "idle"
    BY <1>1, <2>1, BeginEffect DEF BackInv
  <2>3. \A k \in Jobs : job[k] = Idle
    BY <2>2 DEF BackInv, TypeInv, Place
  <2>4. \A k \in Jobs \ {j} : job'[k] = Idle
    BY <1>1, <2>1, <2>3, BeginEffect DEF BackInv
  <2>5. clock' = clock + 1 /\ wire' = wire /\ metadata' = metadata
    BY <1>1 DEF BeginApply, database
  <2>6. Older(clock)'
    BY <1>0, <2>5 DEF Older, SeenInv
  <2> QED
    BY <1>1, <2>1, <2>4, <2>6, BeginEffect DEF BackInv
<1>2. ASSUME NEW i \in Jobs, CreateTable(i) \/ CheckOrder(i)
      PROVE  /\ \A k \in Jobs \ {j} : job'[k] = Idle
             /\ job'[j].stage # "sent" /\ Older(clock)'
  <2>1. job[i] # Idle /\ job[i].stage \in {"ddl", "check"}
    BY <1>2 DEF CreateTable, CheckOrder, Idle
  <2>2. \E stage \in {"check", "insert"} : Advance(i, stage)
    BY <1>2 DEF CreateTable, CheckOrder
  <2>3. /\ \A k \in Jobs \ {i} : job'[k] = job[k]
        /\ job'[i].alone = job[i].alone /\ job'[i].stage \in {"ddl", "check", "insert"}
    <3>1. PICK stage \in {"check", "insert"} : Advance(i, stage)
      BY <2>2
    <3>2. job[i].at <= Len(job[i].bundle.layouts)
      BY <2>1, <3>1, AdvanceEffect DEF BackInv
    <3> QED
      BY <2>1, <3>1, AdvanceEffect DEF BackInv
  <2>4. job[j].alone
    BY <2>3
  <2>5. i = j
    BY <2>1, <2>4, OnlyOne
  <2>6. Older(clock) /\ \A k \in Jobs \ {j} : job[k] = Idle
    BY <2>1, <2>4, <2>5 DEF AloneInv
  <2>7. wire' = wire /\ metadata' = metadata /\ clock' = clock
    BY <1>2 DEF CreateTable, CheckOrder, database
  <2> QED
    BY <2>3, <2>5, <2>6, <2>7 DEF Older
<1>3. ASSUME NEW i \in Jobs, SendMetadata(i)
      PROVE  (\A k \in Jobs \ {j} : job'[k] = Idle) /\ job'[j].stage = "sent" /\ Sent(j)'
  <2>1. job[j].alone /\ job[i].stage = "insert"
    BY <1>3, SendEffect DEF SendMetadata, BackInv
  <2>2. i = j
    BY <2>1, OnlyOne
  <2>3. Older(clock) /\ \A k \in Jobs \ {j} : job[k] = Idle
    BY <2>1, <2>2 DEF AloneInv
  <2> DEFINE own == [job |-> j, bundle |-> job[j].bundle, updated |-> clock, awaited |-> TRUE]
  <2>4. wire' = wire \cup {own} /\ metadata' = metadata /\ clock' = clock
    BY <1>3, <2>2 DEF SendMetadata, Stamp
  <2>5. own.job = j /\ own.bundle = job[j].bundle /\ own.updated = clock /\ own.awaited
    OBVIOUS
  <2> HIDE DEF own
  <2>6. /\ job'[j].stage = "sent" /\ job'[j].bundle = job[j].bundle
        /\ \A k \in Jobs \ {j} : job'[k] = job[k]
    BY <1>3, <2>2, SendEffect DEF BackInv
  <2>7. /\ own \in wire' /\ own.bundle = job'[j].bundle /\ own.updated = clock'
        /\ \A m \in wire' \ {own} : m.updated < clock'
        /\ \A x \in metadata' : x.ingested < clock'
    BY <2>3, <2>4, <2>5, <2>6 DEF Older
  <2>8. Sent(j)'
    BY <2>5, <2>7 DEF Sent
  <2> QED
    BY <2>3, <2>6, <2>8
<1>4. ASSUME NEW i \in Jobs, FinishApply(i) \/ AbortApply(i) PROVE FALSE
  <2>1. job' = [job EXCEPT ![i] = Idle] /\ job[i].stage # "idle"
    BY <1>4 DEF FinishApply, AbortApply
  <2>2. i # j /\ job[j].alone
    BY <2>1 DEF BackInv, TypeInv, Idle
  <2> QED
    BY <2>1, <2>2, OnlyOne
<1>5. ASSUME NEW m \in wire, StoreMetadata(m)
      PROVE  /\ \A k \in Jobs \ {j} : job'[k] = Idle
             /\ job'[j].stage # "sent" => Older(clock)'
             /\ job'[j].stage = "sent" => Sent(j)'
  <2>1. job' = job /\ clock' = clock /\ wire' = wire \ {m}
    BY <1>5 DEF StoreMetadata
  <2>2. PICK n \in Nat : metadata' = metadata \cup RowsOf(m.bundle, n, m.updated)
    BY <1>5, StoreEffect
  <2>3. \A x \in RowsOf(m.bundle, n, m.updated) : x.ingested = m.updated
    BY DEF RowsOf, RowOf
  <2>4. \A k \in Jobs \ {j} : job'[k] = Idle
    BY <2>1 DEF AloneInv
  <2>5. CASE job[j].stage # "sent"
    <3>1. Older(clock)
      BY <2>1, <2>5 DEF AloneInv
    <3>2. Older(clock)'
      BY <2>1, <2>2, <2>3, <3>1 DEF Older
    <3> QED
      BY <2>1, <2>4, <2>5, <3>2
  <2>6. CASE job[j].stage = "sent"
    <3>1. Sent(j)
      BY <2>1, <2>6 DEF AloneInv
    <3>2. CASE (\A o \in wire : o.updated < clock) /\ Settled(metadata, job[j].bundle, clock)
      <4>1. Settled(metadata', job[j].bundle, clock)
        BY <2>2, <2>3, <3>2, SettledGrows
      <4> QED
        BY <2>1, <2>4, <2>6, <3>2, <4>1 DEF Sent
    <3>3. ASSUME NEW own \in wire, own.job = j, own.bundle = job[j].bundle,
                 own.updated = clock, own.awaited,
                 \A o \in wire \ {own} : o.updated < clock,
                 \A x \in metadata : x.ingested < clock
          PROVE  Sent(j)'
      <4>1. CASE m = own
        <5>1. Settled(metadata', job[j].bundle, clock)
          BY <2>2, <3>3, <4>1 DEF Settled
        <5> QED
          BY <2>1, <3>3, <4>1, <5>1 DEF Sent
      <4>2. CASE m # own
        <5>1. \A x \in metadata' : x.ingested < clock
          BY <2>2, <2>3, <3>3, <4>2
        <5> QED
          BY <2>1, <3>3, <4>2, <5>1 DEF Sent
      <4> QED
        BY <4>1, <4>2
    <3> QED
      BY <2>1, <2>4, <2>6, <3>1, <3>2, <3>3 DEF Sent
  <2> QED
    BY <2>5, <2>6
<1>6. CASE UNCHANGED <<job, wire, metadata, clock>>
  BY <1>6 DEF AloneInv, Older, Sent
<1> QED
  BY <1>1, <1>2, <1>3, <1>4, <1>5, <1>6 DEF Next, vars, database, Probe, ReadMetadata, VerifyTables, Stop

\* What a lone job has settled stays settled, after any step.
LEMMA CurrentStep ==
  ASSUME EngineWindow = 0, BackInv, SettleInv, [Next]_vars
  PROVE  CurrentInv'
<1> USE DEF SettleInv
<1>0. clock \in Nat
  BY DEF BackInv, TypeInv
<1>1. ASSUME NEW i \in Jobs, NEW b \in Bundles, BeginApply(i, b) PROVE CurrentInv'
  BY <1>1 DEF BeginApply, CurrentInv
<1>2. ASSUME NEW i \in Jobs, CreateTable(i) \/ CheckOrder(i) \/ SendMetadata(i) \/ AbortApply(i)
      PROVE  CurrentInv'
  BY <1>2 DEF CreateTable, CheckOrder, SendMetadata, AbortApply, CurrentInv, Idle
<1>3. ASSUME NEW i \in Jobs, FinishApply(i) PROVE CurrentInv'
  <2>1. job' = [job EXCEPT ![i] = Idle] /\ wire' = wire /\ clock' = clock
        /\ metadata' = MT!Final(metadata) /\ job[i].stage = "sent"
    BY <1>3 DEF FinishApply
  <2>2. CASE ~job[i].alone
    BY <1>3, <2>1, <2>2 DEF FinishApply, CurrentInv, Idle
  <2>3. CASE job[i].alone
    <3>1. Sent(i) /\ \A k \in Jobs \ {i} : job[k] = Idle
      BY <2>1, <2>3 DEF AloneInv
    <3>2. (\A m \in wire : m.updated < clock) /\ Settled(metadata, job[i].bundle, clock)
      BY <1>3, <3>1 DEF FinishApply, Sent
    <3>3. job[i].bundle \in Bundles
      BY <2>1 DEF BackInv, TypeInv, Place, Idle
    <3>4. Settled(metadata', job[i].bundle, clock)
      <4>1. PICK n \in Nat : /\ RowsOf(job[i].bundle, n, clock) \subseteq metadata
                             /\ \A x \in metadata \ RowsOf(job[i].bundle, n, clock) : x.ingested < clock
        BY <3>2 DEF Settled
      <4>2. \A x \in metadata : x.ingested \in Nat
        BY DEF SeenInv
      <4> QED
        BY <1>0, <2>1, <3>3, <4>1, <4>2, SettledSurvives DEF Settled
    <3>5. current' = job[i].bundle
      BY <1>3, <2>3 DEF FinishApply
    <3>6. \A j \in Jobs : job'[j] = Idle
      BY <2>1, <3>1 DEF BackInv, TypeInv
    <3> QED
      BY <2>1, <3>2, <3>3, <3>4, <3>5, <3>6 DEF CurrentInv
  <2> QED
    BY <2>2, <2>3
<1>4. ASSUME NEW m \in wire, StoreMetadata(m) PROVE CurrentInv'
  <2>1. job' = job /\ clock' = clock /\ wire' = wire \ {m} /\ current' = current
    BY <1>4 DEF StoreMetadata
  <2>2. PICK n \in Nat : metadata' = metadata \cup RowsOf(m.bundle, n, m.updated)
    BY <1>4, StoreEffect
  <2>3. \A x \in RowsOf(m.bundle, n, m.updated) : x.ingested = m.updated
    BY DEF RowsOf, RowOf
  <2>4. CASE current # NoBundle
    <3>1. Settled(metadata', current, clock)
      BY <2>2, <2>3, <2>4, SettledGrows DEF CurrentInv
    <3> QED
      BY <2>1, <2>4, <3>1 DEF CurrentInv
  <2>5. CASE current = NoBundle
    BY <2>1, <2>5 DEF CurrentInv
  <2> QED
    BY <2>4, <2>5
<1>5. CASE UNCHANGED <<job, wire, metadata, clock, current>>
  BY <1>5 DEF CurrentInv
<1> QED
  BY <1>1, <1>2, <1>3, <1>4, <1>5 DEF Next, vars, database, Probe, ReadMetadata, VerifyTables, Stop

\* Where the engine remembers no token, an apply that no other job overlapped
\* is what verification goes on finding until another job begins, whatever
\* earlier jobs left on the wire or in the table (docs/migrations.md:13-14).
THEOREM ApplySettles == ASSUME EngineWindow = 0 PROVE Spec => []AppliedIsSelected
<1>1. Init => SettleInv
  BY EmptySeq DEF Init, Idle, SettleInv, SeenInv, AloneInv, CurrentInv
<1>2. BackInv /\ SettleInv /\ [Next]_vars => SettleInv'
  BY SeenStep, AloneStep, CurrentStep DEF SettleInv
<1>3. BackInv /\ SettleInv => AppliedIsSelected
  <2> SUFFICES ASSUME BackInv, SettleInv, NEW l \in LayoutsOf(current)
               PROVE  Selected(ResourceOf[l]) = {l}
    BY DEF AppliedIsSelected
  <2>1. current \in Bundles /\ Settled(metadata, current, clock)
    BY DEF LayoutsOf, NoBundle, SettleInv, CurrentInv
  <2>2. PICK n \in Nat : /\ RowsOf(current, n, clock) \subseteq metadata
                         /\ \A x \in metadata \ RowsOf(current, n, clock) : x.ingested < clock
    BY <2>1 DEF Settled
  <2>3. clock \in Nat /\ \A x \in metadata : x.scope = "database" /\ x.ingested \in Nat
    BY DEF BackInv, TypeInv, SettleInv, SeenInv
  <2>4. PICK i \in DOMAIN current.layouts : l = current.layouts[i]
    BY DEF LayoutsOf
  <2> DEFINE x == RowOf(current, n, i, clock)
  <2>5. /\ x \in RowsOf(current, n, clock) /\ x.record.key = ResourceOf[l] /\ x.record.body = l
        /\ x.ingested = clock /\ x.scope = "database"
    BY <2>4 DEF RowsOf, RowOf
  <2> HIDE DEF x
  <2>6. x \in MT!Final(metadata)
    BY <2>1, <2>2, <2>3, <2>5, SettledSurvives
  <2>7. ASSUME NEW y \in MT!Final(metadata), y.record.key = ResourceOf[l] PROVE y.record.body = l
    <3>1. y \in metadata /\ ~MT!Superseded(y, metadata)
      BY DEF MT!Final
    <3>2. CASE y \in RowsOf(current, n, clock)
      BY <2>1, <2>5, <2>7, <3>2, OneRowPerResource
    <3>3. CASE y.ingested < clock
      <4>1. MT!SameKey(y, x)
        BY <2>3, <2>5, <2>7, <3>1 DEF MT!SameKey
      <4>2. MT!Newer(x, y)
        BY <2>3, <2>5, <3>1, <3>3 DEF MT!Newer
      <4> QED
        BY <2>2, <2>5, <3>1, <4>1, <4>2 DEF MT!Superseded
    <3> QED
      BY <2>2, <3>1, <3>2, <3>3
  <2> QED
    BY <2>5, <2>6, <2>7 DEF Selected
<1> QED
  BY <1>1, <1>2, <1>3, Invariance, PTL DEF Spec

=============================================================================
