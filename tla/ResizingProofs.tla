--------------------------- MODULE ResizingProofs ---------------------------
(***************************************************************************)
(* Proofs about Resizing for every number of shards, handlers, databases,  *)
(* requests and failures, and for all sizes, limits and increments.        *)
(***************************************************************************)
EXTENDS Resizing, TLAPS

\* A storage request and a CPU limit that are within what was asked for.
SpecOK(x) ==
    /\ x.gb <= MaxVolumeSizeGB
    /\ x.gb <= InitialGB + asked.gb
    /\ x.cu <= InitialCU + asked.cu

\* What a worker has computed or listed is within those bounds.
Bounded(w) ==
    /\ worker[w].op # "compute" => /\ worker[w].target <= MaxVolumeSizeGB
                                   /\ worker[w].target <= InitialGB + asked.gb
    /\ worker[w].op = "compute" => worker[w].target <= InitialCU + asked.cu
    /\ \A s \in Shards : SpecOK(worker[w].snap[s])
    /\ w = Checker /\ worker[w].step \notin {"idle", "next"} =>
         worker[w].db \in Databases

SizesOK ==
    \A s \in Shards : SpecOK(spec[s]) /\ size[s] <= InitialGB + asked.gb

\* A version that is still current belongs to a shard that its worker has yet
\* to write, and the listed object is the present one.
FreshCurrent ==
    \A w \in Workers, s \in Shards :
        <<w, s>> \in fresh => /\ worker[w].step = "update"
                              /\ worker[w].shard <= s
                              /\ worker[w].snap[s] = spec[s]

\* The same for the settings that the checker is about to annotate.
SettingCurrent ==
    settingFresh => /\ worker[Checker].step = "record"
                    /\ worker[Checker].kept = setting[worker[Checker].db]

ResInv ==
    /\ TypeOK
    /\ SizesOK
    /\ \A w \in Workers : Bounded(w)
    /\ FreshCurrent
    /\ SettingCurrent

LEMMA IdleState == Idle \in WorkerStates /\ NoSpecs \in [Shards -> Specs]
<1>1. NoSpecs \in [Shards -> Specs]
  BY SizeAssumption DEF NoSpecs, Spec0, Specs
<1>2. 1 \in Shards
  BY SizeAssumption DEF Shards
<1> DEFINE snaps == [Shards -> Specs]
<1>3. WorkerStates = [op: Ops, step: Steps, add: Nat, target: Nat, shard: Shards,
                      snap: snaps, db: Databases \cup {None},
                      queue: SUBSET Databases, kept: Settings]
  BY DEF WorkerStates
<1>4. NoSpecs \in snaps
  BY <1>1
<1> HIDE DEF snaps
<1>5. Idle \in WorkerStates
  BY <1>2, <1>3, <1>4 DEF Idle, Ops, Steps, Settings
<1> QED
  BY <1>1, <1>5

LEMMA InitResInv == Init => ResInv
<1> SUFFICES ASSUME Init PROVE ResInv
  OBVIOUS
<1> USE SizeAssumption, WorkerAssumption DEF Init
<1>1. TypeOK
  BY IdleState DEF TypeOK, Settings, Specs
<1>2. \A s \in Shards : SpecOK(NoSpecs[s])
  BY DEF SpecOK, NoSpecs, Spec0
<1>3. SizesOK
  BY <1>2 DEF SizesOK
<1>4. \A w \in Workers : Bounded(w)
  BY <1>2 DEF Bounded, Idle
<1>5. FreshCurrent /\ SettingCurrent
  BY DEF FreshCurrent, SettingCurrent
<1> QED
  BY <1>1, <1>3, <1>4, <1>5 DEF ResInv

\* A worker that moves on, or returns, in its record.
LEMMA Fields ==
    ASSUME NEW r \in WorkerStates
    PROVE  /\ r.op \in Ops /\ r.step \in Steps /\ r.add \in Nat
           /\ r.target \in Nat /\ r.shard \in Shards
           /\ r.snap \in [Shards -> Specs] /\ r.db \in Databases \cup {None}
           /\ r.queue \in SUBSET Databases /\ r.kept \in Settings
<1> DEFINE snaps == [Shards -> Specs]
<1>1. WorkerStates = [op: Ops, step: Steps, add: Nat, target: Nat, shard: Shards,
                      snap: snaps, db: Databases \cup {None},
                      queue: SUBSET Databases, kept: Settings]
  BY DEF WorkerStates
<1>2. r.snap \in snaps
  <2> HIDE DEF snaps
  <2> QED BY <1>1
<1> HIDE DEF snaps
<1>3. /\ r.op \in Ops /\ r.step \in Steps /\ r.add \in Nat
      /\ r.target \in Nat /\ r.shard \in Shards
      /\ r.db \in Databases \cup {None}
      /\ r.queue \in SUBSET Databases /\ r.kept \in Settings
  BY <1>1
<1> QED
  BY <1>2, <1>3 DEF snaps

\* Records that differ from a worker's in some fields.
LEMMA NewTarget ==
    ASSUME NEW r \in WorkerStates, NEW st \in Steps, NEW t \in Nat
    PROVE  [r EXCEPT !.step = st, !.target = t] \in WorkerStates
<1> DEFINE snaps == [Shards -> Specs]
<1>1. WorkerStates = [op: Ops, step: Steps, add: Nat, target: Nat, shard: Shards,
                      snap: snaps, db: Databases \cup {None},
                      queue: SUBSET Databases, kept: Settings]
  BY DEF WorkerStates
<1> HIDE DEF snaps
<1> QED
  BY <1>1

LEMMA NewSnap ==
    ASSUME NEW r \in WorkerStates, NEW st \in Steps, NEW m \in [Shards -> Specs],
           NEW i \in Shards
    PROVE  [r EXCEPT !.step = st, !.shard = i, !.snap = m] \in WorkerStates
<1> DEFINE snaps == [Shards -> Specs]
<1>1. WorkerStates = [op: Ops, step: Steps, add: Nat, target: Nat, shard: Shards,
                      snap: snaps, db: Databases \cup {None},
                      queue: SUBSET Databases, kept: Settings]
  BY DEF WorkerStates
<1>2. m \in snaps
  OBVIOUS
<1> HIDE DEF snaps
<1> QED
  BY <1>1, <1>2

LEMMA NewCheck ==
    ASSUME NEW r \in WorkerStates, NEW st \in Steps, NEW d \in Databases,
           NEW n \in Nat, NEW q \in SUBSET Databases, NEW k \in Settings
    PROVE  /\ [r EXCEPT !.step = st, !.db = d, !.add = n, !.queue = q] \in WorkerStates
           /\ [r EXCEPT !.queue = q] \in WorkerStates
           /\ [r EXCEPT !.step = st, !.kept = k] \in WorkerStates
<1> DEFINE snaps == [Shards -> Specs]
<1>1. WorkerStates = [op: Ops, step: Steps, add: Nat, target: Nat, shard: Shards,
                      snap: snaps, db: Databases \cup {None},
                      queue: SUBSET Databases, kept: Settings]
  BY DEF WorkerStates
<1> HIDE DEF snaps
<1> QED
  BY <1>1

LEMMA NewStep ==
    ASSUME NEW r \in WorkerStates, NEW st \in Steps, NEW i \in Shards
    PROVE  /\ [r EXCEPT !.step = st] \in WorkerStates
           /\ [r EXCEPT !.shard = i] \in WorkerStates
<1> DEFINE snaps == [Shards -> Specs]
<1>1. WorkerStates = [op: Ops, step: Steps, add: Nat, target: Nat, shard: Shards,
                      snap: snaps, db: Databases \cup {None},
                      queue: SUBSET Databases, kept: Settings]
  BY DEF WorkerStates
<1> HIDE DEF snaps
<1> QED
  BY <1>1

LEMMA NewIdle ==
    ASSUME NEW o \in Ops, NEW st \in Steps, NEW n \in Nat, NEW q \in SUBSET Databases
    PROVE  /\ [Idle EXCEPT !.op = o, !.step = st, !.add = n] \in WorkerStates
           /\ [Idle EXCEPT !.op = o, !.step = st, !.queue = q] \in WorkerStates
<1> DEFINE snaps == [Shards -> Specs]
<1>1. WorkerStates = [op: Ops, step: Steps, add: Nat, target: Nat, shard: Shards,
                      snap: snaps, db: Databases \cup {None},
                      queue: SUBSET Databases, kept: Settings]
  BY DEF WorkerStates
<1>2. Idle \in WorkerStates
  BY IdleState
<1> HIDE DEF snaps
<1> QED
  BY <1>1, <1>2

\* One worker moves: what it writes down is in bounds, the versions it holds
\* are current, and nothing was taken back from "asked".
LEMMA WorkerStep ==
    ASSUME ResInv, NEW w \in Workers, NEW r \in WorkerStates,
           worker' = [worker EXCEPT ![w] = r],
           spec' = spec, size' = size, setting' = setting,
           asked' \in Specs, asked'.gb >= asked.gb, asked'.cu >= asked.cu,
           requests' \in Nat, faults' \in Nat, settingFresh' \in BOOLEAN,
           fresh' \subseteq fresh \cup ({w} \X Shards),
           Bounded(w)',
           \A s \in Shards : <<w, s>> \in fresh' =>
               r.step = "update" /\ r.shard <= s /\ r.snap[s] = spec[s],
           SettingCurrent'
    PROVE  ResInv'
<1> USE DEF ResInv
<1>1. /\ worker' \in [Workers -> WorkerStates] /\ worker'[w] = r
      /\ \A v \in Workers \ {w} : worker'[v] = worker[v]
  BY DEF TypeOK
<1>2. TypeOK'
  BY <1>1 DEF TypeOK
<1>3. /\ asked \in Specs /\ InitialGB \in Nat /\ InitialCU \in Nat
      /\ MaxVolumeSizeGB \in Nat
      /\ asked.gb \in Nat /\ asked.cu \in Nat /\ asked'.gb \in Nat /\ asked'.cu \in Nat
  BY SizeAssumption DEF TypeOK, Specs
<1>4. ASSUME NEW x \in Specs, SpecOK(x)
      PROVE  x.gb <= MaxVolumeSizeGB /\ x.gb <= InitialGB + asked'.gb
             /\ x.cu <= InitialCU + asked'.cu
  BY <1>3, <1>4 DEF SpecOK, Specs
<1>5. SizesOK'
  <2>1. \A s \in Shards : spec[s] \in Specs /\ size[s] \in Nat
    BY DEF TypeOK
  <2> QED
    BY <1>3, <1>4, <2>1 DEF SizesOK, SpecOK
<1>6. ASSUME NEW v \in Workers PROVE Bounded(v)'
  <2>1. CASE v = w
    BY <2>1
  <2>2. CASE v # w
    <3>1. Bounded(v) /\ worker'[v] = worker[v] /\ worker[v] \in WorkerStates
      BY <1>1, <2>2 DEF TypeOK
    <3>2. worker[v].target \in Nat /\ worker[v].snap \in [Shards -> Specs]
      BY <3>1, Fields
    <3>3. \A s \in Shards : SpecOK(worker[v].snap[s])'
      BY <1>4, <3>1, <3>2 DEF Bounded, SpecOK
    <3> QED
      BY <1>3, <3>1, <3>2, <3>3 DEF Bounded
  <2> QED
    BY <2>1, <2>2
<1>7. FreshCurrent'
  BY <1>1 DEF FreshCurrent
<1> QED
  BY <1>2, <1>5, <1>6, <1>7

\* The bounds only widen, and fresh records are within them.
LEMMA BoundsOfNew ==
    ASSUME ResInv, spec' = spec,
           asked' \in Specs, asked'.gb >= asked.gb, asked'.cu >= asked.cu
    PROVE  /\ \A s \in Shards : SpecOK(NoSpecs[s])' /\ SpecOK(spec[s])'
           /\ 0 <= MaxVolumeSizeGB
           /\ 0 <= InitialGB + asked'.gb /\ 0 <= InitialCU + asked'.cu
<1>1. /\ asked \in Specs /\ asked.gb \in Nat /\ asked.cu \in Nat
      /\ asked'.gb \in Nat /\ asked'.cu \in Nat
  BY DEF ResInv, TypeOK, Specs
<1>2. \A s \in Shards : SpecOK(NoSpecs[s])'
  BY <1>1, SizeAssumption DEF SpecOK, NoSpecs, Spec0
<1>3. ASSUME NEW s \in Shards PROVE SpecOK(spec[s])'
  <2>1. spec[s] \in Specs /\ SpecOK(spec[s])
    BY DEF ResInv, TypeOK, SizesOK
  <2>2. spec[s].gb \in Nat /\ spec[s].cu \in Nat
    BY <2>1 DEF Specs
  <2> QED
    BY <1>1, <2>1, <2>2, SizeAssumption DEF SpecOK
<1> QED
  BY <1>1, <1>2, <1>3, SizeAssumption

\* A worker that starts over with a fresh record.
LEMMA FreshRecord ==
    ASSUME ResInv, NEW w \in Workers,
           NEW o \in Ops, NEW st \in Steps, NEW n \in Nat,
           NEW q \in SUBSET Databases, NEW r,
           \/ r = Idle
           \/ r = [Idle EXCEPT !.op = o, !.step = st, !.add = n] /\ w # Checker
           \/ r = [Idle EXCEPT !.op = o, !.step = st, !.queue = q] /\ st = "next",
           worker' = [worker EXCEPT ![w] = r], st # "update",
           spec' = spec, size' = size, setting' = setting, asked' = asked,
           requests' \in Nat, faults' \in Nat, settingFresh' \in BOOLEAN,
           fresh' \subseteq fresh \cup ({w} \X Shards),
           \A s \in Shards : <<w, s>> \notin fresh',
           w = Checker => ~settingFresh',
           w # Checker => settingFresh' = settingFresh
    PROVE  ResInv'
<1>1. /\ r \in WorkerStates
      /\ r.op \in Ops /\ r.target = 0 /\ r.snap = NoSpecs /\ r.step # "update"
      /\ w = Checker => r.step \in {"idle", "next"}
  <2>1. CASE r = Idle
    BY <2>1, IdleState DEF Idle, Ops
  <2>2. CASE r = [Idle EXCEPT !.op = o, !.step = st, !.add = n] /\ w # Checker
    <3>1. r \in WorkerStates
      BY <2>2, NewIdle
    <3> QED
      BY <2>2, <3>1 DEF Idle
  <2>3. CASE r = [Idle EXCEPT !.op = o, !.step = st, !.queue = q] /\ st = "next"
    <3>1. r \in WorkerStates
      BY <2>3, NewIdle
    <3> QED
      BY <2>3, <3>1 DEF Idle
  <2> QED
    BY <2>1, <2>2, <2>3
<1>3. worker'[w] = r /\ \A v \in Workers \ {w} : worker'[v] = worker[v]
  BY DEF ResInv, TypeOK
<1>4. asked' \in Specs /\ asked'.gb >= asked.gb /\ asked'.cu >= asked.cu
  BY DEF ResInv, TypeOK, Specs
<1>5. Bounded(w)'
  BY <1>1, <1>3, <1>4, BoundsOfNew DEF Bounded
<1>6. SettingCurrent'
  BY <1>3 DEF SettingCurrent, ResInv, Workers
<1> QED
  BY <1>1, <1>4, <1>5, <1>6, WorkerStep

LEMMA StartResInv ==
    ASSUME ResInv, NEW h \in Handlers, NEW add \in Adds,
           StartStorage(h, add) \/ StartCompute(h, add)
    PROVE  ResInv'
<1>1. add \in Nat /\ h \in Workers /\ h # Checker
  BY SizeAssumption, WorkerAssumption DEF Workers
<1>2. PICK o \in {"storage", "compute"} :
         worker' = [worker EXCEPT ![h] = [Idle EXCEPT !.op = o, !.step = "read",
                                                      !.add = add]]
  BY DEF StartStorage, StartCompute
<1>3. worker[h] = Idle /\ requests' \in Nat /\ faults' \in Nat
      /\ UNCHANGED <<spec, size, fresh, setting, settingFresh, asked>>
  BY DEF StartStorage, StartCompute, Request, Fails, Succeeds, ResInv, TypeOK
<1>4. \A s \in Shards : <<h, s>> \notin fresh'
  BY <1>1, <1>3 DEF ResInv, FreshCurrent, Idle
<1>5. settingFresh' \in BOOLEAN
  BY <1>3 DEF ResInv, TypeOK
<1>6. o \in Ops /\ "read" \in Steps /\ {} \in SUBSET Databases
  BY DEF Ops, Steps
<1> DEFINE r == [Idle EXCEPT !.op = o, !.step = "read", !.add = add]
<1>7. worker' = [worker EXCEPT ![h] = r]
  BY <1>2
<1> QED
  BY <1>1, <1>3, <1>4, <1>5, <1>6, <1>7, FreshRecord

\* A worker that gives up holds no version any more.
LEMMA ReturnResInv ==
    ASSUME ResInv, NEW w \in Workers, Return(w),
           UNCHANGED <<spec, size, setting, asked, requests>>, faults' \in Nat,
           fresh' \subseteq fresh, \A s \in Shards : <<w, s>> \notin fresh',
           settingFresh' \in BOOLEAN,
           w = Checker => ~settingFresh',
           w # Checker => settingFresh' = settingFresh
    PROVE  ResInv'
<1>1. worker[w].queue \in SUBSET Databases /\ requests' \in Nat
  BY Fields DEF ResInv, TypeOK
<1>2. "autoscale" \in Ops /\ "next" \in Steps /\ 0 \in Nat
  BY DEF Ops, Steps
<1> DEFINE r == IF w = Checker
                  THEN [Idle EXCEPT !.op = "autoscale", !.step = "next",
                                    !.queue = worker[w].queue]
                  ELSE Idle
<1>3. worker' = [worker EXCEPT ![w] = r]
  BY DEF Return
<1>4. r = Idle \/ r = [Idle EXCEPT !.op = "autoscale", !.step = "next",
                                   !.queue = worker[w].queue]
  OBVIOUS
<1> HIDE DEF r
<1> QED
  BY <1>1, <1>2, <1>3, <1>4, FreshRecord

\* Versions are held at "update" and "record" only.
LEMMA HoldsNone ==
    ASSUME ResInv, NEW w \in Workers
    PROVE  /\ worker[w].step # "update" => \A s \in Shards : <<w, s>> \notin fresh
           /\ w = Checker /\ worker[w].step # "record" => ~settingFresh
           /\ worker[w] \in WorkerStates
BY DEF ResInv, FreshCurrent, SettingCurrent, TypeOK

LEMMA ReadResInv ==
    ASSUME ResInv, NEW w \in Workers, ReadStorage(w) \/ ReadCompute(w)
    PROVE  ResInv'
<1>1. /\ At(w, "read") /\ faults' \in Nat
      /\ UNCHANGED <<spec, size, fresh, setting, settingFresh, requests>>
  BY DEF ReadStorage, ReadCompute, Fails, Succeeds, ResInv, TypeOK
<1>2. /\ worker[w] \in WorkerStates /\ \A s \in Shards : <<w, s>> \notin fresh
      /\ w = Checker => ~settingFresh
  BY <1>1, HoldsNone DEF At
<1>3. settingFresh \in BOOLEAN /\ requests \in Nat /\ "list" \in Steps
  BY DEF ResInv, TypeOK, Steps
<1>4. CASE Return(w) /\ UNCHANGED asked
  BY <1>1, <1>2, <1>3, <1>4, ReturnResInv
<1>5. ASSUME NEW t \in Nat, asked' \in Specs,
             asked'.gb >= asked.gb, asked'.cu >= asked.cu,
             worker[w].op # "compute" =>
               t <= MaxVolumeSizeGB /\ t <= InitialGB + asked'.gb,
             worker[w].op = "compute" => t <= InitialCU + asked'.cu,
             worker' = [worker EXCEPT ![w].step = "list", ![w].target = t]
      PROVE  ResInv'
  <2> DEFINE r == [worker[w] EXCEPT !.step = "list", !.target = t]
  <2>1. r \in WorkerStates
    BY <1>2, <1>3, NewTarget
  <2>2. worker' = [worker EXCEPT ![w] = r]
    BY <1>5 DEF ResInv, TypeOK
  <2>3. worker'[w] = r /\ worker[w].snap \in [Shards -> Specs]
    BY <1>2, <2>2, Fields DEF ResInv, TypeOK
  <2>4. /\ r.op = worker[w].op /\ r.step = "list" /\ r.target = t
        /\ r.snap = worker[w].snap /\ r.db = worker[w].db
    BY <1>2, Fields DEF WorkerStates
  <2>5. \A s \in Shards : SpecOK(worker[w].snap[s])'
    <3>1. Bounded(w) /\ worker'[w].snap = worker[w].snap
      BY <2>3, <2>4 DEF ResInv
    <3>2. /\ asked.gb \in Nat /\ asked.cu \in Nat
          /\ asked'.gb \in Nat /\ asked'.cu \in Nat
      BY <1>5 DEF ResInv, TypeOK, Specs
    <3>3. \A s \in Shards : /\ worker[w].snap[s].gb \in Nat
                            /\ worker[w].snap[s].cu \in Nat
      BY <2>3 DEF Specs
    <3> QED
      BY <1>5, <3>1, <3>2, <3>3, SizeAssumption DEF Bounded, SpecOK
  <2>6. w = Checker => worker[w].db \in Databases
    BY <1>1 DEF ResInv, Bounded, At
  <2> HIDE DEF r
  <2>7. Bounded(w)'
    BY <1>5, <2>3, <2>4, <2>5, <2>6 DEF Bounded
  <2>8. SettingCurrent'
    BY <1>1, <1>2, <2>2 DEF SettingCurrent, ResInv, TypeOK, Workers
  <2> QED
    BY <1>1, <1>2, <1>3, <1>5, <2>1, <2>2, <2>4, <2>7, <2>8, WorkerStep
<1>6. /\ asked \in Specs /\ asked.gb \in Nat /\ asked.cu \in Nat
      /\ worker[w].add \in Nat /\ worker[w].op \in Ops
  BY <1>2, Fields DEF ResInv, TypeOK, Specs
<1>7. ASSUME ReadStorage(w), CurrentGB + worker[w].add <= MaxVolumeSizeGB,
             worker' = [worker EXCEPT ![w].step = "list",
                                      ![w].target = CurrentGB + worker[w].add],
             asked' = [asked EXCEPT !.gb = @ + worker[w].add]
      PROVE  ResInv'
  <2>1. CurrentGB \in Nat /\ CurrentGB <= InitialGB + asked.gb
    BY SizeAssumption DEF CurrentGB, ResInv, TypeOK, SizesOK
  <2>2. /\ asked' \in Specs /\ asked'.gb = asked.gb + worker[w].add
        /\ asked'.cu = asked.cu
    BY <1>6, <1>7 DEF Specs
  <2>3. worker[w].op # "compute"
    BY <1>7 DEF ReadStorage
  <2> DEFINE t == CurrentGB + worker[w].add
  <2>4. /\ t \in Nat /\ t <= InitialGB + asked'.gb
        /\ asked'.gb >= asked.gb /\ asked'.cu >= asked.cu
        /\ t <= MaxVolumeSizeGB
    BY <1>6, <1>7, <2>1, <2>2, SizeAssumption
  <2>5. worker' = [worker EXCEPT ![w].step = "list", ![w].target = t]
    BY <1>7
  <2> HIDE DEF t
  <2> QED
    BY <1>5, <2>2, <2>3, <2>4, <2>5
<1>8. ASSUME ReadCompute(w),
             worker' = [worker EXCEPT ![w].step = "list",
                                      ![w].target = CurrentCU + worker[w].add],
             asked' = [asked EXCEPT !.cu = @ + worker[w].add]
      PROVE  ResInv'
  <2>0. 1 \in Shards
    BY SizeAssumption DEF Shards
  <2>1. CurrentCU \in Nat /\ CurrentCU <= InitialCU + asked.cu
    BY <2>0, SizeAssumption DEF CurrentCU, ResInv, TypeOK, SizesOK, SpecOK, Specs
  <2>2. /\ asked' \in Specs /\ asked'.cu = asked.cu + worker[w].add
        /\ asked'.gb = asked.gb
    BY <1>6, <1>8 DEF Specs
  <2>3. worker[w].op = "compute"
    BY <1>8 DEF ReadCompute
  <2> DEFINE t == CurrentCU + worker[w].add
  <2>4. /\ t \in Nat /\ t <= InitialCU + asked'.cu
        /\ asked'.gb >= asked.gb /\ asked'.cu >= asked.cu
    BY <1>6, <1>8, <2>1, <2>2, SizeAssumption
  <2>5. worker' = [worker EXCEPT ![w].step = "list", ![w].target = t]
    BY <1>8
  <2> HIDE DEF t
  <2> QED
    BY <1>5, <2>2, <2>3, <2>4, <2>5
<1> QED
  BY <1>4, <1>7, <1>8 DEF ReadStorage, ReadCompute

LEMMA ListResInv ==
    ASSUME ResInv, NEW w \in Workers, ListShards(w)
    PROVE  ResInv'
<1>1. /\ At(w, "list") /\ faults' \in Nat
      /\ UNCHANGED <<spec, size, setting, settingFresh, asked, requests>>
  BY DEF ListShards, Fails, Succeeds, ResInv, TypeOK
<1>2. /\ worker[w] \in WorkerStates /\ \A s \in Shards : <<w, s>> \notin fresh
      /\ w = Checker => ~settingFresh
  BY <1>1, HoldsNone DEF At
<1>3. /\ settingFresh \in BOOLEAN /\ requests \in Nat /\ "update" \in Steps
      /\ spec \in [Shards -> Specs] /\ 1 \in Shards
      /\ asked \in Specs /\ asked.gb >= asked.gb /\ asked.cu >= asked.cu
  BY SizeAssumption DEF ResInv, TypeOK, Steps, Shards, Specs
<1>4. CASE Return(w) /\ UNCHANGED fresh
  BY <1>1, <1>2, <1>3, <1>4, ReturnResInv
<1>5. CASE /\ worker' = [worker EXCEPT ![w].step = "update", ![w].shard = 1,
                                       ![w].snap = spec]
           /\ fresh' = fresh \cup ({w} \X Shards)
  <2> DEFINE r == [worker[w] EXCEPT !.step = "update", !.shard = 1, !.snap = spec]
  <2>1. r \in WorkerStates
    BY <1>2, <1>3, NewSnap
  <2>2. worker' = [worker EXCEPT ![w] = r]
    BY <1>5 DEF ResInv, TypeOK
  <2>3. worker'[w] = r
    BY <2>2 DEF ResInv, TypeOK
  <2>4. /\ r.op = worker[w].op /\ r.step = "update" /\ r.target = worker[w].target
        /\ r.snap = spec /\ r.db = worker[w].db /\ r.shard = 1
    BY <1>2, Fields DEF WorkerStates
  <2>5. Bounded(w) /\ asked' = asked /\ worker[w].step = "list"
    BY <1>1 DEF ResInv, At
  <2>6. \A s \in Shards : SpecOK(spec[s])'
    BY <1>1, <1>3, BoundsOfNew
  <2> HIDE DEF r
  <2>7. Bounded(w)'
    BY <1>1, <2>3, <2>4, <2>5, <2>6 DEF Bounded
  <2>8. SettingCurrent'
    BY <1>1, <1>2, <2>2 DEF SettingCurrent, ResInv, TypeOK, Workers
  <2>9. \A s \in Shards : 1 <= s
    BY DEF Shards
  <2> QED
    BY <1>1, <1>2, <1>3, <1>5, <2>1, <2>2, <2>4, <2>7, <2>8, <2>9, WorkerStep
<1> QED
  BY <1>4, <1>5 DEF ListShards

\* What is written to a shard is within the bounds.
LEMMA WantedOK ==
    ASSUME ResInv, NEW w \in Workers
    PROVE  Wanted(w) \in Specs /\ SpecOK(Wanted(w))
<1>1. worker[w] \in WorkerStates /\ Bounded(w)
  BY DEF ResInv, TypeOK
<1>2. /\ worker[w].shard \in Shards /\ worker[w].snap \in [Shards -> Specs]
      /\ worker[w].target \in Nat
  BY <1>1, Fields
<1> DEFINE x == worker[w].snap[worker[w].shard]
<1>3. x \in Specs /\ SpecOK(x)
  BY <1>1, <1>2 DEF Bounded
<1>4. Wanted(w) = IF worker[w].op = "compute"
                    THEN [x EXCEPT !.cu = worker[w].target]
                    ELSE [x EXCEPT !.gb = worker[w].target]
  BY DEF Wanted
<1> HIDE DEF x
<1>5. CASE worker[w].op = "compute"
  BY <1>1, <1>2, <1>3, <1>4, <1>5 DEF Specs, SpecOK, Bounded
<1>6. CASE worker[w].op # "compute"
  BY <1>1, <1>2, <1>3, <1>4, <1>6 DEF Specs, SpecOK, Bounded
<1> QED
  BY <1>5, <1>6

\* After a shard is written its worker either goes on to the next one, or is
\* through with all of them.
LEMMA AdvanceRecord ==
    ASSUME ResInv, NEW w \in Workers, At(w, "update"), Advance(w)
    PROVE  /\ worker' \in [Workers -> WorkerStates]
           /\ \A v \in Workers \ {w} : worker'[v] = worker[v]
           /\ worker'[w] # worker[w]
           /\ \/ worker'[w] = Idle
              \/ /\ worker'[w].op = worker[w].op
                 /\ worker'[w].target = worker[w].target
                 /\ worker'[w].snap = worker[w].snap
                 /\ worker'[w].db = worker[w].db
                 /\ worker'[w].step \in {"update", "settings"}
           /\ worker[w].shard < NumShards =>
                /\ worker'[w].step = "update"
                /\ worker'[w].shard = worker[w].shard + 1
                /\ worker'[w].snap = worker[w].snap
<1>1. /\ worker[w] \in WorkerStates /\ worker[w].step = "update"
      /\ worker \in [Workers -> WorkerStates]
      /\ worker[w].shard \in Shards /\ NumShards \in Nat
  BY Fields, SizeAssumption DEF ResInv, TypeOK, At
<1>2. CASE worker[w].shard < NumShards
  <2> DEFINE r == [worker[w] EXCEPT !.shard = worker[w].shard + 1]
  <2>1. worker' = [worker EXCEPT ![w] = r]
    BY <1>1, <1>2 DEF Advance
  <2>2. worker[w].shard + 1 \in Shards
    BY <1>1, <1>2 DEF Shards
  <2>3. \A i \in Shards : [worker[w] EXCEPT !.shard = i] \in WorkerStates
    BY <1>1, NewStep DEF Steps
  <2>4. r \in WorkerStates
    BY <2>2, <2>3
  <2>5. /\ r.op = worker[w].op /\ r.target = worker[w].target
        /\ r.snap = worker[w].snap /\ r.db = worker[w].db
        /\ r.step = worker[w].step /\ r.shard = worker[w].shard + 1
    BY <1>1 DEF WorkerStates
  <2> HIDE DEF r
  <2>6. worker[w].shard + 1 # worker[w].shard
    BY <1>1 DEF Shards
  <2> QED
    BY <1>1, <2>1, <2>4, <2>5, <2>6
<1>3. CASE ~(worker[w].shard < NumShards) /\ w = Checker
  <2> DEFINE r == [worker[w] EXCEPT !.step = "settings"]
  <2>1. worker' = [worker EXCEPT ![w] = r]
    BY <1>1, <1>3 DEF Advance, Goto
  <2>2. "settings" \in Steps
    BY DEF Steps
  <2>3. r \in WorkerStates
    BY <1>1, <2>2, NewStep
  <2>4. /\ r.op = worker[w].op /\ r.target = worker[w].target
        /\ r.snap = worker[w].snap /\ r.db = worker[w].db
        /\ r.step = "settings"
    BY <1>1 DEF WorkerStates
  <2> HIDE DEF r
  <2> QED
    BY <1>1, <1>3, <2>1, <2>3, <2>4
<1>4. CASE ~(worker[w].shard < NumShards) /\ w # Checker
  <2>1. worker' = [worker EXCEPT ![w] = Idle] /\ Idle.step = "idle"
    BY <1>4 DEF Advance, Idle
  <2> QED
    BY <1>1, <1>4, <2>1, IdleState
<1> QED
  BY <1>2, <1>3, <1>4

LEMMA UpdateResInv ==
    ASSUME ResInv, NEW w \in Workers, UpdateShard(w)
    PROVE  ResInv'
<1> DEFINE s == worker[w].shard
<1>1. /\ At(w, "update") /\ <<w, s>> \in fresh /\ Advance(w)
      /\ spec' = [spec EXCEPT ![s] = Wanted(w)]
      /\ fresh' = fresh \ (IF Wanted(w) = spec[s]
                             THEN {<<w, s>>} ELSE Workers \X {s})
      /\ UNCHANGED <<size, setting, settingFresh, asked, requests, faults>>
  BY DEF UpdateShard, Succeeds
<1>2. s \in Shards /\ worker[w] \in WorkerStates
  BY Fields DEF ResInv, TypeOK
<1>3. Wanted(w) \in Specs /\ SpecOK(Wanted(w))
  BY WantedOK
<1>4. /\ worker' \in [Workers -> WorkerStates]
      /\ \A v \in Workers \ {w} : worker'[v] = worker[v]
      /\ worker'[w] = Idle \/ /\ worker'[w].op = worker[w].op
                              /\ worker'[w].target = worker[w].target
                              /\ worker'[w].snap = worker[w].snap
                              /\ worker'[w].db = worker[w].db
                              /\ worker'[w].step \in {"update", "settings"}
      /\ s < NumShards => /\ worker'[w].step = "update"
                          /\ worker'[w].shard = s + 1
                          /\ worker'[w].snap = worker[w].snap
  BY <1>1, AdvanceRecord
<1> HIDE DEF s
<1>5. TypeOK'
  BY <1>1, <1>2, <1>3, <1>4 DEF ResInv, TypeOK
<1>6. SizesOK'
  BY <1>1, <1>2, <1>3 DEF ResInv, TypeOK, SizesOK, SpecOK
<1>7. ASSUME NEW v \in Workers PROVE Bounded(v)'
  <2>1. CASE v # w
    BY <1>1, <1>4, <2>1 DEF ResInv, Bounded, SpecOK
  <2>2. CASE v = w /\ worker'[w] = Idle
    <3>1. \A t \in Shards : SpecOK(NoSpecs[t])'
      BY <1>1, SizeAssumption DEF SpecOK, NoSpecs, Spec0, ResInv, TypeOK, Specs
    <3>2. /\ worker'[v].op = "none" /\ worker'[v].target = 0
          /\ worker'[v].snap = NoSpecs /\ worker'[v].step = "idle"
      BY <2>2 DEF Idle
    <3>3. 0 <= MaxVolumeSizeGB /\ 0 <= InitialGB + asked'.gb
      BY <1>1, SizeAssumption DEF ResInv, TypeOK, Specs
    <3> QED
      BY <3>1, <3>2, <3>3 DEF Bounded
  <2>3. CASE v = w /\ worker'[w] # Idle
    BY <1>1, <1>4, <2>3 DEF ResInv, Bounded, SpecOK, At
  <2> QED
    BY <2>1, <2>2, <2>3
<1>8. ASSUME NEW v \in Workers, NEW t \in Shards, <<v, t>> \in fresh'
      PROVE  /\ worker'[v].step = "update" /\ worker'[v].shard <= t
             /\ worker'[v].snap[t] = spec'[t]
  <2>1. /\ <<v, t>> \in fresh /\ <<v, t>> # <<w, s>>
        /\ t = s => Wanted(w) = spec[s]
    BY <1>1, <1>8
  <2>2. /\ worker[v].step = "update" /\ worker[v].shard <= t
        /\ worker[v].snap[t] = spec[t]
    BY <2>1 DEF ResInv, FreshCurrent
  <2>3. spec'[t] = spec[t]
    BY <1>1, <1>2, <2>1 DEF ResInv, TypeOK
  <2>4. CASE v # w
    BY <1>4, <2>2, <2>3, <2>4
  <2>5. CASE v = w
    <3>1. s < NumShards /\ s + 1 <= t
      BY <1>2, <2>1, <2>2, <2>5, SizeAssumption DEF Shards, s
    <3> QED
      BY <1>4, <2>2, <2>3, <2>5, <3>1
  <2> QED
    BY <2>4, <2>5
<1>9. FreshCurrent'
  BY <1>8 DEF FreshCurrent
<1>10. SettingCurrent'
  <2>1. w = Checker => ~settingFresh
    BY <1>1, HoldsNone DEF At
  <2> QED
    BY <1>1, <1>4, <2>1 DEF SettingCurrent, ResInv, Workers
<1> QED
  BY <1>5, <1>6, <1>7, <1>9, <1>10 DEF ResInv

LEMMA RejectResInv ==
    ASSUME ResInv, NEW w \in Workers, RejectShard(w)
    PROVE  ResInv'
<1>1. /\ At(w, "update") /\ faults' \in Nat /\ Return(w)
      /\ fresh' = fresh \ ({w} \X Shards)
      /\ UNCHANGED <<spec, size, setting, settingFresh, asked, requests>>
  BY DEF RejectShard, Fails, Succeeds, ResInv, TypeOK
<1>2. w = Checker => ~settingFresh
  BY <1>1, HoldsNone DEF At
<1>3. settingFresh \in BOOLEAN
  BY DEF ResInv, TypeOK
<1> QED
  BY <1>1, <1>2, <1>3, ReturnResInv

\* The checker moves on in its own record: no shard, no volume and no setting
\* changes, and it holds no version of a shard.
LEMMA CheckerMoves ==
    ASSUME ResInv, NEW r \in WorkerStates,
           worker' = [worker EXCEPT ![Checker] = r],
           UNCHANGED <<spec, size, fresh, setting, asked>>,
           requests' \in Nat, faults' \in Nat, settingFresh' \in BOOLEAN,
           worker[Checker].step # "update",
           r.op = worker[Checker].op, r.target = worker[Checker].target,
           r.snap = worker[Checker].snap,
           r.step \notin {"idle", "next"} => r.db \in Databases,
           settingFresh' => r.step = "record" /\ r.kept = setting[r.db]
    PROVE  ResInv'
<1>1. Checker \in Workers /\ worker'[Checker] = r
  BY DEF ResInv, TypeOK, Workers
<1>2. \A s \in Shards : <<Checker, s>> \notin fresh'
  BY <1>1, HoldsNone
<1>3. Bounded(Checker)'
  BY <1>1 DEF ResInv, Bounded, SpecOK
<1>4. SettingCurrent'
  BY <1>1 DEF SettingCurrent
<1>5. asked' \in Specs /\ asked'.gb >= asked.gb /\ asked'.cu >= asked.cu
  BY DEF ResInv, TypeOK, Specs
<1> QED
  BY <1>1, <1>2, <1>3, <1>4, <1>5, WorkerStep

LEMMA StartCheckResInv ==
    ASSUME ResInv, StartCheck
    PROVE  ResInv'
<1> DEFINE enabled == {d \in Databases : setting[d] = "on"}
<1>1. /\ worker[Checker] = Idle /\ requests' \in Nat
      /\ worker' = [worker EXCEPT
                      ![Checker] = [Idle EXCEPT !.op = "autoscale",
                                                !.step = "next",
                                                !.queue = enabled]]
      /\ UNCHANGED <<spec, size, fresh, setting, settingFresh, asked, faults>>
  BY DEF StartCheck, Request, ResInv, TypeOK
<1>2. /\ Checker \in Workers /\ enabled \in SUBSET Databases
      /\ "autoscale" \in Ops /\ "next" \in Steps /\ 0 \in Nat
      /\ faults' \in Nat
  BY <1>1 DEF Workers, Ops, Steps, ResInv, TypeOK
<1>3. worker[Checker].step = "idle"
  BY <1>1 DEF Idle
<1>4. ~settingFresh /\ \A s \in Shards : <<Checker, s>> \notin fresh
  BY <1>2, <1>3, HoldsNone
<1> DEFINE r == [Idle EXCEPT !.op = "autoscale", !.step = "next", !.queue = enabled]
<1>5. worker' = [worker EXCEPT ![Checker] = r]
  BY <1>1
<1> HIDE DEF enabled
<1>6. settingFresh' \in BOOLEAN /\ fresh' \subseteq fresh /\ ~settingFresh'
      /\ \A s \in Shards : <<Checker, s>> \notin fresh'
  BY <1>1, <1>2, <1>4 DEF ResInv, TypeOK
<1>7. r = [Idle EXCEPT !.op = "autoscale", !.step = "next", !.queue = enabled]
  OBVIOUS
<1> HIDE DEF r
<1> QED
  <2>1. UNCHANGED <<spec, size, setting, asked>> /\ fresh' \subseteq fresh \cup ({Checker} \X Shards)
    BY <1>1, <1>6
  <2>2. "next" # "update" /\ requests' \in Nat
    BY <1>1
  <2> QED
    BY <1>2, <1>5, <1>6, <1>7, <2>1, <2>2, FreshRecord

LEMMA CheckAutoscaleResInv ==
    ASSUME ResInv, NEW d \in Databases, CheckAutoscale(d)
    PROVE  ResInv'
<1>1. /\ worker[Checker].step = "next" /\ faults' \in Nat
      /\ UNCHANGED <<spec, size, fresh, setting, settingFresh, asked, requests>>
  BY DEF CheckAutoscale, At, Fails, Succeeds, ResInv, TypeOK
<1>2. Checker \in Workers /\ worker[Checker] \in WorkerStates
  BY DEF ResInv, TypeOK, Workers
<1>3. ~settingFresh' /\ settingFresh' \in BOOLEAN /\ requests' \in Nat
  BY <1>1, <1>2, HoldsNone DEF ResInv, TypeOK
<1>4. IncrementGB \in Nat
  <2>1. CurrentGB \in Nat /\ Increment \in Nat
    BY SizeAssumption DEF CurrentGB, ResInv, TypeOK
  <2>2. CurrentGB * Increment \in Nat
    BY <2>1
  <2> DEFINE x == CurrentGB * Increment
  <2> HIDE DEF x
  <2>3. x \in Nat => x \div 100 \in Nat
    OBVIOUS
  <2> QED
    BY <2>2, <2>3 DEF IncrementGB, x
<1>5. "read" \in Steps /\ worker[Checker].kept \in Settings
      /\ worker[Checker].queue \ {d} \in SUBSET Databases
  BY <1>2, Fields DEF Steps
<1>6. CASE worker' = [worker EXCEPT ![Checker].step = "read",
                                    ![Checker].db = d,
                                    ![Checker].add = IncrementGB,
                                    ![Checker].queue = @ \ {d}]
  <2> DEFINE r == [worker[Checker] EXCEPT !.step = "read", !.db = d,
                                          !.add = IncrementGB,
                                          !.queue = worker[Checker].queue \ {d}]
  <2>1. r \in WorkerStates
    BY <1>2, <1>4, <1>5, NewCheck
  <2>2. worker' = [worker EXCEPT ![Checker] = r]
    BY <1>2, <1>6 DEF ResInv, TypeOK
  <2>3. /\ r.op = worker[Checker].op /\ r.target = worker[Checker].target
        /\ r.snap = worker[Checker].snap /\ r.db = d /\ r.step = "read"
    BY <1>2 DEF WorkerStates
  <2> HIDE DEF r
  <2> QED
    BY <1>1, <1>3, <2>1, <2>2, <2>3, CheckerMoves
<1>7. CASE worker' = [worker EXCEPT ![Checker].queue = @ \ {d}]
  <2> DEFINE r == [worker[Checker] EXCEPT !.queue = worker[Checker].queue \ {d}]
  <2>1. r \in WorkerStates
    BY <1>2, <1>4, <1>5, NewCheck
  <2>2. worker' = [worker EXCEPT ![Checker] = r]
    BY <1>2, <1>7 DEF ResInv, TypeOK
  <2>3. /\ r.op = worker[Checker].op /\ r.target = worker[Checker].target
        /\ r.snap = worker[Checker].snap /\ r.step = "next"
    BY <1>1, <1>2 DEF WorkerStates
  <2> HIDE DEF r
  <2> QED
    BY <1>1, <1>3, <2>1, <2>2, <2>3, CheckerMoves
<1> QED
  BY <1>6, <1>7 DEF CheckAutoscale

LEMMA FetchSettingsResInv ==
    ASSUME ResInv, FetchSettings
    PROVE  ResInv'
<1>1. /\ worker[Checker].step = "settings" /\ faults' \in Nat
      /\ UNCHANGED <<spec, size, fresh, setting, asked, requests>>
  BY DEF FetchSettings, At, Fails, Succeeds, ResInv, TypeOK
<1>2. Checker \in Workers /\ worker[Checker] \in WorkerStates
  BY DEF ResInv, TypeOK, Workers
<1> DEFINE d == worker[Checker].db
<1>3. d \in Databases /\ setting[d] \in Settings /\ requests' \in Nat
  BY <1>1, <1>2 DEF ResInv, TypeOK, Bounded
<1>4. ~settingFresh /\ \A s \in Shards : <<Checker, s>> \notin fresh
  BY <1>1, <1>2, HoldsNone
<1>5. CASE /\ worker' = [worker EXCEPT ![Checker].step = "record",
                                       ![Checker].kept = setting[d]]
           /\ settingFresh' = TRUE
  <2> DEFINE r == [worker[Checker] EXCEPT !.step = "record", !.kept = setting[d]]
  <2>1. r \in WorkerStates
    <3>1. "record" \in Steps /\ 0 \in Nat /\ {} \in SUBSET Databases
      BY DEF Steps
    <3> QED
      BY <1>2, <1>3, <3>1, NewCheck
  <2>2. worker' = [worker EXCEPT ![Checker] = r]
    BY <1>2, <1>5 DEF ResInv, TypeOK
  <2>3. /\ r.op = worker[Checker].op /\ r.target = worker[Checker].target
        /\ r.snap = worker[Checker].snap /\ r.db = d /\ r.step = "record"
        /\ r.kept = setting[d]
    BY <1>2 DEF WorkerStates
  <2> HIDE DEF r
  <2> QED
    BY <1>1, <1>3, <1>5, <2>1, <2>2, <2>3, CheckerMoves
<1>6. CASE Return(Checker) /\ UNCHANGED settingFresh
  BY <1>1, <1>2, <1>4, <1>6, ReturnResInv DEF ResInv, TypeOK
<1> QED
  BY <1>5, <1>6 DEF FetchSettings

\* A version that is still current makes the write of the settings one that
\* changes nothing.
LEMMA RecordKeepsSettings ==
    ASSUME ResInv, RecordEvent
    PROVE  setting' = setting
<1>1. CASE settingFresh /\ setting' = [setting EXCEPT ![worker[Checker].db]
                                                        = worker[Checker].kept]
  BY <1>1 DEF ResInv, SettingCurrent, TypeOK
<1> QED
  BY <1>1 DEF RecordEvent

LEMMA RecordResInv ==
    ASSUME ResInv, RecordEvent
    PROVE  ResInv'
<1>1. /\ worker[Checker].step = "record" /\ faults' \in Nat /\ Return(Checker)
      /\ settingFresh' = FALSE
      /\ UNCHANGED <<spec, size, fresh, asked, requests>>
  BY DEF RecordEvent, At, Fails, Succeeds, ResInv, TypeOK
<1>2. Checker \in Workers
  BY DEF Workers
<1>3. setting' = setting /\ \A s \in Shards : <<Checker, s>> \notin fresh
  BY <1>1, <1>2, RecordKeepsSettings, HoldsNone
<1> QED
  BY <1>1, <1>2, <1>3, ReturnResInv

LEMMA FinishCheckResInv ==
    ASSUME ResInv, FinishCheck
    PROVE  ResInv'
<1>1. /\ worker[Checker].step = "next" /\ worker' = [worker EXCEPT ![Checker] = Idle]
      /\ UNCHANGED <<spec, size, fresh, setting, settingFresh, asked, requests,
                     faults>>
  BY DEF FinishCheck, At
<1>2. /\ Checker \in Workers /\ {} \in SUBSET Databases /\ 0 \in Nat
      /\ "none" \in Ops /\ "idle" \in Steps
      /\ requests' \in Nat /\ faults' \in Nat /\ settingFresh' \in BOOLEAN
  BY <1>1 DEF Workers, Ops, Steps, ResInv, TypeOK
<1>3. ~settingFresh' /\ \A s \in Shards : <<Checker, s>> \notin fresh'
  BY <1>1, <1>2, HoldsNone
<1> DEFINE r == Idle
<1>4. worker' = [worker EXCEPT ![Checker] = r] /\ fresh' \subseteq fresh
  BY <1>1
<1> QED
  BY <1>1, <1>2, <1>3, <1>4, FreshRecord

LEMMA CrashResInv ==
    ASSUME ResInv, NEW w \in Workers, Crash(w)
    PROVE  ResInv'
<1>1. /\ worker' = [worker EXCEPT ![w] = Idle] /\ faults' \in Nat
      /\ fresh' = fresh \ ({w} \X Shards)
      /\ settingFresh' = (settingFresh /\ w # Checker)
      /\ UNCHANGED <<spec, size, setting, asked, requests>>
  BY DEF Crash, Fails, ResInv, TypeOK
<1>2. /\ {} \in SUBSET Databases /\ 0 \in Nat
      /\ "none" \in Ops /\ "idle" \in Steps
      /\ requests' \in Nat /\ settingFresh' \in BOOLEAN
      /\ w = Checker => ~settingFresh'
      /\ w # Checker => settingFresh' = settingFresh
  BY <1>1 DEF Ops, Steps, ResInv, TypeOK
<1> DEFINE r == Idle
<1>3. worker' = [worker EXCEPT ![w] = r] /\ fresh' \subseteq fresh
      /\ \A s \in Shards : <<w, s>> \notin fresh'
  BY <1>1
<1> QED
  BY ZenonT(60), <1>1, <1>2, <1>3, FreshRecord

LEMMA SettleResInv ==
    ASSUME ResInv, NEW d \in Databases, Settle(d)
    PROVE  ResInv'
<1>1. PICK x \in {"on", "off", "gone"} :
         /\ setting' = [setting EXCEPT ![d] = x]
         /\ settingFresh' = (settingFresh /\ worker[Checker].db # d)
         /\ UNCHANGED <<spec, size, fresh, worker, asked, requests, faults>>
  BY DEF Settle, SetAutoscale, DropSettings
<1>2. TypeOK'
  BY <1>1 DEF ResInv, TypeOK, Settings
<1>3. SizesOK' /\ (\A w \in Workers : Bounded(w)') /\ FreshCurrent'
  BY <1>1 DEF ResInv, SizesOK, Bounded, FreshCurrent, SpecOK
<1>4. ASSUME settingFresh'
      PROVE  /\ worker'[Checker].step = "record"
             /\ worker'[Checker].kept = setting'[worker'[Checker].db]
  <2>1. /\ worker' = worker /\ settingFresh /\ worker[Checker].db # d
        /\ worker[Checker].step = "record" /\ Checker \in Workers
        /\ worker[Checker].kept = setting[worker[Checker].db]
    BY <1>1, <1>4 DEF ResInv, SettingCurrent, Workers
  <2>2. worker[Checker].db \in Databases
    BY <2>1 DEF ResInv, Bounded
  <2> QED
    BY <1>1, <2>1, <2>2 DEF ResInv, TypeOK
<1>5. SettingCurrent'
  BY <1>4 DEF SettingCurrent
<1> QED
  BY <1>2, <1>3, <1>5 DEF ResInv

LEMMA GrowResInv ==
    ASSUME ResInv, NEW s \in Shards, GrowVolumes(s)
    PROVE  ResInv'
<1>1. /\ size' = [size EXCEPT ![s] = spec[s].gb]
      /\ UNCHANGED <<spec, fresh, worker, setting, settingFresh, asked, requests,
                     faults>>
  BY DEF GrowVolumes
<1>2. spec[s] \in Specs /\ SpecOK(spec[s])
  BY DEF ResInv, TypeOK, SizesOK
<1>3. TypeOK'
  BY <1>1, <1>2 DEF ResInv, TypeOK, Specs
<1>4. SizesOK'
  BY <1>1, <1>2 DEF ResInv, TypeOK, SizesOK, SpecOK
<1>5. (\A w \in Workers : Bounded(w)') /\ FreshCurrent' /\ SettingCurrent'
  BY <1>1 DEF ResInv, Bounded, FreshCurrent, SettingCurrent, SpecOK
<1> QED
  BY <1>3, <1>4, <1>5 DEF ResInv

LEMMA NextResInv == ResInv /\ [Next]_vars => ResInv'
<1> SUFFICES ASSUME ResInv, [Next]_vars PROVE ResInv'
  OBVIOUS
<1>1. CASE UNCHANGED vars
  BY <1>1 DEF vars, ResInv, TypeOK, SizesOK, Bounded, FreshCurrent,
              SettingCurrent, SpecOK
<1>2. ASSUME NEW w \in Workers, Resize(w) \/ Crash(w)
      PROVE  ResInv'
  BY <1>2, ReadResInv, ListResInv, UpdateResInv, RejectResInv, CrashResInv
     DEF Resize
<1>3. CASE Check
  BY <1>3, StartCheckResInv, CheckAutoscaleResInv, FetchSettingsResInv,
     RecordResInv, FinishCheckResInv DEF Check
<1> QED
  BY <1>1, <1>2, <1>3, StartResInv, SettleResInv, GrowResInv DEF Next

LEMMA Inductive == Spec => []ResInv
BY InitResInv, NextResInv, PTL DEF Spec

\* Every variable keeps its type: sizes, targets and increments stay natural
\* numbers, and the checker only ever names databases it was given.
THEOREM TypeCorrect == Spec => []TypeOK
<1>1. ResInv => TypeOK
  BY DEF ResInv
<1> QED
  BY <1>1, Inductive, PTL

\* The check in ResizeStorage bounds every write of every worker, for any
\* number of overlapping requests: no shard ever asks for more than the largest
\* volume there is.
THEOREM VolumeLimitKept == Spec => []WithinVolumeLimit
<1>1. ResInv => WithinVolumeLimit
  BY DEF ResInv, SizesOK, SpecOK, WithinVolumeLimit
<1> QED
  BY <1>1, Inductive, PTL

\* Conflicts, failures half-way, repeated requests and overlapping ones never
\* add an amount twice: no shard has more storage or compute than was asked
\* for.
THEOREM AskedForAtMost == Spec => []NeverMoreThanAsked
<1>1. ResInv => NeverMoreThanAsked
  BY DEF ResInv, SizesOK, SpecOK, NeverMoreThanAsked
<1> QED
  BY <1>1, Inductive, PTL

\* A VitessShard is written as a whole, and yet a storage resize never undoes
\* a compute resize, nor the other way round: the Update is versioned.
THEOREM FieldsKept == Spec => OtherFieldKept
<1> DEFINE Kept ==
      \A s \in Shards :
          /\ spec'[s].gb # spec[s].gb =>
               \E w \in Workers : /\ At(w, "update")
                                  /\ worker[w].op # "compute"
                                  /\ worker'[w] # worker[w]
          /\ spec'[s].cu # spec[s].cu =>
               \E w \in Workers : /\ At(w, "update")
                                  /\ worker[w].op = "compute"
                                  /\ worker'[w] # worker[w]
<1>1. ASSUME ResInv, NEW w \in Workers, UpdateShard(w)
      PROVE  Kept
  <2> DEFINE x == worker[w].snap[worker[w].shard]
  <2>1. /\ At(w, "update") /\ <<w, worker[w].shard>> \in fresh /\ Advance(w)
        /\ spec' = [spec EXCEPT ![worker[w].shard] = Wanted(w)]
    BY <1>1 DEF UpdateShard
  <2>2. worker[w].shard \in Shards
    BY <1>1, Fields DEF ResInv, TypeOK
  <2>3. x = spec[worker[w].shard] /\ x \in Specs
    BY <1>1, <2>1, <2>2 DEF ResInv, FreshCurrent, TypeOK
  <2>4. worker'[w] # worker[w]
    BY <1>1, <2>1, AdvanceRecord
  <2>5. Wanted(w) = IF worker[w].op = "compute"
                      THEN [x EXCEPT !.cu = worker[w].target]
                      ELSE [x EXCEPT !.gb = worker[w].target]
    BY DEF Wanted
  <2>6. \A s \in Shards \ {worker[w].shard} : spec'[s] = spec[s]
    BY <1>1, <2>1 DEF ResInv, TypeOK
  <2>7. spec'[worker[w].shard] = Wanted(w)
    BY <1>1, <2>1, <2>2 DEF ResInv, TypeOK
  <2> HIDE DEF x
  <2>8. /\ worker[w].op = "compute" => Wanted(w).gb = x.gb
        /\ worker[w].op # "compute" => Wanted(w).cu = x.cu
    BY <2>3, <2>5 DEF Specs
  <2> QED
    BY <2>1, <2>3, <2>4, <2>6, <2>7, <2>8
<1>2. ASSUME ResInv, [Next]_vars, spec' # spec
      PROVE  \E w \in Workers : UpdateShard(w)
  BY <1>2 DEF Next, vars, Resize, ReadStorage, ReadCompute, ListShards, RejectShard,
     StartStorage, StartCompute, Crash, Check, StartCheck, CheckAutoscale,
     FetchSettings, RecordEvent, FinishCheck, Settle, SetAutoscale, DropSettings,
     GrowVolumes
<1>3. ResInv /\ [Next]_vars => [Kept]_vars
  BY <1>1, <1>2
<1> QED
  BY <1>3, Inductive, PTL DEF Spec, OtherFieldKept

\* Only the user's own requests change autoscale settings: the checker's note,
\* which writes the whole secret back, never does.
THEOREM SettingsKept == Spec => SettingsAreTheUsers
<1> DEFINE Kept == setting' # setting => UNCHANGED worker
<1>1. ASSUME ResInv, [Next]_vars
      PROVE  Kept
  <2>1. CASE RecordEvent
    BY SMTT(60), <1>1, <2>1, RecordKeepsSettings
  <2>2. CASE ~RecordEvent
    BY <1>1, <2>2 DEF Next, vars, Resize, ReadStorage, ReadCompute, ListShards,
       UpdateShard, RejectShard, StartStorage, StartCompute, Crash, Check,
       StartCheck, CheckAutoscale, FetchSettings, FinishCheck, Settle,
       SetAutoscale, DropSettings, GrowVolumes
  <2> QED
    BY <2>1, <2>2
<1>2. ResInv /\ [Next]_vars => [Kept]_vars
  BY <1>1
<1> QED
  BY <1>2, Inductive, PTL DEF Spec, SettingsAreTheUsers
(***************************************************************************)
(* Compute starts from the first shard object itself, unlike storage, and  *)
(* so a user who makes one request at a time never loses compute.          *)
(***************************************************************************)

\* The first shard, written first, has the most; a compute resize wants no
\* less, and after its first write exactly that.
GrowInv ==
    /\ worker[Checker].op # "compute"
    /\ \A s \in Shards : spec[s].cu <= spec[1].cu
    /\ \A h \in Handlers :
          worker[h].op = "compute" /\ worker[h].step \in {"list", "update"} =>
            /\ spec[1].cu <= worker[h].target
            /\ At(h, "update") /\ worker[h].shard > 1 => spec[1].cu = worker[h].target

\* A step that leaves the compute of the shards as it is need only keep what
\* GrowInv says of the one worker that moves.
LEMMA MoveGrowInv ==
    ASSUME GrowInv, NEW w \in Workers,
           \A s \in Shards : spec'[s].cu = spec[s].cu,
           \A v \in Workers \ {w} : worker'[v] = worker[v],
           w = Checker => worker'[w].op # "compute",
           worker'[w].op = "compute" /\ worker'[w].step \in {"list", "update"} =>
             /\ spec[1].cu <= worker'[w].target
             /\ worker'[w].step = "update" /\ worker'[w].shard > 1 =>
                  spec[1].cu = worker'[w].target
    PROVE  GrowInv'
<1>1. 1 \in Shards
  BY SizeAssumption DEF Shards
<1>2. Checker \in Workers /\ \A h \in Handlers : h \in Workers
  BY DEF Workers
<1>3. worker'[Checker].op # "compute"
  BY <1>2 DEF GrowInv
<1>4. ASSUME NEW h \in Handlers,
             worker'[h].op = "compute", worker'[h].step \in {"list", "update"}
      PROVE  /\ spec'[1].cu <= worker'[h].target
             /\ worker'[h].step = "update" /\ worker'[h].shard > 1 =>
                  spec'[1].cu = worker'[h].target
  <2>1. CASE h = w
    BY <1>1, <1>4, <2>1
  <2>2. CASE h # w
    BY <1>1, <1>2, <1>4, <2>2 DEF GrowInv, At
  <2> QED
    BY <2>1, <2>2
<1> QED
  BY <1>1, <1>3, <1>4 DEF GrowInv, At

\* A worker that gives up, crashes or ends wants no compute any more.
LEMMA EndGrowInv ==
    ASSUME ResInv, GrowInv, NEW w \in Workers,
           Return(w) \/ worker' = [worker EXCEPT ![w] = Idle],
           \A s \in Shards : spec'[s].cu = spec[s].cu
    PROVE  GrowInv'
<1>1. worker \in [Workers -> WorkerStates]
  BY DEF ResInv, TypeOK
<1>2. Idle.op = "none" /\ \A q : [Idle EXCEPT !.op = "autoscale", !.step = "next",
                                             !.queue = q].op = "autoscale"
  BY DEF Idle
<1>3. PICK r : worker' = [worker EXCEPT ![w] = r] /\ r.op # "compute"
  BY <1>2 DEF Return
<1>4. worker'[w].op # "compute" /\ \A v \in Workers \ {w} : worker'[v] = worker[v]
  BY <1>1, <1>3
<1> QED
  BY <1>4, MoveGrowInv

\* An Update with a current version changes one shard, and its compute only
\* if compute was asked for.
LEMMA UpdateOfCompute ==
    ASSUME ResInv, NEW w \in Workers, UpdateShard(w)
    PROVE  /\ worker[w].shard \in Shards /\ worker[w].step = "update" /\ Advance(w)
           /\ \A s \in Shards \ {worker[w].shard} : spec'[s].cu = spec[s].cu
           /\ spec'[worker[w].shard].cu = IF worker[w].op = "compute"
                                            THEN worker[w].target
                                            ELSE spec[worker[w].shard].cu
<1> DEFINE i == worker[w].shard
           x == worker[w].snap[i]
<1>1. /\ worker[w].step = "update" /\ <<w, i>> \in fresh /\ Advance(w)
      /\ spec' = [spec EXCEPT ![i] = Wanted(w)]
  BY DEF UpdateShard, At
<1>2. i \in Shards
  BY Fields DEF ResInv, TypeOK
<1>3. x = spec[i] /\ x \in Specs
  BY <1>1, <1>2 DEF ResInv, FreshCurrent, TypeOK
<1>4. Wanted(w) = IF worker[w].op = "compute" THEN [x EXCEPT !.cu = worker[w].target]
                                              ELSE [x EXCEPT !.gb = worker[w].target]
  BY DEF Wanted
<1>5. spec'[i] = Wanted(w) /\ \A s \in Shards \ {i} : spec'[s] = spec[s]
  BY <1>1, <1>2 DEF ResInv, TypeOK
<1> HIDE DEF x, i
<1>6. Wanted(w).cu = IF worker[w].op = "compute" THEN worker[w].target ELSE x.cu
  BY <1>3, <1>4 DEF Specs
<1> QED
  BY <1>1, <1>2, <1>3, <1>5, <1>6 DEF i

LEMMA UpdateGrowInv ==
    ASSUME \A g, h \in Handlers : g = h,
           ResInv, GrowInv, NEW w \in Workers, UpdateShard(w)
    PROVE  GrowInv' /\ \A s \in Shards : spec'[s].cu >= spec[s].cu
<1> DEFINE i == worker[w].shard
           n == worker[w].target
<1>1. /\ i \in Shards /\ worker[w].step = "update" /\ Advance(w)
      /\ \A s \in Shards \ {i} : spec'[s].cu = spec[s].cu
      /\ spec'[i].cu = IF worker[w].op = "compute" THEN n ELSE spec[i].cu
  BY UpdateOfCompute
<1>2. /\ 1 \in Shards /\ Shards \subseteq Nat
      /\ \A s \in Shards : spec[s].cu \in Nat
  BY SizeAssumption DEF Shards, ResInv, TypeOK, Specs
<1>3. worker \in [Workers -> WorkerStates] /\ worker[w] \in WorkerStates /\ n \in Nat
  BY Fields DEF ResInv, TypeOK
<1>4. \A v \in Workers \ {w} : worker'[v] = worker[v]
  BY <1>1, <1>3 DEF Advance, Goto
<1>5. CASE worker[w].op # "compute"
  <2>1. \A s \in Shards : spec'[s].cu = spec[s].cu
    BY <1>1, <1>5
  <2>2. worker'[w].op # "compute"
    BY <1>1, <1>3, <1>5 DEF Advance, Goto, Idle, WorkerStates
  <2> QED
    BY <1>2, <1>4, <2>1, <2>2, MoveGrowInv
<1>6. CASE worker[w].op = "compute"
  <2>1. w \in Handlers /\ w # Checker /\ Checker \in Workers
    BY <1>6 DEF GrowInv, Workers
  <2>2. spec[1].cu <= n /\ (i > 1 => spec[1].cu = n)
    BY <1>1, <1>6, <2>1 DEF GrowInv, At
  <2>3. spec'[1].cu = n
    BY <1>1, <1>2, <1>6, <2>2 DEF Shards
  <2>4. \A s \in Shards : spec'[s].cu <= n /\ spec'[s].cu >= spec[s].cu
    BY <1>1, <1>2, <1>3, <1>6, <2>2 DEF GrowInv
  <2>5. \/ worker'[w].op = "none"
        \/ worker'[w].target = n
    BY <1>1, <1>3, <2>1 DEF Advance, Idle, WorkerStates
  <2>6. worker'[Checker].op # "compute"
    BY <1>4, <2>1 DEF GrowInv
  <2>7. \A h \in Handlers : h = w
    BY <2>1
  <2> HIDE DEF n
  <2>8. \A h \in Handlers : worker'[h].op = "compute" => spec'[1].cu = worker'[h].target
    BY <2>3, <2>5, <2>7
  <2> QED
    BY <1>2, <1>3, <2>3, <2>4, <2>6, <2>8 DEF GrowInv
<1> QED
  BY <1>5, <1>6

\* A compute resize starts from what the first shard has when it reads it.
LEMMA WorkGrowInv ==
    ASSUME ResInv, GrowInv, NEW w \in Workers,
           ReadStorage(w) \/ ReadCompute(w) \/ ListShards(w) \/ RejectShard(w) \/ Crash(w)
    PROVE  GrowInv' /\ spec' = spec
<1>1. spec' = spec
  BY DEF ReadStorage, ReadCompute, ListShards, RejectShard, Crash
<1>2. worker \in [Workers -> WorkerStates] /\ worker[w] \in WorkerStates
  BY DEF ResInv, TypeOK
<1>3. worker[w].target \in Nat /\ worker[w].add \in Nat /\ spec[1].cu \in Nat
  <2>1. 1 \in Shards
    BY SizeAssumption DEF Shards
  <2> QED
    BY <1>2, <2>1, Fields DEF ResInv, TypeOK, Specs
<1>4. CASE Return(w) \/ worker' = [worker EXCEPT ![w] = Idle]
  BY <1>1, <1>4, EndGrowInv
<1>5. CASE ReadStorage(w) /\ ~Return(w)
  <2>1. PICK n : worker' = [worker EXCEPT ![w].step = "list", ![w].target = n]
    BY <1>5 DEF ReadStorage
  <2>2. worker'[w].op # "compute" /\ \A v \in Workers \ {w} : worker'[v] = worker[v]
    BY <1>2, <1>5, <2>1 DEF ReadStorage, WorkerStates
  <2> QED
    BY <1>1, <2>2, MoveGrowInv
<1>6. CASE ReadCompute(w) /\ ~Return(w)
  <2> DEFINE n == spec[1].cu + worker[w].add
  <2>1. worker' = [worker EXCEPT ![w].step = "list", ![w].target = n]
    BY <1>6 DEF ReadCompute, CurrentCU
  <2>2. n \in Nat /\ spec[1].cu <= n
    BY <1>3
  <2>3. w # Checker
    BY <1>6 DEF ReadCompute, GrowInv
  <2> HIDE DEF n
  <2>4. /\ worker'[w].step = "list" /\ worker'[w].target = n
        /\ \A v \in Workers \ {w} : worker'[v] = worker[v]
    BY <1>2, <2>1 DEF WorkerStates
  <2> QED
    BY <1>1, <2>2, <2>3, <2>4, MoveGrowInv
<1>7. CASE ListShards(w) /\ ~Return(w)
  <2>1. /\ worker[w].step = "list"
        /\ worker' = [worker EXCEPT ![w].step = "update", ![w].shard = 1,
                                    ![w].snap = spec]
    BY <1>7 DEF ListShards, At
  <2>2. /\ worker'[w].op = worker[w].op /\ worker'[w].target = worker[w].target
        /\ worker'[w].shard = 1
        /\ \A v \in Workers \ {w} : worker'[v] = worker[v]
    BY <1>2, <2>1 DEF WorkerStates
  <2>3. w = Checker => worker[w].op # "compute"
    BY DEF GrowInv
  <2>4. worker[w].op = "compute" => spec[1].cu <= worker[w].target
    BY <2>1, <2>3 DEF GrowInv, Workers
  <2> QED
    BY <1>1, <2>2, <2>3, <2>4, MoveGrowInv
<1>8. CASE RejectShard(w) \/ Crash(w)
  BY <1>4, <1>8 DEF RejectShard, Crash
<1> QED
  BY <1>1, <1>4, <1>5, <1>6, <1>7, <1>8

LEMMA StartGrowInv ==
    ASSUME ResInv, GrowInv, NEW h \in Handlers, NEW add \in Adds,
           StartStorage(h, add) \/ StartCompute(h, add)
    PROVE  GrowInv' /\ spec' = spec
<1>1. /\ spec' = spec /\ h \in Workers /\ h # Checker
      /\ worker \in [Workers -> WorkerStates]
  BY WorkerAssumption DEF StartStorage, StartCompute, Workers, ResInv, TypeOK
<1>2. PICK o \in {"storage", "compute"} :
         worker' = [worker EXCEPT ![h] = [Idle EXCEPT !.op = o, !.step = "read",
                                                      !.add = add]]
  BY DEF StartStorage, StartCompute
<1>3. worker'[h].step = "read" /\ \A v \in Workers \ {h} : worker'[v] = worker[v]
  BY <1>1, <1>2 DEF Idle
<1> QED
  BY <1>1, <1>3, MoveGrowInv

LEMMA CheckGrowInv ==
    ASSUME ResInv, GrowInv, Check
    PROVE  GrowInv' /\ spec' = spec
<1>1. /\ spec' = spec /\ Checker \in Workers
      /\ worker \in [Workers -> WorkerStates]
  BY DEF Check, StartCheck, CheckAutoscale, FetchSettings, RecordEvent, FinishCheck,
         Workers, ResInv, TypeOK
<1>2. CASE Return(Checker) \/ worker' = [worker EXCEPT ![Checker] = Idle]
  BY <1>1, <1>2, EndGrowInv
<1>3. CASE StartCheck
  <2>1. PICK q : worker' = [worker EXCEPT ![Checker] =
                    [Idle EXCEPT !.op = "autoscale", !.step = "next", !.queue = q]]
    BY <1>3 DEF StartCheck
  <2>2. /\ worker'[Checker].op = "autoscale"
        /\ \A v \in Workers \ {Checker} : worker'[v] = worker[v]
    BY <1>1, <2>1 DEF Idle
  <2> QED
    BY <1>1, <2>2, MoveGrowInv
<1>4. CASE \/ \E d \in Databases : CheckAutoscale(d)
           \/ FetchSettings /\ ~Return(Checker)
  <2>1. /\ worker'[Checker].op = worker[Checker].op
        /\ \A v \in Workers \ {Checker} : worker'[v] = worker[v]
    <3>1. worker[Checker] \in WorkerStates
      BY <1>1
    <3>2. CASE \E d \in Databases : CheckAutoscale(d)
      BY <1>1, <3>1, <3>2 DEF CheckAutoscale, WorkerStates
    <3>3. CASE FetchSettings /\ ~Return(Checker)
      <4>1. worker' = [worker EXCEPT ![Checker].step = "record",
                                     ![Checker].kept = setting[worker[Checker].db]]
        BY <3>3 DEF FetchSettings
      <4> QED
        BY <1>1, <3>1, <4>1 DEF WorkerStates
    <3> QED
      BY <1>4, <3>2, <3>3
  <2>2. worker'[Checker].op # "compute"
    BY <2>1 DEF GrowInv
  <2> QED
    BY <1>1, <2>1, <2>2, MoveGrowInv
<1> QED
  BY <1>1, <1>2, <1>3, <1>4 DEF Check, RecordEvent, FinishCheck

LEMMA NextGrowInv ==
    ASSUME \A g, h \in Handlers : g = h, ResInv, GrowInv, [Next]_vars
    PROVE  GrowInv' /\ \A s \in Shards : spec'[s].cu >= spec[s].cu
<1>1. \A s \in Shards : spec[s].cu \in Nat
  BY DEF ResInv, TypeOK, Specs
<1>2. CASE UNCHANGED <<spec, worker>>
  BY <1>1, <1>2 DEF GrowInv, At
<1>3. ASSUME NEW w \in Workers, Resize(w) \/ Crash(w)
      PROVE  GrowInv' /\ \A s \in Shards : spec'[s].cu >= spec[s].cu
  BY <1>1, <1>3, UpdateGrowInv, WorkGrowInv DEF Resize
<1>4. ASSUME NEW h \in Handlers, NEW add \in Adds,
             StartStorage(h, add) \/ StartCompute(h, add)
      PROVE  GrowInv' /\ \A s \in Shards : spec'[s].cu >= spec[s].cu
  BY <1>1, <1>4, StartGrowInv
<1>5. CASE Check
  BY <1>1, <1>5, CheckGrowInv
<1>6. ASSUME \/ \E d \in Databases : Settle(d)
             \/ \E s \in Shards : GrowVolumes(s)
             \/ UNCHANGED vars
      PROVE  UNCHANGED <<spec, worker>>
  BY <1>6 DEF Settle, SetAutoscale, DropSettings, GrowVolumes, vars
<1> QED
  BY <1>2, <1>3, <1>4, <1>5, <1>6 DEF Next

\* While the API serves one resize at a time, no shard ever loses compute,
\* whatever fails half-way through the shards and whatever the checker does
\* meanwhile (ResizeCompute): the amount is added to the shard that is written
\* first.  Of storage this is not true, which is added to a volume that may
\* lag behind; nor of compute when two requests overlap.
THEOREM ComputeGrowsWhenAlone ==
    ASSUME \A g, h \in Handlers : g = h
    PROVE  Spec => [][\A s \in Shards : spec'[s].cu >= spec[s].cu]_vars
<1> DEFINE Grows == \A s \in Shards : spec'[s].cu >= spec[s].cu
<1>1. Init => GrowInv
  <2>1. 1 \in Shards
    BY SizeAssumption DEF Shards
  <2> QED
    BY <2>1, SizeAssumption DEF Init, GrowInv, Idle, NoSpecs, Spec0, Workers
<1>2. ResInv /\ GrowInv /\ [Next]_vars => GrowInv' /\ [Grows]_vars
  BY NextGrowInv
<1> QED
  BY <1>1, <1>2, Inductive, PTL DEF Spec
=============================================================================
