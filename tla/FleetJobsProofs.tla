-------------------------- MODULE FleetJobsProofs --------------------------
(***************************************************************************)
(* What TLAPS checks of FleetJobs: what a record says of the runtime, and  *)
(* what is left when a sweep is over, for any fleet, any width of the      *)
(* pools and any number of sweeps, requests and faults.                    *)
(***************************************************************************)
EXTENDS FleetJobs, TLAPS

ReadyValues == {"no", "read", "unread"}
WorkFields == {"by", "host", "mode", "late", "step"}
IsWork(w) == w = [x \in WorkFields |-> w[x]]

(* Only work on the watched endpoint is at a step that reads or writes. *)
WorkInv ==
  /\ {fjHas, fjShared} \subseteq BOOLEAN /\ fjReady \in ReadyValues /\ fjFaults \in Nat
  /\ \A w \in fjWork : IsWork(w) /\ (w.host # Watched => w.step = "done")

(* The runtime is there as soon as anybody has read that it is. *)
ClaimInv ==
  fjVc = "installed" \/ fjReady = "read" \/ (\E w \in fjWork : w.step \in {"installed", "pass"}) => fjHas

(* Work that is alone on the endpoint does not read that the runtime is      *)
(* missing and write so when it is there: whoever installs it is the one     *)
(* that will write.                                                          *)
LoneInv ==
  fjFaults = 0 /\ ~fjShared =>
    /\ \A v, w \in fjWork : v.host = Watched /\ w.host = Watched => v = w
    /\ \A w \in fjWork : w.host = Watched /\ w.step = "missing" => ~fjHas
    /\ fjHas /\ fjVc = "missing" =>
         \E w \in fjWork : w.host = Watched /\ w.step \in {"installed", "failed"}

RecordInv == WorkInv /\ ClaimInv /\ LoneInv

-----------------------------------------------------------------------------
(* One more piece of work: a worker takes an endpoint, or a request comes. *)
LEMMA TakenKeeps ==
  ASSUME RecordInv, NEW new, IsWork(new), new.step \in {"fetch", "skipped", "done"},
         new.host # Watched => new.step = "done",
         fjWork' = fjWork \cup {new},
         fjShared' = (fjShared \/ (new.host = Watched /\ WorkOnWatched # {})),
         UNCHANGED <<fjHostData, fjFaults>>
  PROVE  RecordInv'
<1>1. WorkInv'
  BY DEF RecordInv, WorkInv, fjHostData
<1>2. ClaimInv'
  BY DEF RecordInv, ClaimInv, fjHostData
<1>3. LoneInv'
  <2>. SUFFICES ASSUME fjFaults' = 0 /\ ~fjShared'
                PROVE  /\ \A v, w \in fjWork' : v.host = Watched /\ w.host = Watched => v = w
                       /\ \A w \in fjWork' : w.host = Watched /\ w.step = "missing" => ~fjHas'
                       /\ fjHas' /\ fjVc' = "missing" =>
                            \E w \in fjWork' : w.host = Watched /\ w.step \in {"installed", "failed"}
    BY DEF LoneInv
  <2>1. ~fjShared /\ fjFaults = 0 /\ (new.host = Watched => WorkOnWatched = {})
    BY DEF RecordInv, WorkInv
  <2>2. new.host = Watched => \A w \in fjWork : w.host # Watched
    BY <2>1 DEF WorkOnWatched
  <2>. QED
    BY <2>1, <2>2 DEF RecordInv, LoneInv, fjHostData
<1>. QED
  BY <1>1, <1>2, <1>3 DEF RecordInv

(* Work goes on: one piece changes its step, and with it the host or the     *)
(* record.                                                                   *)
LEMMA GoneOnKeeps ==
  ASSUME RecordInv, NEW w \in fjWork, w.step # "done", NEW next, IsWork(next),
         next.host = w.host,
         fjWork' = (fjWork \ {w}) \cup {next},
         UNCHANGED <<fjShared, fjFaults>>,
         fjHas' \in BOOLEAN, fjReady' \in ReadyValues, fjHas => fjHas',
         fjVc' = "installed" \/ fjReady' = "read" \/ next.step \in {"installed", "pass"} => fjHas',
         fjFaults = 0 /\ ~fjShared =>
           /\ next.step = "missing" => ~fjHas'
           /\ fjHas' /\ fjVc' = "missing" => next.step \in {"installed", "failed"}
  PROVE  RecordInv'
<1>1. w.host = Watched
  BY DEF RecordInv, WorkInv
<1>2. WorkInv'
  BY <1>1 DEF RecordInv, WorkInv
<1>3. ClaimInv'
  BY DEF RecordInv, ClaimInv
<1>4. LoneInv'
  <2>. SUFFICES ASSUME fjFaults' = 0 /\ ~fjShared'
                PROVE  /\ \A u, v \in fjWork' : u.host = Watched /\ v.host = Watched => u = v
                       /\ \A v \in fjWork' : v.host = Watched /\ v.step = "missing" => ~fjHas'
                       /\ fjHas' /\ fjVc' = "missing" =>
                            \E v \in fjWork' : v.host = Watched /\ v.step \in {"installed", "failed"}
    BY DEF LoneInv
  <2>1. \A v \in fjWork \ {w} : v.host # Watched
    BY <1>1 DEF RecordInv, LoneInv
  <2>. QED
    BY <1>1, <2>1
<1>. QED
  BY <1>2, <1>3, <1>4 DEF RecordInv

(* What a piece of work is after its step has changed. *)
LEMMA SteppedWork ==
  ASSUME NEW w, IsWork(w), NEW step
  PROVE  /\ IsWork([w EXCEPT !.step = step])
         /\ [w EXCEPT !.step = step].host = w.host
         /\ [w EXCEPT !.step = step].step = step
BY DEF IsWork, WorkFields

LEMMA AssessingWork ==
  ASSUME NEW w, IsWork(w), NEW step
  PROVE  /\ IsWork([w EXCEPT !.step = step, !.mode = "assess"])
         /\ [w EXCEPT !.step = step, !.mode = "assess"].host = w.host
         /\ [w EXCEPT !.step = step, !.mode = "assess"].step = step
BY DEF IsWork, WorkFields

-----------------------------------------------------------------------------
(* The readings and the installer: what is read is true when it is read. *)
LEMMA ReadsKeep ==
  ASSUME RecordInv, NEW w, EnsureReads(w)
  PROVE  RecordInv'
<1>0. /\ w \in fjWork /\ IsWork(w) /\ w.step \in {"fetch", "install"}
      /\ UNCHANGED <<fjShared, fjFaults, fjVc, fjReady>>
      /\ fjHas \in BOOLEAN /\ fjReady \in ReadyValues
  BY DEF EnsureReads, RecordInv, WorkInv
<1>1. w.host = Watched
  BY <1>0 DEF RecordInv, WorkInv
<1>2. fjFaults = 0 /\ ~fjShared => ~(fjHas /\ fjVc = "missing")
  BY <1>0, <1>1 DEF RecordInv, LoneInv
<1>3. ASSUME NEW step, WorkGoes(w, step), fjHas' \in BOOLEAN, fjHas => fjHas',
             step \in {"installed", "pass"} => fjHas',
             step = "missing" => ~fjHas',
             fjHas' = fjHas \/ step \in {"installed", "failed"}
      PROVE  RecordInv'
  <2>. DEFINE next == [w EXCEPT !.step = step]
  <2>1. IsWork(next) /\ next.host = w.host /\ next.step = step
    BY <1>0, SteppedWork
  <2>2. fjWork' = (fjWork \ {w}) \cup {next}
    BY <1>3 DEF WorkGoes
  <2>. HIDE DEF next
  <2>3. fjVc' = "installed" \/ fjReady' = "read" \/ next.step \in {"installed", "pass"} => fjHas'
    BY <1>0, <1>3, <2>1 DEF RecordInv, ClaimInv
  <2>4. fjFaults = 0 /\ ~fjShared =>
          /\ next.step = "missing" => ~fjHas'
          /\ fjHas' /\ fjVc' = "missing" => next.step \in {"installed", "failed"}
    BY <1>0, <1>2, <1>3, <2>1
  <2>. QED
    BY <1>0, <1>3, <2>1, <2>2, <2>3, <2>4, GoneOnKeeps
<1>4. CASE w.step = "fetch" /\ UNCHANGED fjHas
  <2>1. \/ WorkGoes(w, "failed") \/ WorkGoes(w, "unreached")
        \/ fjHas /\ WorkGoes(w, "installed")
        \/ ~fjHas /\ (WorkGoes(w, "missing") \/ WorkGoes(w, "install"))
    BY <1>0, <1>4 DEF EnsureReads
  <2>. QED
    BY <1>0, <1>3, <1>4, <2>1
<1>5. CASE w.step = "install"
  <2>1. /\ fjHas' \in {fjHas, TRUE}
        /\ WorkGoes(w, "failed") \/ (fjHas' /\ WorkGoes(w, "installed"))
    BY <1>5 DEF EnsureReads
  <2>2. fjHas' \in BOOLEAN /\ (fjHas => fjHas')
    <3>1. CASE fjHas' = fjHas
      BY <1>0, <3>1
    <3>2. CASE fjHas' = TRUE
      BY <3>2
    <3>. QED
      BY <2>1, <3>1, <3>2
  <2>3. CASE WorkGoes(w, "failed")
    BY <1>3, <2>2, <2>3
  <2>4. CASE fjHas' /\ WorkGoes(w, "installed")
    BY <1>3, <2>2, <2>4
  <2>. QED
    BY <2>1, <2>3, <2>4
<1>. QED
  BY <1>0, <1>4, <1>5 DEF EnsureReads

(* The writes: of what was read, and of a readiness that follows from it. *)
LEMMA WritesKeep ==
  ASSUME RecordInv, NEW w, EnsureWrites(w)
  PROVE  RecordInv'
<1>0. /\ w \in fjWork /\ IsWork(w) /\ UNCHANGED <<fjShared, fjFaults, fjHas>>
      /\ w.step \in {"installed", "missing", "failed", "unreached", "skipped",
                    "pass", "unread", "fail"}
      /\ fjHas \in BOOLEAN /\ fjReady \in ReadyValues
  BY DEF EnsureWrites, RecordInv, WorkInv
<1>1. w.host = Watched /\ (w.step \in {"installed", "pass"} => fjHas)
  BY <1>0 DEF RecordInv, WorkInv, ClaimInv
<1>2. fjFaults = 0 /\ ~fjShared =>
        /\ w.step = "missing" => ~fjHas
        /\ fjHas /\ fjVc = "missing" => w.step \in {"installed", "failed"}
  BY <1>0, <1>1 DEF RecordInv, LoneInv
<1>3. ASSUME NEW next, IsWork(next), next.host = w.host, fjWork' = (fjWork \ {w}) \cup {next},
             next.step \in {"fetch", "skipped", "done", "pass", "unread", "fail"},
             next.step = "pass" => fjHas, fjReady' \in ReadyValues,
             \/ /\ w.step \in {"skipped", "pass", "unread", "fail"} /\ fjVc' = fjVc
                /\ fjReady' = fjReady \/ (fjReady' = "read" => w.step = "pass")
             \/ /\ w.step \in {"installed", "missing", "failed", "unreached"}
                /\ fjVc' = (IF w.step = "unreached" THEN fjVc ELSE w.step) /\ fjReady' = fjReady
      PROVE  RecordInv'
  <2>1. fjVc' = "installed" \/ fjReady' = "read" \/ next.step \in {"installed", "pass"} => fjHas'
    BY <1>0, <1>1, <1>3 DEF RecordInv, ClaimInv
  <2>2. fjFaults = 0 /\ ~fjShared => ~(fjHas' /\ fjVc' = "missing")
    BY <1>0, <1>2, <1>3
  <2>3. w.step # "done" /\ fjHas' \in BOOLEAN /\ (fjHas => fjHas')
        /\ next.step # "missing" /\ UNCHANGED <<fjShared, fjFaults>>
    BY <1>0, <1>3
  <2>. QED
    BY <1>0, <1>3, <2>1, <2>2, <2>3, GoneOnKeeps
(* The two ways to go on.                                                    *)
<1>4. ASSUME NEW step, WorkGoes(w, step)
      PROVE  \E next : /\ IsWork(next) /\ next.host = w.host /\ next.step = step
                       /\ fjWork' = (fjWork \ {w}) \cup {next}
  BY <1>0, <1>4, SteppedWork DEF WorkGoes
<1>5. ASSUME NEW step, WorkAssesses(w, step)
      PROVE  \E next : /\ IsWork(next) /\ next.host = w.host /\ next.step = step
                       /\ fjWork' = (fjWork \ {w}) \cup {next}
  BY <1>0, <1>5, AssessingWork DEF WorkAssesses
<1>6. ASSUME w.step \in {"pass", "unread", "fail"}
      PROVE  RecordInv'
  <2>1. /\ WorkGoes(w, "done") /\ fjVc' = fjVc
        /\ fjReady' \in {"no"} \cup (CASE w.step = "pass" -> {"read"}
                                       [] w.step = "unread" -> {"unread"}
                                       [] w.step = "fail" -> {})
    BY <1>6 DEF EnsureWrites
  <2>2. fjReady' \in ReadyValues /\ (fjReady' = "read" => w.step = "pass")
    BY <1>6, <2>1 DEF ReadyValues
  <2>3. PICK next : /\ IsWork(next) /\ next.host = w.host /\ next.step = "done"
                    /\ fjWork' = (fjWork \ {w}) \cup {next}
    BY <1>4, <2>1
  <2>. QED
    BY <1>3, <1>6, <2>1, <2>2, <2>3
<1>7. ASSUME w.step = "skipped"
      PROVE  RecordInv'
  <2>1. /\ fjVc' = fjVc /\ fjReady' = fjReady
        /\ WorkAssesses(w, "skipped") \/ WorkGoes(w, "unread") \/ WorkGoes(w, "done")
    BY <1>7 DEF EnsureWrites
  <2>2. PICK next : /\ IsWork(next) /\ next.host = w.host
                    /\ next.step \in {"skipped", "unread", "done"}
                    /\ fjWork' = (fjWork \ {w}) \cup {next}
    BY <1>4, <1>5, <2>1
  <2>. QED
    BY <1>0, <1>3, <1>7, <2>1, <2>2
<1>8. ASSUME w.step \in {"installed", "missing", "failed", "unreached"}
      PROVE  RecordInv'
  <2>1. /\ fjVc' = (IF w.step = "unreached" THEN fjVc ELSE w.step) /\ fjReady' = fjReady
        /\ \/ WorkAssesses(w, "fetch") \/ WorkGoes(w, "fail") \/ WorkGoes(w, "done")
           \/ w.step = "installed" /\ WorkGoes(w, "pass")
    BY <1>8 DEF EnsureWrites
  <2>2. PICK next : /\ IsWork(next) /\ next.host = w.host
                    /\ next.step \in {"fetch", "fail", "done", "pass"}
                    /\ next.step = "pass" => w.step = "installed"
                    /\ fjWork' = (fjWork \ {w}) \cup {next}
    BY <1>4, <1>5, <2>1
  <2>. QED
    BY <1>0, <1>1, <1>3, <1>8, <2>1, <2>2
<1>. QED
  BY <1>0, <1>6, <1>7, <1>8

(* Work that ends has nothing left to write. *)
LEMMA EndsKeep ==
  ASSUME RecordInv, NEW w, WorkEnds(w)
  PROVE  RecordInv'
<1>1. /\ w.step \in {"fetch", "skipped", "done"} /\ fjWork' = fjWork \ {w}
      /\ UNCHANGED <<fjHas, fjVc, fjReady, fjShared, fjFaults>>
  BY DEF WorkEnds, fjHostData
<1>2. WorkInv' /\ ClaimInv'
  BY <1>1 DEF RecordInv, WorkInv, ClaimInv
<1>3. LoneInv'
  BY <1>1 DEF RecordInv, LoneInv
<1>. QED
  BY <1>2, <1>3 DEF RecordInv

(* A fault leaves no work that has got further than some work before it, and *)
(* nothing is claimed of lone work after it.                                 *)
LEMMA FaultKeeps ==
  ASSUME RecordInv, FjFault, UNCHANGED <<fjHostData, fjShared>>,
         \A w \in fjWork' : IsWork(w) /\ \E x \in fjWork : w.host = x.host /\ w.step = x.step
  PROVE  RecordInv'
<1>1. fjFaults \in Nat /\ fjFaults' = fjFaults + 1
  BY DEF RecordInv, WorkInv, FjFault
<1>2. WorkInv' /\ ClaimInv'
  BY <1>1 DEF RecordInv, WorkInv, ClaimInv, fjHostData
<1>3. LoneInv'
  BY <1>1 DEF LoneInv
<1>. QED
  BY <1>2, <1>3 DEF RecordInv

LEMMA FailsKeep ==
  ASSUME RecordInv, NEW k \in SweepKinds, SweepFails(k)
  PROVE  RecordInv'
<1>1. FjFault /\ UNCHANGED <<fjHostData, fjShared>>
  BY DEF SweepFails
<1>2. \/ fjWork' = fjWork
      \/ \E w \in BusyOf(k) :
           fjWork' = (fjWork \ BusyOf(k)) \cup {[x EXCEPT !.late = TRUE] : x \in BusyOf(k) \ {w}}
  BY DEF SweepFails
<1>3. \A x \in fjWork : IsWork(x)
  BY DEF RecordInv, WorkInv
<1>4. ASSUME NEW x, IsWork(x)
      PROVE  /\ IsWork([x EXCEPT !.late = TRUE])
             /\ [x EXCEPT !.late = TRUE].host = x.host /\ [x EXCEPT !.late = TRUE].step = x.step
  BY <1>4 DEF IsWork, WorkFields
<1>5. BusyOf(k) \subseteq fjWork
  BY DEF BusyOf
<1>6. \A y \in fjWork' : y \in fjWork \/ \E x \in fjWork : y = [x EXCEPT !.late = TRUE]
  BY <1>2, <1>5
<1>. QED
  BY <1>1, <1>3, <1>4, <1>6, FaultKeeps

LEMMA TakesKeep ==
  ASSUME RecordInv, NEW k \in SweepKinds, SweepTakes(k)
  PROVE  RecordInv'
<1>1. PICK pool :
        /\ fjWork' = fjWork \cup
             {[WorkOf(k, Head(pool[2]), pool[3]) EXCEPT !.late = pool \in fjLeft]}
        /\ fjShared' = (fjShared \/ (Head(pool[2]) = Watched /\ WorkOnWatched # {}))
        /\ UNCHANGED <<fjHostData, fjFaults>>
  BY DEF SweepTakes
<1>. DEFINE h    == Head(pool[2])
            mode == pool[3]
            late == pool \in fjLeft
<1>. DEFINE new == [WorkOf(k, h, mode) EXCEPT !.late = late]
<1>2. /\ IsWork(new) /\ new.host = h
      /\ new.step = IF mode = "users" \/ h # Watched THEN "done" ELSE "fetch"
  BY DEF WorkOf, IsWork, WorkFields
<1>3. fjWork' = fjWork \cup {new}
  BY <1>1
<1>. HIDE DEF new
<1>. QED
  BY <1>1, <1>2, <1>3, TakenKeeps

LEMMA RequestKeeps ==
  ASSUME RecordInv, NEW mode, NEW excluded \in BOOLEAN, EndpointRequest(mode, excluded)
  PROVE  RecordInv'
<1>. DEFINE new == [WorkOf("operator", Watched, mode) EXCEPT
                         !.step = IF excluded THEN "skipped" ELSE "fetch"]
<1>1. /\ IsWork(new) /\ new.host = Watched /\ new.step \in {"fetch", "skipped", "done"}
  BY DEF WorkOf, IsWork, WorkFields
<1>2. /\ fjWork' = fjWork \cup {new}
      /\ fjShared' = (fjShared \/ WorkOnWatched # {})
      /\ UNCHANGED <<fjHostData, fjFaults>>
  BY DEF EndpointRequest
<1>. HIDE DEF new
<1>. QED
  BY <1>1, <1>2, TakenKeeps

(* The invariant holds initially and is kept. *)
LEMMA RecordInductive ==
  /\ FleetJobsInit => RecordInv
  /\ RecordInv /\ [FleetJobsNext]_fjVars => RecordInv'
<1>1. FleetJobsInit => RecordInv
  <2>. SUFFICES ASSUME FleetJobsInit PROVE RecordInv
    OBVIOUS
  <2>1. /\ fjWork = {} /\ fjHas = FALSE /\ fjReady = "no" /\ fjShared = FALSE
        /\ fjVc = "unknown" /\ fjFaults = 0
    BY DEF FleetJobsInit
  <2>2. WorkInv
    BY <2>1 DEF WorkInv, ReadyValues
  <2>3. ClaimInv /\ LoneInv
    BY <2>1 DEF ClaimInv, LoneInv
  <2>. QED
    BY <2>2, <2>3 DEF RecordInv
<1>2. ASSUME RecordInv, [FleetJobsNext]_fjVars
      PROVE  RecordInv'
  <2>1. CASE UNCHANGED <<fjWork, fjHas, fjVc, fjReady, fjShared, fjFaults>>
    BY <1>2, <2>1 DEF RecordInv, WorkInv, ClaimInv, LoneInv
  <2>2. ASSUME NEW k \in SweepKinds, SweepEnters(k) \/ SweepCreates(k) \/ SweepEnds(k) \/ SweepCancelled(k)
        PROVE  UNCHANGED <<fjWork, fjHas, fjVc, fjReady, fjShared, fjFaults>>
    BY <2>2 DEF SweepEnters, SweepCreates, SweepEnds, SweepCancelled, fjHostData
  <2>3. CASE SweepRestart
    BY <1>2, <2>3, FaultKeeps DEF SweepRestart
  <2>4. CASE WorkStep
    BY <1>2, <2>4, ReadsKeep, WritesKeep, EndsKeep DEF WorkStep
  <2>5. UNCHANGED fjVars => UNCHANGED <<fjWork, fjHas, fjVc, fjReady, fjShared, fjFaults>>
    BY DEF fjVars
  <2>. QED
    BY <1>2, <2>1, <2>2, <2>3, <2>4, <2>5, FailsKeep, TakesKeep, RequestKeeps
       DEF FleetJobsNext, SweepStep
<1>. QED
  BY <1>1, <1>2

(* A record never says "installed", nor passes readiness, of a host without  *)
(* the runtime, and says "missing" of one with it only while work is under   *)
(* way, or has overlapped (vcRedist2015.js, endpointReadiness.js).           *)
THEOREM VcRecordTrueHolds == FleetJobsSpec => []VcRecordTrue
<1>1. RecordInv => VcRecordTrue
  BY DEF RecordInv, ClaimInv, LoneInv, VcRecordTrue, WorkOnWatched
<1>. QED
  BY <1>1, RecordInductive, PTL DEF FleetJobsSpec

-----------------------------------------------------------------------------
(* The sweeps.                                                               *)

(* Until a call fails no worker is left behind by its sweep, and none is at  *)
(* a place that only failures lead to.                                       *)
SweepInv ==
  /\ DOMAIN fjPlace = SweepKinds /\ DOMAIN fjTodo = SweepKinds
  /\ DOMAIN fjJob = SweepKinds
  /\ \A k \in SweepKinds : k \in fjFlag <=> fjPlace[k] # "idle"
  /\ fjFaults = 0 =>
       /\ fjLeft = {} /\ \A w \in fjWork : w.late = FALSE
       /\ \A k \in SweepKinds :
            /\ fjPlace[k] \in {"idle", "creating", "pool", "reporting"}
            /\ fjPlace[k] # "pool" => fjTodo[k] = <<>> /\ \A w \in fjWork : w.by # k
            /\ fjPlace[k] \in {"idle", "reporting"} => fjJob[k] # "running"

(* A step of work leaves its piece to whom it belongs. *)
LEMMA WorkStays ==
  ASSUME WorkInv, WorkStep
  PROVE  /\ \A x \in fjWork' : \E w \in fjWork : x.by = w.by /\ x.late = w.late
         /\ UNCHANGED <<fjFlag, fjPlace, fjTodo, fjLeft, fjJob, fjFaults>>
<1>1. PICK w \in fjWork : EnsureReads(w) \/ EnsureWrites(w) \/ WorkEnds(w)
  BY DEF WorkStep
<1>2. IsWork(w)
  BY DEF WorkInv
<1>3. ASSUME NEW step, WorkGoes(w, step)
      PROVE  \A x \in fjWork' : \E v \in fjWork : x.by = v.by /\ x.late = v.late
  <2>1. [w EXCEPT !.step = step].by = w.by /\ [w EXCEPT !.step = step].late = w.late
    BY <1>2 DEF IsWork, WorkFields
  <2>. QED
    BY <1>3, <2>1 DEF WorkGoes
<1>4. ASSUME NEW step, WorkAssesses(w, step)
      PROVE  \A x \in fjWork' : \E v \in fjWork : x.by = v.by /\ x.late = v.late
  <2>. DEFINE next == [w EXCEPT !.step = step, !.mode = "assess"]
  <2>1. next.by = w.by /\ next.late = w.late
    BY <1>2 DEF IsWork, WorkFields
  <2>. HIDE DEF next
  <2>2. fjWork' = (fjWork \ {w}) \cup {next}
    BY <1>4 DEF next, WorkAssesses
  <2>. QED
    BY <2>1, <2>2
<1>5. \/ \E step : WorkGoes(w, step)
      \/ \E step : WorkAssesses(w, step)
      \/ fjWork' = fjWork \ {w}
  BY <1>1 DEF EnsureReads, EnsureWrites, WorkEnds
<1>6. UNCHANGED <<fjFlag, fjPlace, fjTodo, fjLeft, fjJob, fjFaults>>
  BY <1>1 DEF EnsureReads, EnsureWrites, WorkEnds
<1>. QED
  BY <1>3, <1>4, <1>5, <1>6

LEMMA SweepTakesKeeps ==
  ASSUME SweepInv, NEW k \in SweepKinds, SweepTakes(k)
  PROVE  SweepInv'
<1>1. PICK pool \in {<<k, fjTodo[k], fjMode[k]>>} \cup fjLeft :
        /\ pool[1] = k /\ pool[2] # <<>>
        /\ pool \notin fjLeft => fjTodo' = [fjTodo EXCEPT ![k] = Tail(@)] /\ UNCHANGED fjLeft
        /\ pool \in fjLeft => UNCHANGED fjTodo
        /\ fjWork' = fjWork \cup
             {[WorkOf(k, Head(pool[2]), pool[3]) EXCEPT !.late = pool \in fjLeft]}
        /\ UNCHANGED <<fjFlag, fjPlace, fjJob, fjFaults>>
  BY DEF SweepTakes
<1>2. DOMAIN fjTodo' = SweepKinds
  BY <1>1 DEF SweepInv
<1>3. CASE fjFaults = 0
  <2>1. fjLeft = {} /\ pool = <<k, fjTodo[k], fjMode[k]>>
    BY <1>1, <1>3 DEF SweepInv
  <2>2. fjPlace[k] = "pool"
    BY <1>1, <1>3, <2>1 DEF SweepInv
  <2>. DEFINE new == [WorkOf(k, Head(pool[2]), pool[3]) EXCEPT !.late = pool \in fjLeft]
  <2>3. new.by = k /\ new.late = FALSE
    <3>. DEFINE base == WorkOf(k, Head(pool[2]), pool[3])
    <3>1. base.by = k /\ base.late = FALSE /\ DOMAIN base = WorkFields
      BY DEF WorkOf, WorkFields
    <3>. HIDE DEF base
    <3>2. (pool \in fjLeft) = FALSE
      BY <2>1
    <3>3. new = [base EXCEPT !.late = FALSE]
      BY <3>2 DEF base
    <3>4. new = [i \in WorkFields |-> IF i = "late" THEN FALSE ELSE base[i]]
      BY <3>1, <3>3
    <3>. QED
      BY <3>1, <3>4 DEF WorkFields
  <2>4. fjWork' = fjWork \cup {new}
    BY <1>1
  <2>. HIDE DEF new
  <2>5. fjLeft' = {} /\ \A i \in SweepKinds \ {k} : fjTodo'[i] = fjTodo[i]
    BY <1>1, <2>1 DEF SweepInv
  <2>. QED
    BY <1>1, <1>2, <1>3, <2>2, <2>3, <2>4, <2>5 DEF SweepInv
<1>4. CASE fjFaults # 0
  BY <1>1, <1>2, <1>4 DEF SweepInv
<1>. QED
  BY <1>3, <1>4

LEMMA SweepFailsKeeps ==
  ASSUME WorkInv, SweepInv, NEW k \in SweepKinds, SweepFails(k)
  PROVE  SweepInv'
<1>1. fjFaults' # 0
  BY DEF SweepFails, FjFault, WorkInv
<1>2. /\ \/ fjPlace' = [fjPlace EXCEPT ![k] = "failing"] /\ UNCHANGED fjFlag
         \/ fjPlace' = [fjPlace EXCEPT ![k] = "idle"] /\ fjFlag' = fjFlag \ {k}
      /\ fjPlace[k] # "idle"
  BY DEF SweepFails
<1>3. DOMAIN fjTodo' = SweepKinds /\ DOMAIN fjJob' = SweepKinds
  BY DEF SweepFails, SweepInv
<1>. QED
  BY <1>1, <1>2, <1>3 DEF SweepInv

LEMMA SweepKeeps ==
  ASSUME WorkInv, SweepInv, [FleetJobsNext]_fjVars
  PROVE  SweepInv'
<1>1. ASSUME NEW k \in SweepKinds, SweepEnters(k)
      PROVE  SweepInv'
  <2>1. UNCHANGED <<fjTodo, fjLeft, fjJob, fjWork, fjFaults>>
    BY <1>1 DEF SweepEnters
  <2>2. CASE UNCHANGED <<fjFlag, fjPlace>>
    BY <2>1, <2>2 DEF SweepInv
  <2>3. CASE /\ k \notin fjFlag /\ fjFlag' = fjFlag \cup {k}
             /\ fjPlace' = [fjPlace EXCEPT ![k] = "creating"]
    BY <2>1, <2>3 DEF SweepInv
  <2>. QED
    BY <1>1, <2>2, <2>3 DEF SweepEnters
<1>2. ASSUME NEW k \in SweepKinds, SweepCreates(k)
      PROVE  SweepInv'
  <2>1. /\ fjPlace[k] = "creating" /\ fjPlace' = [fjPlace EXCEPT ![k] = "pool"]
        /\ fjJob' = [fjJob EXCEPT ![k] = "running"]
        /\ fjTodo' = [fjTodo EXCEPT ![k] = VmList]
        /\ UNCHANGED <<fjFlag, fjLeft, fjWork, fjFaults>>
    BY <1>2 DEF SweepCreates
  <2>. QED
    BY <2>1 DEF SweepInv
<1>3. ASSUME NEW k \in SweepKinds, SweepEnds(k)
      PROVE  SweepInv'
  <2>1. UNCHANGED <<fjTodo, fjLeft, fjWork, fjFaults>>
    BY <1>3 DEF SweepEnds
  <2>2. CASE /\ fjPlace[k] = "pool" /\ fjTodo[k] = <<>> /\ BusyOf(k) = {}
             /\ fjPlace' = [fjPlace EXCEPT ![k] = "reporting"]
             /\ fjJob' = [fjJob EXCEPT ![k] = "ended"]
             /\ UNCHANGED fjFlag
    <3>1. fjFaults = 0 => \A w \in fjWork : w.by # k
      BY <2>2 DEF SweepInv, BusyOf
    <3>. QED
      BY <2>1, <2>2, <3>1 DEF SweepInv
  <2>3. CASE /\ fjPlace[k] = "reporting" /\ fjPlace' = [fjPlace EXCEPT ![k] = "idle"]
             /\ fjFlag' = fjFlag \ {k} /\ UNCHANGED fjJob
    BY <2>1, <2>3 DEF SweepInv
  <2>4. CASE /\ fjPlace[k] = "failing" /\ fjPlace' = [fjPlace EXCEPT ![k] = "idle"]
             /\ fjFlag' = fjFlag \ {k} /\ fjJob' = [fjJob EXCEPT ![k] = "ended"]
    BY <2>1, <2>4 DEF SweepInv
  <2>. QED
    BY <1>3, <2>2, <2>3, <2>4 DEF SweepEnds
<1>4. ASSUME NEW k \in SweepKinds, SweepCancelled(k)
      PROVE  SweepInv'
  BY <1>4 DEF SweepCancelled, SweepInv
<1>5. ASSUME NEW mode, NEW excluded \in BOOLEAN, EndpointRequest(mode, excluded)
      PROVE  SweepInv'
  <2>. DEFINE new == [WorkOf("operator", Watched, mode) EXCEPT
                         !.step = IF excluded THEN "skipped" ELSE "fetch"]
  <2>1. new.by = "operator" /\ new.late = FALSE
    BY DEF WorkOf
  <2>2. /\ fjWork' = fjWork \cup {new}
        /\ UNCHANGED <<fjFlag, fjPlace, fjTodo, fjLeft, fjJob, fjFaults>>
    BY <1>5 DEF EndpointRequest
  <2>3. "operator" \notin SweepKinds
    BY DEF SweepKinds
  <2>. HIDE DEF new
  <2>. QED
    BY <2>1, <2>2, <2>3 DEF SweepInv
<1>6. CASE WorkStep
  BY <1>6, WorkStays DEF SweepInv
<1>7. CASE SweepRestart
  <2>1. fjFaults' # 0
    BY <1>7 DEF SweepRestart, FjFault, WorkInv
  <2>. QED
    BY <1>7, <2>1 DEF SweepRestart, SweepInv
<1>8. CASE UNCHANGED fjVars
  BY <1>8 DEF fjVars, SweepInv
<1>. QED
  BY <1>1, <1>2, <1>3, <1>4, <1>5, <1>6, <1>7, <1>8, SweepTakesKeeps, SweepFailsKeeps
  DEF FleetJobsNext, SweepStep

(* A sweep's flag stands exactly while the sweep does, whatever fails; and   *)
(* as long as nothing has failed, all work that it started is over and its   *)
(* job is out of "running" when it is (the flags: vcRedist2015.js:234-237    *)
(* and 320-329, endpointReadiness.js:235-239 and 314-323,                    *)
(* localUserProvision.js:227-236 and 320-329).                               *)
THEOREM SweepsAccountedForHolds == FleetJobsSpec => []SweepsAccountedFor
<1>1. FleetJobsInit => SweepInv
  BY DEF FleetJobsInit, SweepInv
<1>2. RecordInv /\ SweepInv /\ [FleetJobsNext]_fjVars => RecordInv' /\ SweepInv'
  BY RecordInductive, SweepKeeps DEF RecordInv
<1>3. SweepInv => SweepsAccountedFor
  BY DEF SweepInv, SweepsAccountedFor
<1>. QED
  BY <1>1, <1>2, <1>3, RecordInductive, PTL DEF FleetJobsSpec

-----------------------------------------------------------------------------
(* The types. *)

(* A sweep that goes on has a mode of its kind, and leaves it to its workers. *)
FjTypeInv ==
  /\ FleetJobsTypeOK /\ DOMAIN fjMode = SweepKinds
  /\ \A k \in SweepKinds : fjPlace[k] # "idle" => fjMode[k] \in SweepModes(k)

LEMMA ModesOfSweeps ==
  ASSUME NEW k \in SweepKinds, NEW mode \in SweepModes(k)
  PROVE  mode \in SweepModes(k) \cup {"none"}
OBVIOUS

(* A worker takes an endpoint. *)
LEMMA SweepTakesTyped ==
  ASSUME FjTypeInv, NEW k \in SweepKinds, SweepTakes(k)
  PROVE  FjTypeInv'
<1>1. PICK pool \in {<<k, fjTodo[k], fjMode[k]>>} \cup fjLeft :
        /\ pool[1] = k /\ pool[2] # <<>>
        /\ \/ /\ pool \in fjLeft /\ UNCHANGED fjTodo
              /\ fjLeft' = (fjLeft \ {pool}) \cup {<<k, Tail(pool[2]), pool[3]>>}
           \/ /\ pool = <<k, fjTodo[k], fjMode[k]>> /\ UNCHANGED fjLeft
              /\ fjTodo' = [fjTodo EXCEPT ![k] = Tail(@)]
        /\ fjWork' = fjWork \cup
             {[WorkOf(k, Head(pool[2]), pool[3]) EXCEPT !.late = pool \in fjLeft]}
        /\ fjShared' = (fjShared \/ (Head(pool[2]) = Watched /\ WorkOnWatched # {}))
        /\ UNCHANGED <<fjFlag, fjPlace, fjMode, fjJob, fjHostData, fjAsked, fjFaults>>
  BY DEF SweepTakes
<1>2. fjTodo \in [SweepKinds -> Seq(Hosts)]
  BY DEF FjTypeInv, FleetJobsTypeOK
<1>3. pool[2] \in Seq(Hosts) /\ pool[2] # <<>>
  BY <1>1, <1>2 DEF FjTypeInv, FleetJobsTypeOK
<1>4. Head(pool[2]) \in Hosts /\ Tail(pool[2]) \in Seq(Hosts)
  BY <1>3
<1>5. fjTodo' \in [SweepKinds -> Seq(Hosts)]
  <2>1. CASE UNCHANGED fjTodo
    BY <1>2, <2>1
  <2>2. CASE /\ pool = <<k, fjTodo[k], fjMode[k]>>
             /\ fjTodo' = [fjTodo EXCEPT ![k] = Tail(@)]
    <3>1. pool[2] = fjTodo[k]
      BY <2>2
    <3>2. Tail(fjTodo[k]) \in Seq(Hosts)
      BY <1>4, <3>1
    <3>. QED
      BY <1>2, <2>2, <3>2
  <2>. QED
    BY <1>1, <2>1, <2>2
<1>6. \A l \in fjLeft' : l[1] \in SweepKinds /\ l[2] \in Seq(Hosts) /\ l[3] \in SweepModes(l[1])
  <2>1. \A l \in fjLeft : l[1] \in SweepKinds /\ l[2] \in Seq(Hosts) /\ l[3] \in SweepModes(l[1])
    BY DEF FjTypeInv, FleetJobsTypeOK
  <2>2. CASE fjLeft' = (fjLeft \ {pool}) \cup {<<k, Tail(pool[2]), pool[3]>>} /\ pool \in fjLeft
    <3>. DEFINE rest == <<k, Tail(pool[2]), pool[3]>>
    <3>1. rest[1] \in SweepKinds /\ rest[2] \in Seq(Hosts) /\ rest[3] \in SweepModes(rest[1])
      BY <1>1, <1>4, <2>1, <2>2
    <3>. HIDE DEF rest
    <3>2. fjLeft' = (fjLeft \ {pool}) \cup {rest}
      BY <2>2 DEF rest
    <3>. QED
      BY <2>1, <3>1, <3>2
  <2>. QED
    BY <1>1, <2>1, <2>2
<1>7. \A w \in fjWork' : w.host \in Hosts /\ w.late \in BOOLEAN
  <2>. DEFINE base == WorkOf(k, Head(pool[2]), pool[3])
              new  == [base EXCEPT !.late = pool \in fjLeft]
  <2>1. base.host \in Hosts /\ DOMAIN base = WorkFields
    BY <1>4 DEF WorkOf, WorkFields
  <2>. HIDE DEF base
  <2>2. new.host = base.host /\ new.late = (pool \in fjLeft)
    BY <2>1 DEF WorkFields
  <2>3. fjWork' = fjWork \cup {new}
    BY <1>1 DEF base
  <2>4. new.late \in BOOLEAN
    BY <2>2
  <2>. HIDE DEF new
  <2>. QED
    BY <2>1, <2>2, <2>3, <2>4 DEF FjTypeInv, FleetJobsTypeOK
<1>8. {fjHas', fjShared'} \subseteq BOOLEAN /\ fjReady' \in ReadyValues
  <2>1. fjShared' \in BOOLEAN
    BY <1>1
  <2>. QED
    BY <1>1, <2>1 DEF FjTypeInv, FleetJobsTypeOK, fjHostData, ReadyValues
<1>. QED
  BY <1>1, <1>5, <1>6, <1>7, <1>8 DEF FjTypeInv, FleetJobsTypeOK, fjHostData, ReadyValues

(* A sweep fails, and may leave its workers behind. *)
LEMMA SweepFailsTyped ==
  ASSUME WorkInv, FjTypeInv, NEW k \in SweepKinds, SweepFails(k)
  PROVE  FjTypeInv'
<1>1. fjFaults' \in 0 .. MaxFaults
  BY FleetAssumption DEF SweepFails, FjFault, FjTypeInv, FleetJobsTypeOK
<1>2. fjJob' \in [SweepKinds -> {"none", "running", "ended", "stopped"}]
  BY DEF SweepFails, FjTypeInv, FleetJobsTypeOK
<1>3. /\ fjFlag' \subseteq SweepKinds
      /\ fjPlace' \in [SweepKinds -> {"idle", "creating", "pool", "reporting", "failing"}]
      /\ \A i \in SweepKinds : fjPlace'[i] # "idle" => fjPlace[i] # "idle"
  BY DEF SweepFails, FjTypeInv, FleetJobsTypeOK
<1>4. fjTodo' \in [SweepKinds -> Seq(Hosts)]
  <2>1. fjTodo \in [SweepKinds -> Seq(Hosts)] /\ <<>> \in Seq(Hosts)
    BY DEF FjTypeInv, FleetJobsTypeOK
  <2>2. fjTodo' = fjTodo \/ fjTodo' = [fjTodo EXCEPT ![k] = <<>>]
    BY DEF SweepFails
  <2>. QED
    BY <2>1, <2>2
<1>5. \A l \in fjLeft' : l[1] \in SweepKinds /\ l[2] \in Seq(Hosts) /\ l[3] \in SweepModes(l[1])
  <2>. DEFINE left == <<k, fjTodo[k], fjMode[k]>>
  <2>1. fjLeft' = fjLeft \/ (fjLeft' = fjLeft \cup {left} /\ fjPlace[k] = "pool")
    BY DEF SweepFails
  <2>2. \A l \in fjLeft : l[1] \in SweepKinds /\ l[2] \in Seq(Hosts) /\ l[3] \in SweepModes(l[1])
    BY DEF FjTypeInv, FleetJobsTypeOK
  <2>3. fjPlace[k] = "pool" =>
          left[1] \in SweepKinds /\ left[2] \in Seq(Hosts) /\ left[3] \in SweepModes(left[1])
    BY DEF FjTypeInv, FleetJobsTypeOK
  <2>. HIDE DEF left
  <2>. QED
    BY <2>1, <2>2, <2>3
<1>6. \A w \in fjWork' : w.host \in Hosts /\ w.late \in BOOLEAN
  <2>1. ASSUME NEW x \in fjWork' \ fjWork
        PROVE  x.host \in Hosts /\ x.late \in BOOLEAN
    <3>1. PICK w \in fjWork : x = [w EXCEPT !.late = TRUE]
      BY <2>1 DEF SweepFails, BusyOf
    <3>2. DOMAIN w = WorkFields
      BY DEF WorkInv, IsWork
    <3>3. x.host = w.host /\ x.late = TRUE
      BY <3>1, <3>2 DEF WorkFields
    <3>. QED
      BY <3>3 DEF FjTypeInv, FleetJobsTypeOK
  <2>. QED
    BY <2>1 DEF FjTypeInv, FleetJobsTypeOK
<1>7. UNCHANGED <<fjMode, fjHas, fjVc, fjReady, fjShared, fjAsked>>
  BY DEF SweepFails, fjHostData
<1>. QED
  BY <1>1, <1>2, <1>3, <1>4, <1>5, <1>6, <1>7 DEF FjTypeInv, FleetJobsTypeOK

(* The other steps of a sweep. *)
LEMMA SweepGoesTyped ==
  ASSUME FjTypeInv, NEW k \in SweepKinds,
         SweepEnters(k) \/ SweepCreates(k) \/ SweepEnds(k) \/ SweepCancelled(k)
  PROVE  FjTypeInv'
<1>0. fjAsked < MaxSweeps /\ fjAsked' = fjAsked + 1 => fjAsked' \in 0 .. MaxSweeps
  BY FleetJobsAssumption DEF FjTypeInv, FleetJobsTypeOK
<1>1. CASE SweepEnters(k)
  <2>1. fjAsked' \in 0 .. MaxSweeps
           /\ UNCHANGED <<fjTodo, fjLeft, fjJob, fjWork, fjHas, fjVc, fjReady, fjShared, fjFaults>>
    BY <1>0, <1>1 DEF SweepEnters, fjHostData
  <2>2. CASE UNCHANGED <<fjFlag, fjPlace, fjMode>>
    BY <2>1, <2>2 DEF FjTypeInv, FleetJobsTypeOK
  <2>3. ASSUME NEW mode \in SweepModes(k), fjMode' = [fjMode EXCEPT ![k] = mode],
               fjFlag' = fjFlag \cup {k}, fjPlace' = [fjPlace EXCEPT ![k] = "creating"]
        PROVE  FjTypeInv'
    <3>1. /\ DOMAIN fjMode' = SweepKinds /\ fjMode'[k] = mode
          /\ \A i \in SweepKinds \ {k} : fjMode'[i] = fjMode[i] /\ fjPlace'[i] = fjPlace[i]
      BY <2>3 DEF FjTypeInv, FleetJobsTypeOK
    <3>2. \A i \in SweepKinds : fjMode'[i] \in SweepModes(i) \cup {"none"}
      BY <3>1, ModesOfSweeps DEF FjTypeInv, FleetJobsTypeOK
    <3>3. \A i \in SweepKinds : fjPlace'[i] # "idle" => fjMode'[i] \in SweepModes(i)
      BY <3>1 DEF FjTypeInv, FleetJobsTypeOK
    <3>4. /\ fjFlag' \subseteq SweepKinds
          /\ fjPlace' \in [SweepKinds -> {"idle", "creating", "pool", "reporting", "failing"}]
      BY <2>3 DEF FjTypeInv, FleetJobsTypeOK
    <3>. QED
      BY <2>1, <3>1, <3>2, <3>3, <3>4 DEF FjTypeInv, FleetJobsTypeOK
  <2>. QED
    BY <1>1, <2>2, <2>3 DEF SweepEnters
<1>2. CASE SweepCreates(k)
  <2>1. /\ fjPlace[k] = "creating" /\ fjPlace' = [fjPlace EXCEPT ![k] = "pool"]
        /\ fjJob' = [fjJob EXCEPT ![k] = "running"] /\ fjTodo' = [fjTodo EXCEPT ![k] = VmList]
        /\ UNCHANGED <<fjFlag, fjMode, fjLeft, fjWork, fjHas, fjVc, fjReady, fjShared, fjAsked, fjFaults>>
    BY <1>2 DEF SweepCreates, fjHostData
  <2>2. fjTodo' \in [SweepKinds -> Seq(Hosts)]
    BY <2>1, FleetJobsAssumption DEF FjTypeInv, FleetJobsTypeOK
  <2>3. /\ fjPlace' \in [SweepKinds -> {"idle", "creating", "pool", "reporting", "failing"}]
        /\ fjJob' \in [SweepKinds -> {"none", "running", "ended", "stopped"}]
        /\ \A i \in SweepKinds : fjPlace'[i] # "idle" => fjPlace[i] # "idle"
    BY <2>1 DEF FjTypeInv, FleetJobsTypeOK
  <2>. QED
    BY <2>1, <2>2, <2>3 DEF FjTypeInv, FleetJobsTypeOK
<1>3. CASE SweepEnds(k)
  <2>1. /\ fjFlag' \subseteq fjFlag
        /\ fjPlace' \in [SweepKinds -> {"idle", "creating", "pool", "reporting", "failing"}]
        /\ fjJob' \in [SweepKinds -> {"none", "running", "ended", "stopped"}]
        /\ \A i \in SweepKinds : fjPlace'[i] # "idle" => fjPlace[i] # "idle"
        /\ UNCHANGED <<fjMode, fjTodo, fjLeft, fjWork, fjHas, fjVc, fjReady, fjShared, fjAsked, fjFaults>>
    BY <1>3 DEF SweepEnds, fjHostData, FjTypeInv, FleetJobsTypeOK
  <2>. QED
    BY <2>1 DEF FjTypeInv, FleetJobsTypeOK
<1>4. CASE SweepCancelled(k)
  <2>1. /\ fjAsked' \in 0 .. MaxSweeps
        /\ fjJob' \in [SweepKinds -> {"none", "running", "ended", "stopped"}]
        /\ UNCHANGED <<fjFlag, fjPlace, fjMode, fjTodo, fjLeft, fjWork, fjHas, fjVc, fjReady, fjShared, fjFaults>>
    BY <1>0, <1>4 DEF SweepCancelled, fjHostData, FjTypeInv, FleetJobsTypeOK
  <2>. QED
    BY <2>1 DEF FjTypeInv, FleetJobsTypeOK
<1>. QED
  BY <1>1, <1>2, <1>3, <1>4

(* A step of work, and a request for one endpoint. *)
LEMMA WorkTyped ==
  ASSUME WorkInv, FjTypeInv, WorkStep
  PROVE  FjTypeInv'
<1>1. PICK w \in fjWork : EnsureReads(w) \/ EnsureWrites(w) \/ WorkEnds(w)
  BY DEF WorkStep
<1>2. DOMAIN w = WorkFields /\ w.host \in Hosts /\ w.late \in BOOLEAN
  BY DEF WorkInv, IsWork, FjTypeInv, FleetJobsTypeOK
<1>3. \A x \in fjWork' : x.host \in Hosts /\ x.late \in BOOLEAN
  <2>1. ASSUME NEW step, WorkGoes(w, step), NEW x \in fjWork' \ fjWork
        PROVE  x.host = w.host /\ x.late = w.late
    BY <1>2, <2>1 DEF WorkGoes, WorkFields
  <2>2. ASSUME NEW step, WorkAssesses(w, step),
               NEW x \in fjWork' \ fjWork
        PROVE  x.host = w.host /\ x.late = w.late
    BY <1>2, <2>2 DEF WorkAssesses, WorkFields
  <2>3. \/ \E step : WorkGoes(w, step)
        \/ \E step : WorkAssesses(w, step)
        \/ fjWork' = fjWork \ {w}
    BY <1>1 DEF EnsureReads, EnsureWrites, WorkEnds
  <2>4. \A x \in fjWork' \ fjWork : x.host = w.host /\ x.late = w.late
    BY <2>1, <2>2, <2>3
  <2>. QED
    BY <1>2, <2>4 DEF FjTypeInv, FleetJobsTypeOK
<1>4. fjHas' \in BOOLEAN
  BY <1>1 DEF EnsureReads, EnsureWrites, WorkEnds, fjHostData, FjTypeInv, FleetJobsTypeOK
<1>5. fjReady' \in ReadyValues
  <2>1. ASSUME EnsureWrites(w)
        PROVE  fjReady' \in {fjReady, "no", "read", "unread"}
    BY <2>1 DEF EnsureWrites
  <2>. QED
    BY <1>1, <2>1 DEF EnsureReads, WorkEnds, fjHostData, FjTypeInv, FleetJobsTypeOK, ReadyValues
<1>6. fjVc' \in {"unknown", "installed", "missing", "failed"}
  <2>1. CASE EnsureWrites(w)
    BY <2>1 DEF EnsureWrites, FjTypeInv, FleetJobsTypeOK
  <2>. QED
    BY <1>1, <2>1 DEF EnsureReads, WorkEnds, fjHostData, FjTypeInv, FleetJobsTypeOK
<1>7. UNCHANGED <<fjFlag, fjPlace, fjMode, fjTodo, fjLeft, fjJob, fjShared, fjAsked, fjFaults>>
  BY <1>1 DEF EnsureReads, EnsureWrites, WorkEnds
<1>. QED
  BY <1>3, <1>4, <1>5, <1>6, <1>7 DEF FjTypeInv, FleetJobsTypeOK, ReadyValues

LEMMA RequestTyped ==
  ASSUME FjTypeInv, NEW mode, NEW excluded \in BOOLEAN, EndpointRequest(mode, excluded)
  PROVE  FjTypeInv'
<1>. DEFINE new == [WorkOf("operator", Watched, mode) EXCEPT
                         !.step = IF excluded THEN "skipped" ELSE "fetch"]
<1>1. new.host \in Hosts /\ new.late \in BOOLEAN
  BY FleetJobsAssumption DEF WorkOf
<1>2. fjWork' = fjWork \cup {new}
  BY DEF EndpointRequest
<1>. HIDE DEF new
<1>3. \A w \in fjWork' : w.host \in Hosts /\ w.late \in BOOLEAN
  BY <1>1, <1>2 DEF FjTypeInv, FleetJobsTypeOK
<1>4. fjAsked' \in 0 .. MaxSweeps
  BY FleetJobsAssumption DEF EndpointRequest, FjTypeInv, FleetJobsTypeOK
<1>5. fjShared' \in BOOLEAN
  BY DEF EndpointRequest
<1>6. UNCHANGED <<fjFlag, fjPlace, fjMode, fjTodo, fjLeft, fjJob, fjHas, fjVc, fjReady, fjFaults>>
  BY DEF EndpointRequest, fjHostData
<1>. QED
  BY <1>3, <1>4, <1>5, <1>6 DEF FjTypeInv, FleetJobsTypeOK

LEMMA FjTypesKept ==
  ASSUME WorkInv, FjTypeInv, [FleetJobsNext]_fjVars
  PROVE  FjTypeInv'
<1>1. CASE SweepRestart
  <2>1. /\ fjTodo' = [k \in SweepKinds |-> <<>>] /\ fjMode' = [k \in SweepKinds |-> "none"]
        /\ fjPlace' = [k \in SweepKinds |-> "idle"]
        /\ fjFlag' = {} /\ fjWork' = {} /\ fjLeft' = {} /\ fjFaults' \in 0 .. MaxFaults
        /\ UNCHANGED <<fjJob, fjHas, fjVc, fjReady, fjShared, fjAsked>>
    BY <1>1, FleetAssumption DEF SweepRestart, FjFault, fjHostData, FjTypeInv, FleetJobsTypeOK
  <2>2. fjTodo' \in [SweepKinds -> Seq(Hosts)]
    BY <2>1
  <2>. QED
    BY <2>1, <2>2 DEF FjTypeInv, FleetJobsTypeOK
<1>2. CASE UNCHANGED fjVars
  BY <1>2 DEF fjVars, FjTypeInv, FleetJobsTypeOK
<1>. QED
  BY <1>1, <1>2, WorkTyped, RequestTyped, SweepTakesTyped, SweepFailsTyped, SweepGoesTyped
  DEF FleetJobsNext, SweepStep

LEMMA FjTypesInitially ==
  ASSUME FleetJobsInit
  PROVE  FjTypeInv
<1>1. fjTodo \in [SweepKinds -> Seq(Hosts)]
  BY DEF FleetJobsInit
<1>2. fjAsked \in 0 .. MaxSweeps /\ fjFaults \in 0 .. MaxFaults
  BY FleetAssumption, FleetJobsAssumption DEF FleetJobsInit
<1>. QED
  BY <1>1, <1>2 DEF FleetJobsInit, FjTypeInv, FleetJobsTypeOK
=============================================================================
