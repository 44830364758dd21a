-------------------------- MODULE DeploymentProofs --------------------------
(***************************************************************************)
(* Proofs about Deployment.  What DONE means needs to know that a run of   *)
(* oneshot.sh which got past docker run finds under its name the container *)
(* it started, and that a server which serves was able to.  What an        *)
(* error-free warm-up means needs to know that one server was there from   *)
(* its first answer on.                                                    *)
(***************************************************************************)
EXTENDS Deployment, TLAPS

Warming == {"sweep", "smoke", "done"}

OneServes == ~(Serves("oneshot") /\ Serves("champion"))

AbleServes ==
  Serves("oneshot") => box["oneshot"].image # "base" /\ files = Files

ImageChosen ==
  one.pc \in {"model", "download", "remove", "run", "health"} \union Warming =>
    one.image \in {"a4q2", "base"}

ContainerIsRuns ==
  one.pc \in {"health"} \union Warming =>
    /\ box["oneshot"] # Absent
    /\ box["oneshot"].image = one.image
    /\ box["oneshot"].profile = one.profile

DoneAnswered == At("oneshot", "done") /\ ~one.lost => Answered

DoneInv ==
  OneServes /\ AbleServes /\ ImageChosen /\ ContainerIsRuns /\ DoneAnswered

(* The requests a sweep has behind it. *)
Behind(s) ==
  IF At(s, "sweep") THEN 1..(run[s].next - 1)
  ELSE IF run[s].pc \in Warming THEN DOMAIN Sweep ELSE {}

WarmSoFar(s) ==
  Behind(s) # {} /\ run[s].quiet /\ ~run[s].lost =>
    \E t \in Scripts : Serves(t) /\ \A i \in Behind(s) : Sweep[i] \in box[t].warm

SweepStartsOver == \A s \in Scripts : At(s, "sweep") \/ run[s].next = 1

WarmInv == SweepStartsOver /\ \A s \in Scripts : WarmSoFar(s)

-----------------------------------------------------------------------------
(* A container is a record, and no record is the absence of one. *)
LEMMA BoxRecord ==
  ASSUME TypeOK, NEW s \in Scripts, box[s] # Absent
  PROVE  box[s] \in Containers
  BY DEF TypeOK

LEMMA SweepFacts ==
  /\ Len(Sweep) \in Nat \ {0} /\ DOMAIN Sweep = 1..Len(Sweep)
  /\ \A i \in DOMAIN Sweep : Sweep[i] \in Shapes
  BY SweepAssumption DEF Shapes

LEMMA NewRunTyped ==
  ASSUME NEW step \in Steps
  PROVE  NewRun(step) \in Runs
  BY SweepFacts, TriesAssumption DEF NewRun, Runs, Steps, Images, Profiles

-----------------------------------------------------------------------------
(* Type correctness.                                                       *)

LEMMA StopTyped ==
  ASSUME TypeOK, NEW s \in Scripts, Stop(s)
  PROVE  run' \in [Scripts -> Runs]
  BY NewRunTyped DEF TypeOK, Stop, Steps, Ended

LEMMA GotoTyped ==
  ASSUME TypeOK, NEW s \in Scripts, NEW step \in Steps, Goto(s, step)
  PROVE  run' \in [Scripts -> Runs]
  BY DEF TypeOK, Goto, Runs

LEMMA LostTyped ==
  ASSUME TypeOK
  PROVE  Lost \in [Scripts -> Runs]
  BY DEF TypeOK, Lost, Runs

LEMMA WarmedTyped ==
  ASSUME TypeOK, NEW shape \in Shapes
  PROVE  Warmed(shape) \in [Scripts -> Containers \union {Absent}]
<1> SUFFICES ASSUME NEW s \in Scripts, Serves(s)
             PROVE  [box[s] EXCEPT !.warm = @ \union {shape}] \in Containers
  BY DEF Warmed, TypeOK
<1>1. box[s] \in Containers
  BY BoxRecord DEF Serves
<1> QED BY <1>1 DEF Containers

LEMMA RequestTyped ==
  ASSUME TypeOK, NEW s \in Scripts, NEW shape \in Shapes, NEW rest \in Runs,
         Request(s, shape, rest)
  PROVE  /\ run' \in [Scripts -> Runs]
         /\ box' \in [Scripts -> Containers \union {Absent}]
<1>1. [rest EXCEPT !.quiet = FALSE] \in Runs
  BY DEF Runs
<1> QED BY <1>1, WarmedTyped DEF Request, TypeOK

LEMMA TypeInitial == Init => TypeOK
  BY NewRunTyped DEF Init, TypeOK, Steps, Ended

LEMMA TypeMachine ==
  ASSUME TypeOK, NEW s \in Scripts, ComesUp(s) \/ GoesDown(s)
  PROVE  TypeOK'
<1>1. box[s] \in Containers
  BY BoxRecord DEF ComesUp, CanServe, GoesDown, Serves
<1>2. [box[s] EXCEPT !.serving = TRUE] \in Containers
  BY <1>1 DEF Containers
<1>3. [box[s] EXCEPT !.serving = FALSE, !.warm = {}] \in Containers
  BY <1>1 DEF Containers
<1>4. box' \in [Scripts -> Containers \union {Absent}]
  <2>1. CASE ComesUp(s)
    BY <1>2, <2>1 DEF ComesUp, TypeOK
  <2>2. CASE GoesDown(s)
    <3>1. box' = [box EXCEPT ![s] = [@ EXCEPT !.serving = FALSE, !.warm = {}]]
      BY <2>2 DEF GoesDown, TypeOK
    <3> QED BY <1>3, <3>1 DEF TypeOK
  <2> QED BY <2>1, <2>2
<1> QED BY <1>4, LostTyped DEF ComesUp, GoesDown, TypeOK

LEMMA TypeShell ==
  ASSUME TypeOK, NEW s \in Scripts,
         \/ Start(s) \/ Interrupt(s) \/ Remove(s) \/ DockerRun(s)
         \/ Healthy(s) \/ Unhealthy(s) \/ SweepMissing(s)
  PROVE  TypeOK'
<1> USE DEF Steps, Ended
<1>1. CASE Start(s)
  BY <1>1, NewRunTyped DEF Start, TypeOK
<1>2. CASE Interrupt(s)
  BY <1>2, StopTyped DEF Interrupt, TypeOK
<1>3. CASE Remove(s)
  <2>1. run' \in [Scripts -> Runs]
    <3>1. \A f \in [Scripts -> Runs] :
            [f EXCEPT ![s].pc = "run"] \in [Scripts -> Runs]
      BY DEF Runs
    <3> QED BY <1>3, <3>1, LostTyped, GotoTyped DEF Remove, TypeOK
  <2> QED BY <1>3, <2>1 DEF Remove, TypeOK
<1>4. CASE DockerRun(s)
  <2>1. Launched(s) \in Containers /\ Created(s) \in Containers
    BY DEF Launched, Created, Containers, TypeOK, Runs
  <2>2. run' \in [Scripts -> Runs]
    BY <1>4, StopTyped, GotoTyped DEF DockerRun
  <2> QED BY <1>4, <2>1, <2>2 DEF DockerRun, TypeOK
<1>5. CASE Healthy(s)
  <2>1. [run[s] EXCEPT !.pc = AfterHealth(s), !.tries = 0] \in Runs
    <3>1. run[s] \in Runs /\ AfterHealth(s) \in Steps /\ 0 \in 0..(MaxTries - 1)
      BY TriesAssumption DEF AfterHealth, TypeOK
    <3> QED BY <3>1 DEF Runs
  <2>2. run' = [run EXCEPT ![s] = [@ EXCEPT !.pc = AfterHealth(s), !.tries = 0]]
    BY <1>5 DEF Healthy, TypeOK
  <2> QED BY <1>5, <2>1, <2>2 DEF Healthy, TypeOK
<1>6. CASE Unhealthy(s)
  <2>1. CASE ~LastTry(run[s].tries)
    BY <1>6, <2>1, TriesAssumption DEF Unhealthy, LastTry, TypeOK, Runs
  <2>2. CASE LastTry(run[s].tries)
    <3>1. CASE s = "oneshot"
      BY <1>6, <2>2, <3>1, StopTyped DEF Unhealthy, TypeOK
    <3>2. CASE s # "oneshot"
      BY <1>6, <2>2, <3>2, TriesAssumption
      DEF Unhealthy, AfterHealth, TypeOK, Runs
    <3> QED BY <3>1, <3>2
  <2> QED BY <2>1, <2>2
<1>7. CASE SweepMissing(s)
  <2>1. run' \in [Scripts -> Runs]
    BY <1>7, StopTyped DEF SweepMissing, AfterSweep, TypeOK, Runs
  <2> QED BY <1>7, <2>1 DEF SweepMissing, TypeOK
<1> QED BY <1>1, <1>2, <1>3, <1>4, <1>5, <1>6, <1>7

LEMMA TypeWarm ==
  ASSUME TypeOK, NEW s \in Scripts, SweepRequest(s) \/ LongPrompt
  PROVE  TypeOK'
<1>1. CASE SweepRequest(s)
  <2> DEFINE i == run[s].next
             rest == IF LastRequest(i)
                       THEN [run[s] EXCEPT !.pc = AfterSweep(s), !.next = 1]
                       ELSE [run[s] EXCEPT !.next = i + 1]
  <2>1. i \in DOMAIN Sweep /\ Sweep[i] \in Shapes
    BY SweepFacts DEF TypeOK, Runs
  <2>2. rest \in Runs
    <3>1. run[s] \in Runs
      BY DEF TypeOK
    <3>2. CASE LastRequest(i)
      <4>1. AfterSweep(s) \in Steps /\ 1 \in DOMAIN Sweep
        BY SweepFacts DEF AfterSweep, Steps, Ended
      <4> QED BY <3>1, <3>2, <4>1 DEF Runs
    <3>3. CASE ~LastRequest(i)
      <4>1. i + 1 \in DOMAIN Sweep
        BY <2>1, <3>3, SweepFacts DEF LastRequest
      <4> QED BY <3>1, <3>3, <4>1 DEF Runs
    <3> QED BY <3>2, <3>3
  <2>3. Request(s, Sweep[i], rest)
    BY <1>1 DEF SweepRequest
  <2> QED BY <1>1, <2>1, <2>2, <2>3, RequestTyped DEF SweepRequest, TypeOK
<1>2. CASE LongPrompt
  <2>1. [run["champion"] EXCEPT !.pc = "sweep"] \in Runs
    BY DEF TypeOK, Runs, Scripts, Steps
  <2>2. "26K" \in Shapes /\ "champion" \in Scripts
    BY DEF Shapes, Scripts
  <2> QED BY <1>2, <2>1, <2>2, RequestTyped DEF LongPrompt, TypeOK
<1> QED BY <1>1, <1>2

LEMMA TypeOneShot ==
  ASSUME TypeOK, Preflight \/ PullImage \/ CheckModel \/ Download \/ Smoke
  PROVE  TypeOK'
<1>1. "oneshot" \in Scripts /\ Images = {"a4q2", "base", "stage1"}
  BY DEF Scripts, Images
<1> USE DEF Steps, Ended
<1>2. CASE Preflight
  <2>1. run' \in [Scripts -> Runs]
    BY <1>1, <1>2, StopTyped DEF Preflight, TypeOK, Runs
  <2> QED BY <1>2, <2>1 DEF Preflight, TypeOK
<1>3. CASE PullImage
  <2>1. \A i \in Images : UseImage(i) => run' \in [Scripts -> Runs]
    <3> SUFFICES ASSUME NEW i \in Images, UseImage(i)
                 PROVE  run' \in [Scripts -> Runs]
      OBVIOUS
    <3>1. [one EXCEPT !.pc = "model", !.image = i] \in Runs
      <4>1. one \in Runs
        BY <1>1 DEF TypeOK, one
      <4>2. "model" \in Steps
        BY DEF Steps
      <4> QED BY <4>1, <4>2 DEF Runs
    <3>2. run' = [run EXCEPT !["oneshot"] = [@ EXCEPT !.pc = "model", !.image = i]]
      <4>1. run \in [Scripts -> Runs] /\ "oneshot" \in Scripts
        BY <1>1 DEF TypeOK
      <4> QED BY <4>1 DEF UseImage
    <3> QED BY <1>1, <3>1, <3>2 DEF TypeOK, one
  <2>2. run' \in [Scripts -> Runs]
    BY <1>1, <1>3, <2>1, StopTyped DEF PullImage
  <2> QED BY <1>1, <1>3, <2>2 DEF PullImage, TypeOK
<1>4. CASE CheckModel
  BY <1>1, <1>4, GotoTyped DEF CheckModel, TypeOK
<1>5. CASE Download
  <2>1. run' \in [Scripts -> Runs]
    BY <1>1, <1>5, GotoTyped, StopTyped DEF Download, TypeOK
  <2> QED BY <1>5, <2>1 DEF Download, TypeOK
<1>6. CASE Smoke
  <2>1. run' \in [Scripts -> Runs]
    BY <1>1, <1>6, GotoTyped, StopTyped DEF Smoke
  <2> QED BY <1>6, <2>1 DEF Smoke, TypeOK
<1> QED BY <1>2, <1>3, <1>4, <1>5, <1>6

-----------------------------------------------------------------------------
(* TypeOK holds of every reachable state. *)
LEMMA TypeStep == TypeOK /\ [Next]_vars => TypeOK'
<1> SUFFICES ASSUME TypeOK, [Next]_vars PROVE TypeOK'
  OBVIOUS
<1>1. CASE OneShotStep
  BY <1>1, TypeShell, TypeWarm, TypeOneShot DEF OneShotStep, Scripts
<1>2. CASE ChampionStep
  BY <1>2, TypeShell, TypeWarm DEF ChampionStep, Scripts
<1>3. CASE CalmDown \/ Rest \/ UNCHANGED vars
  BY <1>3 DEF CalmDown, Rest, vars, TypeOK
<1>4. ASSUME NEW s \in Scripts,
             \/ Start(s) \/ Interrupt(s) \/ SweepMissing(s)
             \/ ComesUp(s) \/ GoesDown(s)
      PROVE  TypeOK'
  BY <1>4, TypeShell, TypeMachine
<1> QED BY <1>1, <1>2, <1>3, <1>4 DEF Next

(* The scripts, the containers and the model directory keep their types,   *)
(* however runs fail and overlap.                                          *)
THEOREM TypeCorrect == Spec => []TypeOK
  BY TypeInitial, TypeStep, PTL DEF Spec

-----------------------------------------------------------------------------
(* What a step leaves in the record of a run.                              *)

Others(s) == \A t \in Scripts \ {s} : run'[t] = run[t]

LEMMA GotoIs ==
  ASSUME TypeOK, NEW s \in Scripts, NEW step, Goto(s, step)
  PROVE  /\ Others(s)
         /\ run'[s].pc = step /\ run'[s].image = run[s].image
         /\ run'[s].profile = run[s].profile /\ run'[s].next = run[s].next
         /\ run'[s].quiet = run[s].quiet /\ run'[s].lost = run[s].lost
<1>1. run[s] \in Runs
  BY DEF TypeOK
<1> QED BY <1>1 DEF Goto, TypeOK, Runs, Others

LEMMA StopIs ==
  ASSUME TypeOK, NEW s \in Scripts, Stop(s)
  PROVE  /\ Others(s) /\ run'[s].pc = "stopped" /\ ~run'[s].lost
         /\ run'[s].next = 1
  BY DEF Stop, TypeOK, Others, NewRun

LEMMA LostIs ==
  ASSUME TypeOK, NEW s \in Scripts
  PROVE  /\ Lost[s].pc = run[s].pc /\ Lost[s].image = run[s].image
         /\ Lost[s].profile = run[s].profile /\ Lost[s].next = run[s].next
         /\ Lost[s].quiet = run[s].quiet
         /\ run[s].pc \in {"prompt"} \union Warming => Lost[s].lost
<1>1. run[s] \in Runs
  BY DEF TypeOK
<1> QED BY <1>1 DEF Lost, Runs, Warming

LEMMA HealthyIs ==
  ASSUME TypeOK, NEW s \in Scripts, Healthy(s)
  PROVE  /\ Others(s) /\ Answered
         /\ At(s, "health") /\ run'[s].pc = AfterHealth(s)
         /\ run'[s].image = run[s].image /\ run'[s].profile = run[s].profile
         /\ run'[s].next = run[s].next
<1>1. run[s] \in Runs
  BY DEF TypeOK
<1> QED BY <1>1 DEF Healthy, TypeOK, Runs, Others

LEMMA UnhealthyIs ==
  ASSUME TypeOK, NEW s \in Scripts, Unhealthy(s)
  PROVE  /\ Others(s) /\ At(s, "health")
         /\ \/ /\ run'[s].pc \in {"health", "prompt"}
               /\ run'[s].pc = "prompt" => s = "champion"
               /\ run'[s].image = run[s].image /\ run'[s].profile = run[s].profile
               /\ run'[s].next = run[s].next
            \/ run'[s].pc = "stopped" /\ ~run'[s].lost /\ run'[s].next = 1
<1>1. run[s] \in Runs
  BY DEF TypeOK
<1>2. CASE ~LastTry(run[s].tries)
  BY <1>1, <1>2 DEF Unhealthy, TypeOK, Runs, Others, At
<1>3. CASE LastTry(run[s].tries) /\ s = "oneshot"
  BY <1>1, <1>3, StopIs DEF Unhealthy
<1>4. CASE LastTry(run[s].tries) /\ s # "oneshot"
  BY <1>1, <1>4 DEF Unhealthy, AfterHealth, TypeOK, Runs, Others, Scripts
<1> QED BY <1>2, <1>3, <1>4

LEMMA MissingIs ==
  ASSUME TypeOK, NEW s \in Scripts, SweepMissing(s)
  PROVE  /\ Others(s) /\ At(s, "sweep") /\ run'[s].next = 1
         /\ \/ /\ s = "oneshot" /\ run'[s].pc = "smoke" /\ ~run'[s].quiet
               /\ run'[s].image = run[s].image /\ run'[s].profile = run[s].profile
            \/ run'[s].pc = "stopped" /\ ~run'[s].lost
<1>1. run[s] \in Runs
  BY DEF TypeOK
<1>2. CASE s = "oneshot"
  BY <1>1, <1>2 DEF SweepMissing, AfterSweep, TypeOK, Runs, Others
<1>3. CASE s # "oneshot"
  BY <1>1, <1>3, StopIs DEF SweepMissing
<1> QED BY <1>2, <1>3

LEMMA UseImageIs ==
  ASSUME TypeOK, NEW i, UseImage(i)
  PROVE  /\ Others("oneshot") /\ run'["oneshot"].pc = "model"
         /\ run'["oneshot"].image = i /\ run'["oneshot"].next = one.next
<1>1. one \in Runs /\ "oneshot" \in Scripts
  BY DEF TypeOK, Scripts, one
<1> QED BY <1>1 DEF UseImage, TypeOK, Runs, Others, one

LEMMA PreflightIs ==
  ASSUME TypeOK, Preflight
  PROVE  /\ Others("oneshot") /\ run'["oneshot"].pc \in {"image", "stopped"}
         /\ run'["oneshot"].next \in {1, one.next}
<1>1. one \in Runs /\ "oneshot" \in Scripts
  BY DEF TypeOK, Scripts, one
<1> QED BY <1>1, StopIs DEF Preflight, TypeOK, Runs, Others, one

LEMMA StartIs ==
  ASSUME TypeOK, NEW s \in Scripts, Start(s)
  PROVE  /\ Others(s) /\ run'[s].next = 1
         /\ run'[s].pc = IF s = "oneshot" THEN "preflight" ELSE "remove"
  BY DEF Start, NewRun, TypeOK, Others

LEMMA RemoveIs ==
  ASSUME TypeOK, NEW s \in Scripts, Remove(s)
  PROVE  /\ At(s, "remove") /\ run'[s].pc = "run"
         /\ run'[s].next = run[s].next
         /\ run'[s].image = run[s].image /\ run'[s].profile = run[s].profile
         /\ \/ Others(s) /\ UNCHANGED box
            \/ /\ box' = [box EXCEPT ![s] = Absent]
               /\ Serves(s) => \A t \in Scripts \ {s} : run'[t] = Lost[t]
               /\ ~Serves(s) => Others(s)
<1>1. CASE Goto(s, "run") /\ UNCHANGED box
  BY <1>1, GotoIs DEF Remove
<1>2. CASE /\ box' = [box EXCEPT ![s] = Absent]
           /\ run' = [(IF Serves(s) THEN Lost ELSE run) EXCEPT ![s].pc = "run"]
  <2>1. run[s] \in Runs /\ Lost[s] \in Runs
    BY LostTyped DEF TypeOK
  <2>2. CASE Serves(s)
    BY <1>2, <2>1, <2>2, LostIs, LostTyped DEF Remove, Runs
  <2>3. CASE ~Serves(s)
    BY <1>2, <2>1, <2>3 DEF Remove, Runs, Others, TypeOK
  <2> QED BY <2>2, <2>3
<1> QED BY <1>1, <1>2 DEF Remove

LEMMA DockerRunIs ==
  ASSUME TypeOK, NEW s \in Scripts, DockerRun(s)
  PROVE  /\ Others(s) /\ At(s, "run")
         /\ \/ /\ box[s] = Absent /\ run'[s].pc = "health"
               /\ run'[s].image = run[s].image /\ run'[s].profile = run[s].profile
               /\ run'[s].next = run[s].next
               /\ \A t \in Scripts \ {s} : box'[t] = box[t]
               /\ box'[s] = Launched(s) /\ Launched(s) \in Containers
            \/ run'[s].pc = "stopped" /\ run'[s].next = 1 /\ UNCHANGED box
            \/ /\ ~calm /\ box[s] = Absent /\ run'[s].pc = "stopped" /\ run'[s].next = 1
               /\ \A t \in Scripts \ {s} : box'[t] = box[t]
               /\ box'[s] = Created(s) /\ Created(s) \in Containers /\ ~Created(s).serving
<1>1. Launched(s) \in Containers /\ Created(s) \in Containers /\ ~Created(s).serving
  BY DEF Launched, Created, Containers, TypeOK, Runs
<1>2. CASE /\ box[s] = Absent /\ box' = [box EXCEPT ![s] = Launched(s)]
           /\ Goto(s, "health")
  BY <1>1, <1>2, GotoIs DEF DockerRun, TypeOK
<1>3. CASE Stop(s) /\ UNCHANGED box
  BY <1>3, StopIs DEF DockerRun
<1>4. CASE box[s] = Absent /\ ~calm /\ box' = [box EXCEPT ![s] = Created(s)] /\ Stop(s)
  BY <1>1, <1>4, StopIs DEF DockerRun, TypeOK
<1> QED BY <1>2, <1>3, <1>4 DEF DockerRun

LEMMA ComesUpIs ==
  ASSUME TypeOK, NEW s \in Scripts, ComesUp(s)
  PROVE  /\ CanServe(s) /\ UNCHANGED <<run, files>>
         /\ \A t \in Scripts \ {s} : box'[t] = box[t]
         /\ box'[s] \in Containers /\ box'[s].serving
         /\ box'[s].image = box[s].image /\ box'[s].profile = box[s].profile
<1>1. box[s] \in Containers
  BY BoxRecord DEF ComesUp, CanServe
<1> QED BY <1>1 DEF ComesUp, TypeOK, Containers

LEMMA GoesDownIs ==
  ASSUME TypeOK, NEW s \in Scripts, GoesDown(s)
  PROVE  /\ Serves(s) /\ run' = Lost /\ UNCHANGED files
         /\ \A t \in Scripts \ {s} : box'[t] = box[t]
         /\ box'[s] \in Containers /\ ~box'[s].serving
         /\ box'[s].image = box[s].image /\ box'[s].profile = box[s].profile
<1>1. box[s] \in Containers
  BY BoxRecord DEF GoesDown, Serves
<1>2. [box[s] EXCEPT !.serving = FALSE, !.warm = {}] \in Containers
  BY <1>1 DEF Containers
<1>3. box' = [box EXCEPT ![s] = [@ EXCEPT !.serving = FALSE, !.warm = {}]]
  BY DEF GoesDown, TypeOK
<1> QED BY <1>1, <1>2, <1>3 DEF GoesDown, TypeOK, Containers

(* Warming changes neither what runs in a container nor whether it serves. *)
LEMMA WarmedKeeps ==
  ASSUME TypeOK, NEW shape \in Shapes, NEW s \in Scripts
  PROVE  LET c == Warmed(shape)[s]
         IN  /\ c = Absent <=> box[s] = Absent
             /\ box[s] # Absent =>
                  /\ c.image = box[s].image /\ c.profile = box[s].profile
                  /\ c.serving = box[s].serving
                  /\ box[s].warm \subseteq c.warm
                  /\ c.serving => c.warm = box[s].warm \union {shape}
<1>1. CASE Serves(s)
  <2>1. box[s] \in Containers
    BY <1>1, BoxRecord DEF Serves
  <2>2. [box[s] EXCEPT !.warm = @ \union {shape}] \in Containers
    BY <2>1 DEF Containers
  <2>3. Warmed(shape)[s] = [box[s] EXCEPT !.warm = @ \union {shape}]
    BY <1>1 DEF Warmed
  <2>4. Warmed(shape)[s] # Absent /\ box[s] # Absent
    BY <2>1, <2>2, <2>3, AbsentAssumption
  <2> QED BY <2>1, <2>3, <2>4 DEF Containers
<1>2. CASE ~Serves(s)
  BY <1>2 DEF Warmed, Serves
<1> QED BY <1>1, <1>2

(* What a request of a script leaves. *)
LEMMA RequestIs ==
  ASSUME TypeOK, NEW s \in Scripts, NEW shape \in Shapes, NEW rest \in Runs,
         Request(s, shape, rest)
  PROVE  /\ Others(s)
         /\ run'[s].pc = rest.pc /\ run'[s].next = rest.next
         /\ run'[s].image = rest.image /\ run'[s].profile = rest.profile
         /\ run'[s].lost = rest.lost
         /\ box' \in {box, Warmed(shape)}
         /\ run'[s].quiet =>
              rest.quiet /\ Answered /\ box' = Warmed(shape)
<1>1. rest.quiet \in BOOLEAN /\ [rest EXCEPT !.quiet = FALSE].quiet = FALSE
  BY DEF Runs
<1> QED BY <1>1 DEF Request, TypeOK, Others, Runs

(* Both kinds of requests, with the script's next step. *)
LEMMA SweepIs ==
  ASSUME TypeOK, NEW s \in Scripts, SweepRequest(s)
  PROVE  /\ At(s, "sweep") /\ UNCHANGED files
         /\ run[s].next \in DOMAIN Sweep
         /\ \E rest \in Runs :
              /\ Request(s, Sweep[run[s].next], rest)
              /\ rest.image = run[s].image /\ rest.profile = run[s].profile
              /\ rest.quiet = run[s].quiet /\ rest.lost = run[s].lost
              /\ \/ /\ run[s].next = Len(Sweep)
                    /\ rest.pc = AfterSweep(s) /\ rest.next = 1
                 \/ /\ run[s].next # Len(Sweep)
                    /\ rest.pc = "sweep" /\ rest.next = run[s].next + 1
<1> DEFINE i == run[s].next
           rest == IF LastRequest(i)
                     THEN [run[s] EXCEPT !.pc = AfterSweep(s), !.next = 1]
                     ELSE [run[s] EXCEPT !.next = i + 1]
<1>1. run[s] \in Runs /\ i \in DOMAIN Sweep /\ i \in 1..Len(Sweep)
  BY SweepFacts DEF TypeOK, Runs
<1>2. AfterSweep(s) \in Steps /\ 1 \in DOMAIN Sweep
  BY SweepFacts DEF AfterSweep, Steps, Ended
<1>3. Request(s, Sweep[i], rest) /\ At(s, "sweep") /\ UNCHANGED files
  BY DEF SweepRequest
<1>4. CASE LastRequest(i)
  <2>1. [run[s] EXCEPT !.pc = AfterSweep(s), !.next = 1] \in Runs
    BY <1>1, <1>2 DEF Runs
  <2>2. rest = [run[s] EXCEPT !.pc = AfterSweep(s), !.next = 1]
    BY <1>4
  <2> HIDE DEF rest
  <2>3. /\ rest \in Runs /\ rest.pc = AfterSweep(s) /\ rest.next = 1
        /\ rest.image = run[s].image /\ rest.profile = run[s].profile
        /\ rest.quiet = run[s].quiet /\ rest.lost = run[s].lost
    BY <1>1, <2>1, <2>2 DEF Runs
  <2> QED BY <1>1, <1>3, <1>4, <2>3 DEF LastRequest
<1>5. CASE ~LastRequest(i)
  <2>1. i + 1 \in DOMAIN Sweep
    BY <1>1, <1>5, SweepFacts DEF LastRequest
  <2>2. rest = [run[s] EXCEPT !.next = i + 1]
    BY <1>5
  <2> HIDE DEF rest
  <2>3. /\ rest \in Runs /\ rest.pc = "sweep" /\ rest.next = i + 1
        /\ rest.image = run[s].image /\ rest.profile = run[s].profile
        /\ rest.quiet = run[s].quiet /\ rest.lost = run[s].lost
    BY <1>1, <1>3, <2>1, <2>2 DEF Runs, At
  <2> QED BY <1>1, <1>3, <1>5, <2>3 DEF LastRequest
<1> QED BY <1>4, <1>5

LEMMA PromptIs ==
  ASSUME TypeOK, LongPrompt
  PROVE  /\ run["champion"].pc = "prompt" /\ UNCHANGED files
         /\ Others("champion") /\ box' \in {box, Warmed("26K")}
         /\ run'["champion"].pc = "sweep"
         /\ run'["champion"].next = run["champion"].next
<1>1. "champion" \in Scripts /\ "26K" \in Shapes /\ "sweep" \in Steps
  BY DEF Scripts, Shapes, Steps
<1>2. run["champion"] \in Runs
  BY <1>1 DEF TypeOK
<1>3. [run["champion"] EXCEPT !.pc = "sweep"] \in Runs
  BY <1>1, <1>2 DEF Runs
<1> QED BY <1>1, <1>2, <1>3, RequestIs DEF LongPrompt, At, Runs

-----------------------------------------------------------------------------
(* What DONE means.                                                        *)

LEMMA DoneInitial == Init => DoneInv
  BY DEF Init, DoneInv, OneServes, AbleServes, ImageChosen, ContainerIsRuns,
         DoneAnswered, Serves, NewRun, Warming, At, one, Scripts

(* Steps that touch no container. *)
LEMMA DoneKept ==
  ASSUME TypeOK, DoneInv, UNCHANGED box, files \subseteq files',
         files' \subseteq Files,
         ImageChosen', ContainerIsRuns', DoneAnswered'
  PROVE  DoneInv'
  BY DEF DoneInv, OneServes, AbleServes, Serves

LEMMA DoneShell ==
  ASSUME TypeOK, DoneInv, NEW s \in Scripts,
         \/ Start(s) \/ Interrupt(s) \/ Healthy(s) \/ Unhealthy(s)
         \/ SweepMissing(s)
  PROVE  DoneInv'
<1>1. UNCHANGED <<box, files>> /\ files \subseteq Files
  BY DEF Start, Interrupt, Healthy, Unhealthy, SweepMissing, TypeOK
<1>2. ImageChosen' /\ ContainerIsRuns' /\ DoneAnswered'
  <2> USE DEF DoneInv, ImageChosen, ContainerIsRuns, DoneAnswered,
              Warming, one, At, Answered, Serves
  <2>1. "oneshot" \in Scripts /\ "champion" \in Scripts
    BY DEF Scripts
  <2>2. CASE s = "champion"
    <3>1. Others(s)
      BY <2>2, StartIs, StopIs, HealthyIs, UnhealthyIs, MissingIs DEF Interrupt
    <3>2. UNCHANGED run["oneshot"]
      BY <2>1, <2>2, <3>1 DEF Others
    <3> QED BY <1>1, <3>2
  <2>3. CASE s = "oneshot"
    <3>1. CASE Start(s) \/ Interrupt(s)
      <4>1. run'[s].pc \in {"preflight", "stopped"}
        BY <2>3, <3>1, StartIs, StopIs DEF Interrupt
      <4> QED BY <2>3, <4>1
    <3>2. CASE Healthy(s)
      BY <1>1, <2>3, <3>2, HealthyIs DEF AfterHealth
    <3>3. CASE Unhealthy(s)
      BY <1>1, <2>3, <3>3, UnhealthyIs
    <3>4. CASE SweepMissing(s)
      BY <1>1, <2>3, <3>4, MissingIs
    <3> QED BY <3>1, <3>2, <3>3, <3>4
  <2> QED BY <2>2, <2>3 DEF Scripts
<1> QED BY <1>1, <1>2, DoneKept

LEMMA DoneOneShot ==
  ASSUME TypeOK, DoneInv,
         Preflight \/ PullImage \/ CheckModel \/ Download \/ Smoke
  PROVE  DoneInv'
<1>1. UNCHANGED box /\ files \subseteq files' /\ files' \subseteq Files
  BY DEF Preflight, PullImage, CheckModel, Download, Smoke, TypeOK
<1>2. ImageChosen' /\ ContainerIsRuns' /\ DoneAnswered'
  <2> USE DEF DoneInv, ImageChosen, ContainerIsRuns, DoneAnswered,
              Warming, one, At, Answered, Serves
  <2>1. "oneshot" \in Scripts
    BY DEF Scripts
  <2>2. CASE Preflight
    BY <2>2, PreflightIs
  <2>3. CASE PullImage
    BY <2>1, <2>3, UseImageIs, StopIs DEF PullImage
  <2>4. CASE CheckModel
    BY <1>1, <2>1, <2>4, GotoIs DEF CheckModel
  <2>5. CASE Download
    BY <1>1, <2>1, <2>5, GotoIs, StopIs DEF Download
  <2>6. CASE Smoke
    BY <1>1, <2>1, <2>6, GotoIs, StopIs DEF Smoke
  <2> QED BY <2>2, <2>3, <2>4, <2>5, <2>6
<1> QED BY <1>1, <1>2, DoneKept

(* Containers removed and started. *)
LEMMA DoneDocker ==
  ASSUME TypeOK, DoneInv, NEW s \in Scripts, Remove(s) \/ DockerRun(s)
  PROVE  DoneInv'
<1> USE DEF DoneInv, OneServes, AbleServes, ImageChosen, ContainerIsRuns,
            DoneAnswered, Warming, one, At, Answered, Serves
<1>1. UNCHANGED files /\ Scripts = {"oneshot", "champion"}
  BY DEF Remove, DockerRun, Scripts
<1>2. CASE Remove(s)
  <2>1. CASE UNCHANGED box /\ Others(s)
    BY <1>1, <1>2, <2>1, RemoveIs DEF Others
  <2>2. CASE box' = [box EXCEPT ![s] = Absent]
    <3>1. box'[s] = Absent /\ \A t \in Scripts \ {s} : box'[t] = box[t]
      BY <2>2 DEF TypeOK
    <3>2. CASE s = "oneshot"
      BY <1>1, <1>2, <3>1, <3>2, RemoveIs
    <3>3. CASE s = "champion"
      BY <1>1, <1>2, <3>1, <3>3, RemoveIs, LostIs DEF Others
    <3> QED BY <1>1, <3>2, <3>3
  <2> QED BY <1>2, <2>1, <2>2, RemoveIs
<1>3. CASE DockerRun(s)
  <2>1. /\ Launched(s) \in Containers => Launched(s) # Absent
        /\ Created(s) \in Containers => Created(s) # Absent
    BY AbsentAssumption
  <2>2. CASE s = "oneshot"
    BY <1>1, <1>3, <2>1, <2>2, DockerRunIs DEF Launched
  <2>3. CASE s = "champion"
    BY <1>1, <1>3, <2>1, <2>3, DockerRunIs DEF Launched, Others
  <2> QED BY <1>1, <2>2, <2>3
<1> QED BY <1>2, <1>3

LEMMA DoneMachine ==
  ASSUME TypeOK, DoneInv, NEW s \in Scripts, ComesUp(s) \/ GoesDown(s)
  PROVE  DoneInv'
<1> USE DEF DoneInv, OneServes, AbleServes, ImageChosen, ContainerIsRuns,
            DoneAnswered, Warming, one, At, Answered, Serves
<1>1. Scripts = {"oneshot", "champion"}
  BY DEF Scripts
<1>2. box'[s] \in Containers => box'[s] # Absent
  BY AbsentAssumption
<1>3. CASE ComesUp(s)
  BY <1>1, <1>2, <1>3, ComesUpIs DEF CanServe
<1>4. CASE GoesDown(s)
  BY <1>1, <1>2, <1>4, GoesDownIs, LostIs
<1> QED BY <1>3, <1>4

LEMMA DoneWarm ==
  ASSUME TypeOK, DoneInv, NEW s \in Scripts, SweepRequest(s) \/ LongPrompt
  PROVE  DoneInv'
<1> USE DEF DoneInv, OneServes, AbleServes, ImageChosen, ContainerIsRuns,
            DoneAnswered, Warming, one, At, Answered, Serves
<1>1. Scripts = {"oneshot", "champion"}
  BY DEF Scripts
<1>2. ASSUME NEW shape \in Shapes, box' \in {box, Warmed(shape)},
             UNCHANGED files, ImageChosen',
             one'.pc \in {"health"} \union Warming =>
               /\ one.pc \in {"health"} \union Warming
               /\ one'.image = one.image /\ one'.profile = one.profile,
             At("oneshot", "done")' /\ ~one'.lost =>
               At("oneshot", "done") /\ ~one.lost
      PROVE  DoneInv'
  <2>1. CASE UNCHANGED box
    BY <1>2, <2>1
  <2>2. CASE box' = Warmed(shape)
    <3>1. \A t \in Scripts :
            /\ box'[t] = Absent <=> box[t] = Absent
            /\ box[t] # Absent =>
                 /\ box'[t].image = box[t].image
                 /\ box'[t].profile = box[t].profile
                 /\ box'[t].serving = box[t].serving
      BY <2>2, WarmedKeeps
    <3> QED BY <1>1, <1>2, <3>1
  <2> QED BY <1>2, <2>1, <2>2
<1>3. CASE LongPrompt
  <2>1. "26K" \in Shapes /\ UNCHANGED run["oneshot"]
    BY <1>1, <1>3, PromptIs DEF Shapes, Others
  <2> QED BY <1>2, <1>3, <2>1, PromptIs
<1>4. CASE SweepRequest(s)
  <2>1. PICK rest \in Runs :
          /\ Request(s, Sweep[run[s].next], rest)
          /\ rest.image = run[s].image /\ rest.profile = run[s].profile
          /\ rest.pc \in {"sweep", AfterSweep(s)}
    BY <1>4, SweepIs
  <2>2. Sweep[run[s].next] \in Shapes
    BY <1>4, SweepIs, SweepFacts
  <2>3. /\ Others(s) /\ run'[s].image = run[s].image
        /\ run'[s].profile = run[s].profile
        /\ run'[s].pc \in {"sweep", AfterSweep(s)}
        /\ box' \in {box, Warmed(Sweep[run[s].next])}
    BY <2>1, <2>2, RequestIs
  <2>4. run[s].pc = "sweep" /\ UNCHANGED files
    BY <1>4, SweepIs
  <2>5. CASE s = "oneshot"
    BY <1>1, <1>2, <2>2, <2>3, <2>4, <2>5 DEF AfterSweep
  <2>6. CASE s = "champion"
    BY <1>1, <1>2, <2>2, <2>3, <2>4, <2>6 DEF Others
  <2> QED BY <1>1, <2>5, <2>6
<1> QED BY <1>3, <1>4

LEMMA DoneStep == TypeOK /\ DoneInv /\ [Next]_vars => DoneInv'
<1> SUFFICES ASSUME TypeOK, DoneInv, [Next]_vars PROVE DoneInv'
  OBVIOUS
<1>1. CASE OneShotStep
  BY <1>1, DoneShell, DoneOneShot, DoneDocker, DoneWarm DEF OneShotStep, Scripts
<1>2. CASE ChampionStep
  BY <1>2, DoneShell, DoneDocker, DoneWarm DEF ChampionStep, Scripts
<1>3. CASE CalmDown \/ Rest \/ UNCHANGED vars
  BY <1>3 DEF CalmDown, Rest, vars, DoneInv, OneServes, AbleServes, ImageChosen,
              ContainerIsRuns, DoneAnswered, one, At, Answered, Serves
<1>4. ASSUME NEW s \in Scripts,
             \/ Start(s) \/ Interrupt(s) \/ SweepMissing(s)
             \/ ComesUp(s) \/ GoesDown(s)
      PROVE  DoneInv'
  BY <1>4, DoneShell, DoneMachine
<1> QED BY <1>1, <1>2, <1>3, <1>4 DEF Next

(* DONE speaks of the server this run launched, or of the other script's,  *)
(* whatever earlier runs left behind.                                      *)
THEOREM DoneIsThisRun == Spec => []DoneServesThisRun
<1>1. TypeOK /\ DoneInv => DoneServesThisRun
  BY DEF TypeOK, DoneInv, AbleServes, ImageChosen, ContainerIsRuns, DoneAnswered,
         DoneServesThisRun, At, Warming, one
<1> QED BY <1>1, TypeInitial, TypeStep, DoneInitial, DoneStep, PTL DEF Spec

-----------------------------------------------------------------------------
(* What a warm-up without errors means.                                    *)

LEMMA WarmInitial == Init => WarmInv
  BY DEF Init, WarmInv, SweepStartsOver, WarmSoFar, Behind, NewRun, Warming, At

(* Server t is still there and as warm as before. *)
StaysWarm(t) == Serves(t) => Serves(t)' /\ box[t].warm \subseteq box'[t].warm

(* A script that makes no request keeps its claim if no server it may have *)
(* warmed goes away.                                                       *)
LEMMA WarmKept ==
  ASSUME TypeOK, NEW s \in Scripts, WarmSoFar(s),
         Behind(s)' # {} /\ run'[s].quiet /\ ~run'[s].lost =>
           /\ Behind(s)' = Behind(s) /\ run[s].quiet /\ ~run[s].lost
           /\ \A t \in Scripts : StaysWarm(t)
  PROVE  WarmSoFar(s)'
  BY DEF WarmSoFar, StaysWarm, TypeOK, Behind

LEMMA WarmOther ==
  ASSUME TypeOK, NEW u \in Scripts, NEW s \in Scripts, s # u, Others(u),
         WarmSoFar(s), \A t \in Scripts : StaysWarm(t)
  PROVE  WarmSoFar(s)'
<1>1. run'[s] = run[s]
  BY DEF Others
<1> QED BY <1>1, WarmKept DEF Behind, At, Warming

(* A step of a script that leaves it outside the sweep, or at its start. *)
LEMMA WarmSilent ==
  ASSUME TypeOK, WarmInv, NEW u \in Scripts, Others(u),
         \A t \in Scripts : StaysWarm(t),
         \/ run'[u].pc \notin Warming /\ run'[u].next = 1
         \/ run'[u].pc = "sweep" /\ run'[u].next = 1
         \/ run'[u].pc \in {"smoke", "done"} /\ run'[u].next = 1 /\ ~run'[u].quiet
         \/ /\ run'[u].pc \in {"smoke", "done"} /\ run[u].pc \in {"smoke", "done"}
            /\ run'[u].next = 1
            /\ run'[u].quiet = run[u].quiet /\ run'[u].lost = run[u].lost
  PROVE  WarmInv'
<1>1. WarmSoFar(u)'
  <2>1. CASE run'[u].pc \notin Warming
    BY <2>1 DEF WarmSoFar, Behind, At, Warming
  <2>2. CASE run'[u].pc = "sweep" /\ run'[u].next = 1
    BY <2>2 DEF WarmSoFar, Behind, At
  <2>3. CASE run'[u].pc \in {"smoke", "done"} /\ ~run'[u].quiet
    BY <2>3 DEF WarmSoFar
  <2>4. CASE /\ run'[u].pc \in {"smoke", "done"} /\ run[u].pc \in {"smoke", "done"}
             /\ run'[u].quiet = run[u].quiet /\ run'[u].lost = run[u].lost
    <3>1. Behind(u)' = Behind(u)
      BY <2>4 DEF Behind, At, Warming
    <3> QED BY <2>4, <3>1, WarmKept DEF WarmInv
  <2> QED BY <2>1, <2>2, <2>3, <2>4
<1>2. \A s \in Scripts \ {u} : WarmSoFar(s)'
  BY WarmOther DEF WarmInv
<1>3. SweepStartsOver'
  BY DEF WarmInv, SweepStartsOver, Others, At
<1> QED BY <1>1, <1>2, <1>3 DEF WarmInv

LEMMA WarmShell ==
  ASSUME TypeOK, WarmInv, NEW s \in Scripts,
         \/ Start(s) \/ Interrupt(s) \/ Healthy(s) \/ Unhealthy(s)
         \/ SweepMissing(s)
  PROVE  WarmInv'
<1>1. UNCHANGED box
  BY DEF Start, Interrupt, Healthy, Unhealthy, SweepMissing
<1>2. \A t \in Scripts : StaysWarm(t)
  BY <1>1 DEF StaysWarm, Serves
<1> USE DEF WarmInv, SweepStartsOver, At, Warming
<1>3. CASE Start(s)
  BY <1>2, <1>3, StartIs, WarmSilent
<1>4. CASE Interrupt(s)
  BY <1>2, <1>4, StopIs, WarmSilent DEF Interrupt
<1>5. CASE Healthy(s)
  BY <1>2, <1>5, HealthyIs, WarmSilent DEF AfterHealth
<1>6. CASE Unhealthy(s)
  BY <1>2, <1>6, UnhealthyIs, WarmSilent
<1>7. CASE SweepMissing(s)
  BY <1>2, <1>7, MissingIs, WarmSilent
<1> QED BY <1>3, <1>4, <1>5, <1>6, <1>7

LEMMA WarmOneShot ==
  ASSUME TypeOK, WarmInv,
         Preflight \/ PullImage \/ CheckModel \/ Download \/ Smoke
  PROVE  WarmInv'
<1>1. UNCHANGED box
  BY DEF Preflight, PullImage, CheckModel, Download, Smoke
<1>2. \A t \in Scripts : StaysWarm(t)
  BY <1>1 DEF StaysWarm, Serves
<1>3. "oneshot" \in Scripts
  BY DEF Scripts
<1> USE DEF WarmInv, SweepStartsOver, At, Warming, one
<1>4. CASE Preflight
  BY <1>2, <1>3, <1>4, PreflightIs, WarmSilent DEF Preflight
<1>5. CASE PullImage
  BY <1>2, <1>3, <1>5, UseImageIs, StopIs, WarmSilent DEF PullImage
<1>6. CASE CheckModel
  BY <1>2, <1>3, <1>6, GotoIs, WarmSilent DEF CheckModel
<1>7. CASE Download
  <2>1. CASE UNCHANGED run
    BY <1>2, <1>3, <1>7, <2>1, WarmSilent DEF Download, Others
  <2>2. CASE Goto("oneshot", "remove") \/ Stop("oneshot")
    BY <1>2, <1>3, <1>7, <2>2, GotoIs, StopIs, WarmSilent DEF Download
  <2> QED BY <1>7, <2>1, <2>2 DEF Download
<1>8. CASE Smoke
  BY <1>2, <1>3, <1>8, GotoIs, StopIs, WarmSilent DEF Smoke
<1> QED BY <1>4, <1>5, <1>6, <1>7, <1>8

(* A server goes away: whoever warmed it has lost it. *)
LEMMA WarmLost ==
  ASSUME TypeOK, WarmInv, NEW s \in Scripts, run'[s] = Lost[s]
  PROVE  WarmSoFar(s)' /\ (At(s, "sweep")' \/ run'[s].next = 1)
<1>1. run[s].pc \notin Warming => Behind(s)' = {}
  BY LostIs DEF Behind, At, Warming
<1>2. run[s].pc \in Warming => run'[s].lost
  BY LostIs
<1> QED BY <1>1, <1>2, LostIs DEF WarmSoFar, WarmInv, SweepStartsOver, At

LEMMA WarmDocker ==
  ASSUME TypeOK, WarmInv, NEW s \in Scripts, Remove(s) \/ DockerRun(s)
  PROVE  WarmInv'
<1>1. CASE Remove(s)
  <2>1. run'[s].pc = "run" /\ run'[s].next = 1
    BY <1>1, RemoveIs DEF WarmInv, SweepStartsOver, At
  <2>2. CASE Serves(s) /\ box' = [box EXCEPT ![s] = Absent]
    <3>1. \A t \in Scripts \ {s} : run'[t] = Lost[t]
      <4>1. box' # box
        BY <2>2, BoxRecord, AbsentAssumption DEF Serves, TypeOK
      <4> QED BY <1>1, <2>2, <4>1, RemoveIs
    <3>2. \A t \in Scripts \ {s} : WarmSoFar(t)' /\ (At(t, "sweep")' \/ run'[t].next = 1)
      BY <3>1, WarmLost
    <3>3. WarmSoFar(s)'
      BY <2>1 DEF WarmSoFar, Behind, At, Warming
    <3> QED BY <2>1, <3>2, <3>3 DEF WarmInv, SweepStartsOver
  <2>3. CASE Others(s) /\ (UNCHANGED box \/ ~Serves(s))
    <3>1. UNCHANGED box \/ box' = [box EXCEPT ![s] = Absent]
      BY <1>1, RemoveIs
    <3>2. \A t \in Scripts : StaysWarm(t)
      BY <2>3, <3>1 DEF StaysWarm, Serves, TypeOK
    <3> QED BY <2>1, <2>3, <3>2, WarmSilent DEF Warming
  <2> QED BY <1>1, <2>2, <2>3, RemoveIs
<1>2. CASE DockerRun(s)
  <2>1. \A t \in Scripts : StaysWarm(t)
    BY <1>2, DockerRunIs DEF StaysWarm, Serves
  <2>2. run'[s].pc \notin Warming /\ run'[s].next = 1
    BY <1>2, DockerRunIs DEF WarmInv, SweepStartsOver, At, Warming
  <2> QED BY <1>2, <2>1, <2>2, DockerRunIs, WarmSilent
<1> QED BY <1>1, <1>2

LEMMA WarmMachine ==
  ASSUME TypeOK, WarmInv, NEW s \in Scripts, ComesUp(s) \/ GoesDown(s)
  PROVE  WarmInv'
<1>1. CASE ComesUp(s)
  <2>1. \A t \in Scripts : StaysWarm(t)
    BY <1>1, ComesUpIs DEF StaysWarm, Serves, CanServe
  <2>2. run' = run
    BY <1>1, ComesUpIs
  <2>3. \A t \in Scripts : WarmSoFar(t)'
    BY <2>1, <2>2, WarmKept DEF WarmInv, Behind, At, Warming
  <2> QED BY <2>2, <2>3 DEF WarmInv, SweepStartsOver, At
<1>2. CASE GoesDown(s)
  BY <1>2, GoesDownIs, WarmLost DEF WarmInv, SweepStartsOver
<1> QED BY <1>1, <1>2

(* A request warms the one server that answers. *)
LEMMA WarmRequest ==
  ASSUME TypeOK, WarmInv, NEW s \in Scripts, SweepRequest(s) \/ LongPrompt
  PROVE  WarmInv'
<1>1. ASSUME NEW shape \in Shapes, box' \in {box, Warmed(shape)}
      PROVE  \A t \in Scripts : StaysWarm(t)
  BY <1>1, WarmedKeeps DEF StaysWarm, Serves
<1>2. CASE LongPrompt
  <2>1. "champion" \in Scripts /\ "26K" \in Shapes
    BY DEF Scripts, Shapes
  <2>2. run'["champion"].next = 1
    BY <1>2, <2>1, PromptIs DEF WarmInv, SweepStartsOver, At
  <2> QED BY <1>1, <1>2, <2>1, <2>2, PromptIs, WarmSilent
<1>3. CASE SweepRequest(s)
  <2> DEFINE i == run[s].next
  <2>1. PICK rest \in Runs :
          /\ Request(s, Sweep[i], rest)
          /\ rest.quiet = run[s].quiet /\ rest.lost = run[s].lost
          /\ \/ i = Len(Sweep) /\ rest.pc = AfterSweep(s) /\ rest.next = 1
             \/ i # Len(Sweep) /\ rest.pc = "sweep" /\ rest.next = i + 1
    BY <1>3, SweepIs
  <2>2. i \in 1..Len(Sweep) /\ Sweep[i] \in Shapes /\ At(s, "sweep")
    BY <1>3, SweepIs, SweepFacts
  <2>3. /\ Others(s) /\ run'[s].pc = rest.pc /\ run'[s].next = rest.next
        /\ run'[s].lost = rest.lost /\ box' \in {box, Warmed(Sweep[i])}
        /\ run'[s].quiet => rest.quiet /\ Answered /\ box' = Warmed(Sweep[i])
    BY <2>1, <2>2, RequestIs
  <2>4. \A t \in Scripts : StaysWarm(t)
    BY <1>1, <2>2, <2>3
  <2>5. \A t \in Scripts \ {s} : WarmSoFar(t)'
    BY <2>3, <2>4, WarmOther DEF WarmInv
  <2>6. Behind(s)' = Behind(s) \union {i}
    <3>1. Behind(s) = 1..(i - 1)
      BY <2>2 DEF Behind
    <3>2. CASE i = Len(Sweep)
      BY <2>1, <2>2, <2>3, <3>1, <3>2, SweepFacts DEF Behind, At, AfterSweep, Warming
    <3>3. CASE i # Len(Sweep)
      BY <2>1, <2>2, <2>3, <3>1, <3>3, SweepFacts DEF Behind, At
    <3> QED BY <3>2, <3>3
  <2>7. WarmSoFar(s)'
    <3> SUFFICES ASSUME run'[s].quiet, ~run'[s].lost
                 PROVE  \E t \in Scripts :
                          Serves(t)' /\ \A j \in Behind(s)' : Sweep[j] \in box'[t].warm
      BY DEF WarmSoFar
    <3>1. run[s].quiet /\ ~run[s].lost /\ Answered /\ box' = Warmed(Sweep[i])
      BY <2>1, <2>3
    <3>2. PICK t \in Scripts :
            Serves(t) /\ \A j \in Behind(s) : Sweep[j] \in box[t].warm
      BY <3>1 DEF WarmInv, WarmSoFar, Answered
    <3>3. Serves(t)' /\ box'[t].warm = box[t].warm \union {Sweep[i]}
      BY <2>2, <3>1, <3>2, WarmedKeeps DEF Serves
    <3> QED BY <2>6, <3>2, <3>3
  <2>8. SweepStartsOver'
    BY <2>1, <2>3 DEF WarmInv, SweepStartsOver, Others, At
  <2> QED BY <2>5, <2>7, <2>8 DEF WarmInv
<1> QED BY <1>2, <1>3

LEMMA WarmStep == TypeOK /\ WarmInv /\ [Next]_vars => WarmInv'
<1> SUFFICES ASSUME TypeOK, WarmInv, [Next]_vars PROVE WarmInv'
  OBVIOUS
<1>1. CASE OneShotStep
  BY <1>1, WarmShell, WarmOneShot, WarmDocker, WarmRequest DEF OneShotStep, Scripts
<1>2. CASE ChampionStep
  BY <1>2, WarmShell, WarmDocker, WarmRequest DEF ChampionStep, Scripts
<1>3. CASE CalmDown \/ Rest \/ UNCHANGED vars
  BY <1>3 DEF CalmDown, Rest, vars, WarmInv, SweepStartsOver, WarmSoFar, Behind,
              At, Serves
<1>4. ASSUME NEW s \in Scripts,
             \/ Start(s) \/ Interrupt(s) \/ SweepMissing(s)
             \/ ComesUp(s) \/ GoesDown(s)
      PROVE  WarmInv'
  BY <1>4, WarmShell, WarmMachine
<1> QED BY <1>1, <1>2, <1>3, <1>4 DEF Next

(* A warm-up that printed no error warmed every shape of the sweep on the  *)
(* server that answers, if that server was not restarted meanwhile.        *)
THEOREM QuietIsWarm == Spec => []QuietRunIsWarm
<1>1. WarmInv => QuietRunIsWarm
  <2> SUFFICES ASSUME WarmInv, NEW s \in Scripts, At(s, "done"),
                      run[s].quiet, ~run[s].lost
               PROVE  \E t \in Scripts : /\ Serves(t)
                        /\ {Sweep[i] : i \in DOMAIN Sweep} \subseteq box[t].warm
    BY DEF QuietRunIsWarm
  <2>1. 1 \in DOMAIN Sweep
    BY SweepFacts
  <2>2. Behind(s) = DOMAIN Sweep
    BY DEF Behind, At, Warming
  <2>3. PICK t \in Scripts :
          Serves(t) /\ \A i \in Behind(s) : Sweep[i] \in box[t].warm
    BY <2>1, <2>2 DEF WarmInv, WarmSoFar
  <2> QED BY <2>2, <2>3
<1> QED
  BY <1>1, TypeInitial, TypeStep, WarmInitial, WarmStep, PTL DEF Spec

-----------------------------------------------------------------------------
(* Runs get on.  This is the part of RunsEnd that needs no fairness.       *)

(* How far a step is from the end of its script. *)
Place(step) ==
  CASE step = "preflight" -> 10 [] step = "image" -> 9 [] step = "model" -> 8
    [] step = "download" -> 7 [] step = "remove" -> 6 [] step = "run" -> 5
    [] step = "health" -> 4 [] step = "prompt" -> 3 [] step = "sweep" -> 2
    [] step = "smoke" -> 1 [] OTHER -> 0

(* A later step, or at the same one a further poll, request or file.       *)
Nearer(s) ==
  \/ Place(run'[s].pc) < Place(run[s].pc)
  \/ /\ run'[s].pc = run[s].pc
     /\ \/ At(s, "health") /\ run'[s].tries > run[s].tries
        \/ At(s, "sweep") /\ run'[s].next > run[s].next
        \/ At(s, "download") /\ files \subseteq files' /\ files' # files

Still(s) ==
  /\ run'[s].pc = run[s].pc
  /\ run'[s].tries = run[s].tries /\ run'[s].next = run[s].next
  /\ At(s, "download") => files' = files

(* The record of a run that another script's steps leave alone, but for    *)
(* the mark that its server is lost.                                       *)
Unmoved(s) == run'[s] \in {run[s], Lost[s]}

LEMMA UnmovedStill ==
  ASSUME TypeOK, NEW s \in Scripts, Unmoved(s), files \subseteq files'
  PROVE  Nearer(s) \/ Still(s)
<1>1. run[s] \in Runs
  BY DEF TypeOK
<1>2. /\ run'[s].pc = run[s].pc /\ run'[s].tries = run[s].tries
      /\ run'[s].next = run[s].next
  BY <1>1 DEF Unmoved, Lost, Runs
<1> QED BY <1>2 DEF Nearer, Still

LEMMA PlaceType == \A step : Place(step) \in Nat
  BY DEF Place

LEMMA EndIsNearer ==
  ASSUME TypeOK, NEW s \in Scripts, run[s].pc \notin Ended, run'[s].pc \in Ended
  PROVE  Nearer(s)
<1>1. run[s].pc \in Steps
  BY DEF TypeOK, Runs
<1> QED BY <1>1 DEF Nearer, Place, Steps, Ended

(* A command of a script takes its run further and moves no other.         *)
LEMMA UnhealthyNearer ==
  ASSUME TypeOK, NEW s \in Scripts, Unhealthy(s)
  PROVE  Nearer(s)
<1>1. run[s] \in Runs /\ run[s].pc = "health" /\ run[s].tries \in Nat
  BY TriesAssumption DEF TypeOK, Runs, Unhealthy, At
<1>2. CASE ~LastTry(run[s].tries)
  <2>1. run'[s] = [run[s] EXCEPT !.tries = run[s].tries + 1]
    BY <1>2 DEF Unhealthy, TypeOK
  <2>2. run'[s].pc = run[s].pc /\ run'[s].tries = run[s].tries + 1
    BY <1>1, <2>1 DEF Runs
  <2> QED BY <1>1, <2>2 DEF Nearer, At
<1>3. CASE LastTry(run[s].tries) /\ s = "oneshot"
  BY <1>1, <1>3, StopIs, EndIsNearer DEF Unhealthy, Ended
<1>4. CASE LastTry(run[s].tries) /\ s # "oneshot"
  <2>1. run'[s].pc = "prompt"
    BY <1>1, <1>4 DEF Unhealthy, AfterHealth, TypeOK, Runs
  <2> QED BY <1>1, <2>1 DEF Nearer, Place
<1> QED BY <1>2, <1>3, <1>4

LEMMA ShellNearer ==
  ASSUME TypeOK, NEW s \in Scripts,
         Remove(s) \/ DockerRun(s) \/ Healthy(s) \/ Unhealthy(s)
  PROVE  Nearer(s) /\ files' = files /\ \A t \in Scripts \ {s} : Unmoved(t)
<1>1. CASE Remove(s)
  <2>1. files' = files /\ run[s].pc = "remove" /\ run'[s].pc = "run"
    BY <1>1, RemoveIs DEF Remove, At
  <2>2. \A t \in Scripts \ {s} : Unmoved(t)
    BY <1>1, RemoveIs DEF Others, Unmoved
  <2> QED BY <2>1, <2>2 DEF Nearer, Place
<1>2. CASE DockerRun(s)
  BY <1>2, DockerRunIs DEF DockerRun, Others, Unmoved, Nearer, Place, At
<1>3. CASE Healthy(s)
  <2>1. /\ files' = files /\ run[s].pc = "health" /\ run'[s].pc \in {"sweep", "prompt"}
        /\ Others(s)
    BY <1>3, HealthyIs DEF Healthy, At, AfterHealth
  <2> QED BY <2>1 DEF Others, Unmoved, Nearer, Place
<1>4. CASE Unhealthy(s)
  BY <1>4, UnhealthyIs, UnhealthyNearer DEF Unhealthy, Others, Unmoved
<1> QED BY <1>1, <1>2, <1>3, <1>4

LEMMA SweepNearer ==
  ASSUME TypeOK, NEW s \in Scripts, SweepRequest(s)
  PROVE  Nearer(s) /\ files' = files /\ \A t \in Scripts \ {s} : Unmoved(t)
<1>1. /\ run[s].pc = "sweep" /\ files' = files /\ run[s].next \in DOMAIN Sweep
      /\ Sweep[run[s].next] \in Shapes
  BY SweepIs, SweepFacts DEF At
<1>2. PICK rest \in Runs :
        /\ Request(s, Sweep[run[s].next], rest)
        /\ \/ rest.pc = AfterSweep(s)
           \/ rest.pc = "sweep" /\ rest.next = run[s].next + 1
  BY SweepIs
<1>3. Others(s) /\ run'[s].pc = rest.pc /\ run'[s].next = rest.next
  BY <1>1, <1>2, RequestIs
<1>4. run[s].next \in Nat
  BY <1>1, SweepFacts
<1>5. Nearer(s)
  BY <1>1, <1>2, <1>3, <1>4 DEF Nearer, Place, AfterSweep, At
<1> QED BY <1>1, <1>3, <1>5 DEF Others, Unmoved

LEMMA PromptNearer ==
  ASSUME TypeOK, LongPrompt
  PROVE  Nearer("champion") /\ files' = files /\ Unmoved("oneshot")
<1>1. "oneshot" \in Scripts \ {"champion"}
  BY DEF Scripts
<1> QED BY <1>1, PromptIs DEF Nearer, Place, Others, Unmoved

LEMMA OneShotNearer ==
  ASSUME TypeOK, Preflight \/ PullImage \/ CheckModel \/ Download \/ Smoke
  PROVE  Nearer("oneshot") /\ files \subseteq files' /\ Unmoved("champion")
<1>1. "oneshot" \in Scripts /\ "champion" \in Scripts /\ "champion" # "oneshot"
  BY DEF Scripts
<1>2. Others("oneshot") => Unmoved("champion")
  BY <1>1 DEF Others, Unmoved
<1>3. Stop("oneshot") => Others("oneshot") /\ run'["oneshot"].pc \in Ended
  BY <1>1, StopIs DEF Ended
<1>4. CASE Preflight
  BY <1>1, <1>2, <1>4, PreflightIs DEF Preflight, At, Nearer, Place
<1>5. CASE PullImage
  <2>1. run["oneshot"].pc = "image" /\ files' = files
    BY <1>5 DEF PullImage, At
  <2>2. (\E i : UseImage(i)) \/ Stop("oneshot")
    BY <1>5 DEF PullImage
  <2> QED BY <1>1, <1>2, <1>3, <2>1, <2>2, UseImageIs, EndIsNearer DEF Nearer, Place, Ended
<1>6. CASE CheckModel
  <2>1. run["oneshot"].pc = "model" /\ files' = files
    BY <1>6 DEF CheckModel, At
  <2>2. Goto("oneshot", "remove") \/ Goto("oneshot", "download")
    BY <1>6 DEF CheckModel
  <2> QED BY <1>1, <1>2, <2>1, <2>2, GotoIs DEF Nearer, Place
<1>7. CASE Download
  <2>1. run["oneshot"].pc = "download"
    BY <1>7 DEF Download, At
  <2>2. CASE Goto("oneshot", "remove") /\ UNCHANGED files
    BY <1>1, <1>2, <2>1, <2>2, GotoIs DEF Nearer, Place
  <2>3. CASE (\E f \in Files \ files : files' = files \union {f}) /\ UNCHANGED run
    BY <2>1, <2>3 DEF Nearer, At, Unmoved
  <2>4. CASE Stop("oneshot") /\ UNCHANGED files
    BY <1>1, <1>2, <1>3, <2>1, <2>4, EndIsNearer DEF Ended
  <2> QED BY <1>7, <2>2, <2>3, <2>4 DEF Download
<1>8. CASE Smoke
  <2>1. run["oneshot"].pc = "smoke" /\ files' = files
    BY <1>8 DEF Smoke, At
  <2>2. Goto("oneshot", "done") \/ Stop("oneshot")
    BY <1>8 DEF Smoke
  <2> QED BY <1>1, <1>2, <1>3, <2>1, <2>2, GotoIs, EndIsNearer DEF Ended
<1> QED BY <1>4, <1>5, <1>6, <1>7, <1>8

(* What is not a command of a script ends its run or leaves it in place.   *)
LEMMA MachineNearer ==
  ASSUME TypeOK, NEW s \in Scripts,
         \/ CalmDown \/ Rest \/ UNCHANGED vars
         \/ \E t \in Scripts : \/ Start(t) \/ Interrupt(t) \/ SweepMissing(t)
                               \/ ComesUp(t) \/ GoesDown(t)
  PROVE  files' = files /\ (run[s].pc \notin Ended => Nearer(s) \/ Unmoved(s))
<1>1. CASE CalmDown \/ Rest \/ UNCHANGED vars
  BY <1>1 DEF CalmDown, Rest, vars, Unmoved
<1>2. ASSUME NEW t \in Scripts, Start(t)
      PROVE  files' = files /\ (run[s].pc \notin Ended => Unmoved(s))
  BY <1>2, StartIs DEF Start, Others, Unmoved
<1>3. ASSUME NEW t \in Scripts, Interrupt(t)
      PROVE  files' = files /\ (run[s].pc \notin Ended => Nearer(s) \/ Unmoved(s))
  BY <1>3, StopIs, EndIsNearer DEF Interrupt, Others, Unmoved, Ended
<1>4. ASSUME NEW t \in Scripts, SweepMissing(t)
      PROVE  files' = files /\ (run[s].pc \notin Ended => Nearer(s) \/ Unmoved(s))
  BY <1>4, MissingIs DEF SweepMissing, Others, Unmoved, Nearer, Place, At
<1>5. ASSUME NEW t \in Scripts, ComesUp(t) \/ GoesDown(t)
      PROVE  files' = files /\ Unmoved(s)
  BY <1>5, ComesUpIs, GoesDownIs DEF Unmoved
<1> QED BY <1>1, <1>2, <1>3, <1>4, <1>5

(* Every command of a script takes its run nearer to the end, and nothing  *)
(* but the end of a run sets it to another place: no script repeats a step *)
(* it has passed, whatever fails and however the other script, the servers *)
(* and interruptions interleave with it.                                   *)
THEOREM RunsGetOn ==
  Spec => [][ /\ OneShotStep => Nearer("oneshot")
              /\ ChampionStep => Nearer("champion")
              /\ \A s \in Scripts : run[s].pc \notin Ended => Nearer(s) \/ Still(s) ]_vars
<1> DEFINE GetOn == /\ OneShotStep => Nearer("oneshot")
                    /\ ChampionStep => Nearer("champion")
                    /\ \A s \in Scripts : run[s].pc \notin Ended => Nearer(s) \/ Still(s)
<1>1. ASSUME TypeOK, OneShotStep
      PROVE  /\ Nearer("oneshot")
             /\ \A s \in Scripts : Nearer(s) \/ Still(s)
  <2>1. "oneshot" \in Scripts /\ Scripts \ {"oneshot"} = {"champion"}
    BY DEF Scripts
  <2>2. Nearer("oneshot") /\ files \subseteq files' /\ Unmoved("champion")
    <3>1. CASE Preflight \/ PullImage \/ CheckModel \/ Download \/ Smoke
      BY <1>1, <3>1, OneShotNearer
    <3>2. CASE \/ Remove("oneshot") \/ DockerRun("oneshot")
               \/ Healthy("oneshot") \/ Unhealthy("oneshot")
      BY <1>1, <2>1, <3>2, ShellNearer
    <3>3. CASE SweepRequest("oneshot")
      BY <1>1, <2>1, <3>3, SweepNearer
    <3> QED BY <1>1, <3>1, <3>2, <3>3 DEF OneShotStep
  <2> QED BY <1>1, <2>1, <2>2, UnmovedStill
<1>2. ASSUME TypeOK, ChampionStep
      PROVE  /\ Nearer("champion")
             /\ \A s \in Scripts : Nearer(s) \/ Still(s)
  <2>1. "champion" \in Scripts /\ Scripts \ {"champion"} = {"oneshot"}
    BY DEF Scripts
  <2>2. Nearer("champion") /\ files \subseteq files' /\ Unmoved("oneshot")
    BY <1>2, <2>1, ShellNearer, SweepNearer, PromptNearer DEF ChampionStep
  <2> QED BY <1>2, <2>1, <2>2, UnmovedStill
<1>3. ASSUME TypeOK, [Next]_vars, ~OneShotStep, ~ChampionStep, NEW s \in Scripts,
             run[s].pc \notin Ended
      PROVE  Nearer(s) \/ Still(s)
  BY <1>3, MachineNearer, UnmovedStill DEF Next
<1>4. TypeOK /\ [Next]_vars => [GetOn]_vars
  BY <1>1, <1>2, <1>3
<1> QED BY <1>4, TypeCorrect, PTL DEF Spec

-----------------------------------------------------------------------------
(* Recovery is not lost.  This is the part of RerunsRecover that needs no  *)
(* fairness: what it starts from lasts until it is reached, and what it    *)
(* ends in lasts.                                                          *)

(* A download that is under way counts as resumable: when nothing fails    *)
(* it goes on.                                                             *)
Recoverable == calm /\ NoRival /\ (Resumable \/ At("oneshot", "download"))

(* Once nothing fails any more and with the other script out of the way,   *)
(* no step of oneshot.sh leaves a model directory behind from which step 2 *)
(* would go on with files missing, and nothing brings back the rival.      *)
THEOREM RecoverableStays == Spec => [][Recoverable => Recoverable']_vars
<1>1. ASSUME TypeOK, [Next]_vars, Recoverable
      PROVE  Recoverable'
  <2>1. calm /\ box["champion"] = Absent /\ run["champion"].pc \in Ended /\ files \subseteq Files
    BY <1>1 DEF Recoverable, NoRival, TypeOK
  <2>2. "oneshot" \in Scripts /\ "champion" \in Scripts /\ Scripts \ {"oneshot"} = {"champion"}
    BY DEF Scripts
  <2>3. files' = files => (Resumable' <=> Resumable)
    BY DEF Resumable, Present
  <2>4. Unmoved("champion") => run'["champion"].pc = run["champion"].pc
    BY <1>1, <2>2, LostIs DEF Unmoved
  <2>5. \A shape \in Shapes : Warmed(shape)["champion"] = Absent
    BY <1>1, <2>1, <2>2, WarmedKeeps
  <2>6. CASE Download
    <3>1. UNCHANGED <<box, calm>> /\ At("oneshot", "download")
      BY <2>6 DEF Download
    <3>2. CASE files = Files
      <4>1. files' = Files /\ Unmoved("champion")
        BY <1>1, <2>2, <2>6, <3>2, OneShotNearer DEF Download
      <4> QED BY <2>1, <2>4, <3>1, <4>1 DEF Recoverable, NoRival, Resumable
    <3>3. CASE files # Files
      <4>1. UNCHANGED run
        BY <2>1, <2>6, <3>3 DEF Download
      <4> QED BY <2>1, <3>1, <4>1 DEF Recoverable, NoRival, At
    <3> QED BY <3>2, <3>3
  <2>7. CASE Preflight \/ PullImage \/ CheckModel \/ Smoke
    <3>1. UNCHANGED <<files, box, calm>> /\ ~At("oneshot", "download")
      BY <2>7 DEF Preflight, PullImage, CheckModel, Smoke, At
    <3>2. Unmoved("champion")
      BY <1>1, <2>7, OneShotNearer
    <3> QED BY <1>1, <2>1, <2>3, <2>4, <3>1, <3>2 DEF Recoverable, NoRival
  <2>8. CASE Remove("oneshot") \/ DockerRun("oneshot") \/ Healthy("oneshot") \/ Unhealthy("oneshot")
    <3>1. UNCHANGED <<files, calm>> /\ ~At("oneshot", "download") /\ Unmoved("champion")
      BY <1>1, <2>2, <2>8, ShellNearer DEF Remove, DockerRun, Healthy, Unhealthy, At
    <3>2. box'["champion"] = Absent
      <4>1. CASE Remove("oneshot")
        <5>1. box \in [Scripts -> Containers \union {Absent}]
          BY <1>1 DEF TypeOK
        <5> QED BY <1>1, <2>1, <2>2, <4>1, <5>1, RemoveIs
      <4>2. CASE DockerRun("oneshot")
        BY <1>1, <2>1, <2>2, <4>2, DockerRunIs
      <4>3. CASE Healthy("oneshot") \/ Unhealthy("oneshot")
        BY <2>1, <4>3 DEF Healthy, Unhealthy
      <4> QED BY <2>8, <4>1, <4>2, <4>3
    <3> QED BY <1>1, <2>1, <2>3, <2>4, <3>1, <3>2 DEF Recoverable, NoRival
  <2>9. CASE SweepRequest("oneshot")
    <3>1. UNCHANGED <<files, calm>> /\ ~At("oneshot", "download")
      BY <2>9 DEF SweepRequest, At
    <3>3. Unmoved("champion")
      BY <1>1, <2>2, <2>9, SweepNearer
    <3>2. \E shape \in Shapes : box' \in {box, Warmed(shape)}
      BY <1>1, <2>2, <2>9, SweepIs, SweepFacts, RequestIs
    <3> QED BY <1>1, <2>1, <2>3, <2>4, <2>5, <3>1, <3>3, <3>2 DEF Recoverable, NoRival
  <2>10. ~ChampionStep
    BY <2>1 DEF ChampionStep, Remove, DockerRun, Healthy, Unhealthy, LongPrompt, SweepRequest,
       At, Ended
  <2>11. CASE CalmDown \/ Rest \/ UNCHANGED vars
    BY <1>1, <2>1, <2>11 DEF CalmDown, Rest, vars, Recoverable, NoRival, Resumable, Present, At
  <2>12. ASSUME NEW s \in Scripts, ComesUp(s)
         PROVE  Recoverable'
    <3>1. s = "oneshot"
      BY <2>1, <2>12 DEF ComesUp, CanServe, Scripts
    <3>2. UNCHANGED <<files, run, calm>> /\ box'["champion"] = Absent
      BY <1>1, <2>1, <2>2, <2>12, <3>1, ComesUpIs DEF ComesUp
    <3> QED BY <1>1, <2>1, <2>3, <3>2 DEF Recoverable, NoRival, At
  <2>13. ASSUME NEW s \in Scripts, Start(s)
         PROVE  Recoverable'
    <3>1. s = "oneshot" /\ UNCHANGED <<files, box, calm>> /\ run["oneshot"].pc \in Ended
      BY <2>1, <2>13 DEF Start
    <3>2. run'["champion"] = run["champion"]
      BY <1>1, <2>2, <2>13, <3>1, StartIs DEF Others
    <3> QED BY <1>1, <2>1, <2>3, <3>1, <3>2 DEF Recoverable, NoRival, At, Ended
  <2>14. ~\E s \in Scripts : Interrupt(s) \/ SweepMissing(s) \/ GoesDown(s)
    BY <2>1 DEF Interrupt, SweepMissing, GoesDown
  <2> QED BY <1>1, <2>6, <2>7, <2>8, <2>9, <2>10, <2>11, <2>12, <2>13, <2>14
          DEF Next, OneShotStep
<1>2. TypeOK /\ [Next]_vars => [Recoverable => Recoverable']_vars
  BY <1>1
<1> QED BY <1>2, TypeCorrect, PTL DEF Spec

(* A deployment that serves goes on serving once nothing fails any more,   *)
(* though the other script may still be under way on the same port and     *)
(* GPU: neither its docker rm nor its container can take the server down.  *)
THEOREM DeployedStays == Spec => [][calm /\ Deployed => Deployed']_vars
<1>1. ASSUME TypeOK, [Next]_vars, calm, Deployed
      PROVE  Deployed'
  <2>1. /\ run["oneshot"].pc = "done" /\ Serves("oneshot") /\ Answered
        /\ "oneshot" \in Scripts /\ "champion" \in Scripts
        /\ Scripts \ {"champion"} = {"oneshot"}
    BY <1>1 DEF Deployed, At, Answered, Scripts
  <2>2. ASSUME run'["oneshot"].pc = "done", box'["oneshot"] = box["oneshot"]
        PROVE  Deployed'
    BY <1>1, <2>2 DEF Deployed, At, Serves
  <2>3. Unmoved("oneshot") => run'["oneshot"].pc = "done"
    BY <1>1, <2>1, LostIs DEF Unmoved
  <2>4. ASSUME NEW shape \in Shapes, box' = Warmed(shape), run'["oneshot"].pc = "done"
        PROVE  Deployed'
    <3>1. /\ box["oneshot"] # Absent /\ Warmed(shape)["oneshot"] # Absent
          /\ Warmed(shape)["oneshot"].serving = box["oneshot"].serving
      BY <1>1, <2>1, WarmedKeeps DEF Serves
    <3> QED BY <1>1, <2>1, <2>4, <3>1 DEF Deployed, At, Serves
  <2>5. ~OneShotStep
    BY <2>1 DEF OneShotStep, Preflight, PullImage, CheckModel, Download, Remove, DockerRun,
       Healthy, Unhealthy, SweepRequest, Smoke, At
  <2>6. CASE Remove("champion") \/ DockerRun("champion") \/ Healthy("champion") \/ Unhealthy("champion")
    <3>1. Unmoved("oneshot")
      BY <1>1, <2>1, <2>6, ShellNearer
    <3>2. box'["oneshot"] = box["oneshot"]
      <4>1. CASE Remove("champion")
        BY <1>1, <2>1, <4>1, RemoveIs DEF TypeOK
      <4>2. CASE DockerRun("champion")
        BY <1>1, <2>1, <4>2, DockerRunIs
      <4>3. CASE Healthy("champion") \/ Unhealthy("champion")
        BY <4>3 DEF Healthy, Unhealthy
      <4> QED BY <2>6, <4>1, <4>2, <4>3
    <3> QED BY <2>2, <2>3, <3>1, <3>2
  <2>7. CASE LongPrompt \/ SweepRequest("champion")
    <3>1. Unmoved("oneshot")
      BY <1>1, <2>1, <2>7, SweepNearer, PromptNearer
    <3>2. \E shape \in Shapes : box' \in {box, Warmed(shape)}
      <4>1. CASE LongPrompt
        BY <1>1, <4>1, PromptIs DEF Shapes
      <4>2. CASE SweepRequest("champion")
        BY <1>1, <2>1, <4>2, SweepIs, SweepFacts, RequestIs
      <4> QED BY <2>7, <4>1, <4>2
    <3> QED BY <2>2, <2>3, <2>4, <3>1, <3>2
  <2>8. CASE CalmDown \/ Rest \/ UNCHANGED vars
    BY <2>1, <2>2, <2>8 DEF CalmDown, Rest, vars
  <2>9. ASSUME NEW s \in Scripts, ComesUp(s)
        PROVE  Deployed'
    BY <2>1, <2>9 DEF ComesUp, CanServe
  <2>10. ASSUME NEW s \in Scripts, Start(s)
         PROVE  Deployed'
    BY <1>1, <2>1, <2>10 DEF Start, At
  <2>11. ~\E s \in Scripts : Interrupt(s) \/ SweepMissing(s) \/ GoesDown(s)
    BY <1>1 DEF Interrupt, SweepMissing, GoesDown
  <2> QED BY <1>1, <2>5, <2>6, <2>7, <2>8, <2>9, <2>10, <2>11 DEF Next, ChampionStep
<1>2. TypeOK /\ [Next]_vars => [calm /\ Deployed => Deployed']_vars
  BY <1>1
<1> QED BY <1>2, TypeCorrect, PTL DEF Spec
=============================================================================
