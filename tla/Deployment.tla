----------------------------- MODULE Deployment -----------------------------
(***************************************************************************)
(* oneshot.sh and launch_champion.sh on one machine, with the warm-up of   *)
(* recipe/warm_gdn.py that both end with.  One action per command whose    *)
(* outcome the scripts look at or ignore.  Either script may be stopped    *)
(* between any two commands and run again; what persists is the images,    *)
(* the model directory and the containers, which Docker restarts           *)
(* (--restart unless-stopped).  Both scripts serve the same model name on  *)
(* the same host port and reserve nine tenths of the GPU, so of their two  *)
(* containers at most one serves.                                          *)
(*                                                                         *)
(* Docker, the registry, the Hugging Face client and the server are        *)
(* external.  Anything may fail until [calm]; from then on nothing fails   *)
(* by chance, and only oneshot.sh is run again.                            *)
(***************************************************************************)
EXTENDS Integers, Sequences

CONSTANTS
  Weights,   \* the *.safetensors files of the model
  Sweep,     \* the requests of warm_gdn.py, by the shape of their prefill
  MaxTries,  \* polls of /v1/models before giving up: 160 and 180
  Absent     \* no container of that name

ASSUME WeightsAssumption == Weights # {} /\ "config.json" \notin Weights
ASSUME TriesAssumption == MaxTries \in Nat \ {0}

Scripts == {"oneshot", "champion"}
Profiles == {"A", "B"}
Images == {"a4q2", "base", "stage1"}
Files == {"config.json"} \union Weights

ASSUME SweepAssumption ==
  Sweep \in Seq({"0.5K", "4K", "12K", "26K", "decode"}) /\ Sweep # <<>>

Shapes == {"26K"} \union {Sweep[i] : i \in DOMAIN Sweep}

(* What runs in a container, whether Docker ever started it, whether the   *)
(* server answers, and the shapes its process has compiled kernels for.    *)
Containers ==
  [image : Images, profile : Profiles, started : BOOLEAN, serving : BOOLEAN,
   warm : SUBSET Shapes]

ASSUME AbsentAssumption == Absent \notin Containers

VARIABLES
  images, \* images pulled, of those oneshot.sh uses
  files,  \* what lies in MODEL_DIR
  box,    \* the container each script names
  run,    \* the current or last run of each script
  calm    \* from here on nothing fails by chance

vars == <<images, files, box, run, calm>>

Ended == {"stopped", "done"}

-----------------------------------------------------------------------------
(* The machine (external).                                                 *)

Serves(s) == box[s] # Absent /\ box[s].serving
Answered == \E s \in Scripts : Serves(s)

(* The base image rejects the 4-bit cache, a model that lacks a file does  *)
(* not load, and the port and the GPU must be free.  Docker does not start *)
(* what was only created.                                                  *)
CanServe(s) ==
  /\ box[s] # Absent /\ box[s].started /\ ~box[s].serving
  /\ box[s].image # "base"
  /\ s = "oneshot" => files = Files
  /\ ~Answered

ComesUp(s) ==
  /\ CanServe(s)
  /\ box' = [box EXCEPT ![s].serving = TRUE]
  /\ UNCHANGED <<images, files, run, calm>>

(* What was being warmed, or has been, is gone. *)
Lost ==
  [s \in Scripts |-> IF run[s].pc \in {"prompt", "sweep", "smoke", "done"}
                        THEN [run[s] EXCEPT !.lost = TRUE] ELSE run[s]]

(* A crash or a reboot; Docker starts the container again, cold. *)
GoesDown(s) ==
  /\ ~calm /\ Serves(s)
  /\ box' = [box EXCEPT ![s].serving = FALSE, ![s].warm = {}]
  /\ run' = Lost
  /\ UNCHANGED <<images, files, calm>>

CalmDown ==
  /\ ~calm /\ calm' = TRUE
  /\ UNCHANGED <<images, files, box, run>>

-----------------------------------------------------------------------------
(* Both scripts.                                                           *)

At(s, step) == run[s].pc = step
Goto(s, step) == run' = [run EXCEPT ![s].pc = step]

NewRun(step) ==
  [pc |-> step, image |-> "stage1", profile |-> "A", tries |-> 0,
   next |-> 1, quiet |-> TRUE, lost |-> FALSE]

(* die(), set -e, or the operator. *)
Stop(s) == run' = [run EXCEPT ![s] = NewRun("stopped")]

Start(s) ==
  /\ run[s].pc \in Ended
  /\ calm => s = "oneshot" /\ ~(At(s, "done") /\ Answered)
  /\ run' = [run EXCEPT ![s] =
                NewRun(IF s = "oneshot" THEN "preflight" ELSE "remove")]
  /\ UNCHANGED <<images, files, box, calm>>

(* Interrupted, logged out, rebooted. *)
Interrupt(s) ==
  /\ ~calm /\ run[s].pc \notin Ended
  /\ Stop(s)
  /\ UNCHANGED <<images, files, box, calm>>

(* docker rm -f; "|| true" hides a failure. *)
Remove(s) ==
  /\ At(s, "remove")
  /\ \/ /\ box' = [box EXCEPT ![s] = Absent]
        /\ run' = [(IF Serves(s) THEN Lost ELSE run) EXCEPT ![s].pc = "run"]
     \/ ~calm /\ Goto(s, "run") /\ UNCHANGED box
  /\ UNCHANGED <<images, files, calm>>

Launched(s) ==
  [image |-> run[s].image, profile |-> run[s].profile, started |-> TRUE,
   serving |-> FALSE, warm |-> {}]

Created(s) == [Launched(s) EXCEPT !.started = FALSE]

(* Mutant: a name that is taken is no reason to stop. *)
DockerRunUnchecked(s) ==
  /\ At(s, "run")
  /\ Goto(s, "health")
  /\ box' = [box EXCEPT ![s] = IF @ = Absent THEN Launched(s) ELSE @]
  /\ UNCHANGED <<images, files, calm>>

(* docker run -d creates the container, then starts it.  It fails when the *)
(* name is taken, or by chance before or between the two; what it created  *)
(* keeps the name.                                                         *)
DockerRun(s) ==
  /\ At(s, "run")
  /\ \/ /\ box[s] = Absent
        /\ box' = [box EXCEPT ![s] = Launched(s)]
        /\ Goto(s, "health")
     \/ /\ box[s] = Absent /\ ~calm
        /\ box' \in {box, [box EXCEPT ![s] = Created(s)]}
        /\ Stop(s)
     \/ box[s] # Absent /\ Stop(s) /\ UNCHANGED box
  /\ UNCHANGED <<images, files, calm>>

(* Whoever answers on the port ends the wait. *)
AfterHealth(s) == IF s = "oneshot" THEN "sweep" ELSE "prompt"

Healthy(s) ==
  /\ At(s, "health") /\ Answered
  /\ run' = [run EXCEPT ![s].pc = AfterHealth(s), ![s].tries = 0]
  /\ UNCHANGED <<images, files, box, calm>>

(* A server that can come up may be slower than the wait: its first start  *)
(* compiles kernels.                                                       *)
Slow == \E t \in Scripts : CanServe(t)

(* Mutant: one poll too many. *)
LastTryLate(n) == n = MaxTries

LastTry(n) == n + 1 = MaxTries

(* Mutant: the wait has no limit. *)
UnhealthyForever(s) ==
  /\ At(s, "health") /\ (~calm \/ ~Answered)
  /\ UNCHANGED vars

(* A poll fails or takes more than 3 s.  oneshot.sh dies after the last    *)
(* one, launch_champion.sh goes on.                                        *)
Unhealthy(s) ==
  /\ At(s, "health") /\ (~calm \/ ~Answered)
  /\ IF ~LastTry(run[s].tries)
       THEN run' = [run EXCEPT ![s].tries = @ + 1]
       ELSE /\ calm => ~Slow
            /\ IF s = "oneshot"
                 THEN Stop(s)
                 ELSE run' = [run EXCEPT ![s].pc = AfterHealth(s), ![s].tries = 0]
  /\ UNCHANGED <<images, files, box, calm>>

-----------------------------------------------------------------------------
(* Warming up.                                                             *)

Warmed(shape) ==
  [s \in Scripts |-> IF Serves(s)
                       THEN [box[s] EXCEPT !.warm = @ \union {shape}] ELSE box[s]]

(* A request is answered, or it fails and the script only prints that.  A  *)
(* request that timed out may still have been worked on.                   *)
Request(s, shape, rest) ==
  \/ /\ Answered
     /\ box' = Warmed(shape)
     /\ run' = [run EXCEPT ![s] = rest]
  \/ /\ ~calm \/ ~Answered
     /\ box' \in {box, Warmed(shape)}
     /\ run' = [run EXCEPT ![s] = [rest EXCEPT !.quiet = FALSE]]

(* The long prompt of launch_champion.sh. *)
LongPrompt ==
  /\ At("champion", "prompt")
  /\ Request("champion", "26K", [run["champion"] EXCEPT !.pc = "sweep"])
  /\ UNCHANGED <<images, files, calm>>

AfterSweep(s) == IF s = "oneshot" THEN "smoke" ELSE "done"

(* Mutant: the sweep ends one request early. *)
LastRequestShort(i) == i + 1 = Len(Sweep)

LastRequest(i) == i = Len(Sweep)

(* One request of warm_gdn.py. *)
SweepRequest(s) ==
  /\ At(s, "sweep")
  /\ LET i == run[s].next
     IN  Request(s, Sweep[i],
           IF LastRequest(i)
             THEN [run[s] EXCEPT !.pc = AfterSweep(s), !.next = 1]
             ELSE [run[s] EXCEPT !.next = i + 1])
  /\ UNCHANGED <<images, files, calm>>

(* warm_gdn.py or python3 is missing: oneshot.sh says so and goes on,      *)
(* launch_champion.sh stops.                                               *)
SweepMissing(s) ==
  /\ ~calm /\ At(s, "sweep") /\ run[s].next = 1
  /\ IF s = "oneshot"
       THEN run' = [run EXCEPT ![s].pc = AfterSweep(s), ![s].quiet = FALSE]
       ELSE Stop(s)
  /\ UNCHANGED <<images, files, box, calm>>

-----------------------------------------------------------------------------
(* oneshot.sh.                                                             *)

one == run["oneshot"]

(* Docker installed and reachable; the profile comes from the environment. *)
Preflight ==
  /\ At("oneshot", "preflight")
  /\ \/ \E p \in Profiles :
          run' = [run EXCEPT !["oneshot"].pc = "image", !["oneshot"].profile = p]
     \/ ~calm /\ Stop("oneshot")
  /\ UNCHANGED <<images, files, box, calm>>

UseImage(i) ==
  run' = [run EXCEPT !["oneshot"].pc = "model", !["oneshot"].image = i]

(* Mutant: the base image, once there, is taken as the image. *)
PullImageAny ==
  /\ At("oneshot", "image")
  /\ IF images # {}
       THEN (\E i \in images : UseImage(i)) /\ UNCHANGED images
       ELSE \/ UseImage("a4q2") /\ images' = images \union {"a4q2"}
            \/ ~calm /\ UseImage("base") /\ images' = images \union {"base"}
            \/ ~calm /\ Stop("oneshot") /\ UNCHANGED images
  /\ UNCHANGED <<files, box, calm>>

(* The image, if need be from the mirror, else the base image. *)
PullImage ==
  /\ At("oneshot", "image")
  /\ IF "a4q2" \in images
       THEN UseImage("a4q2") /\ UNCHANGED images
       ELSE \/ UseImage("a4q2") /\ images' = images \union {"a4q2"}
            \/ ~calm /\ UseImage("base") /\ images' = images \union {"base"}
            \/ ~calm /\ Stop("oneshot") /\ UNCHANGED images
  /\ UNCHANGED <<files, box, calm>>

(* What step 2 takes for a model that is there. *)
Present == "config.json" \in files /\ files \intersect Weights # {}

CheckModel ==
  /\ At("oneshot", "model")
  /\ Goto("oneshot", IF Present THEN "remove" ELSE "download")
  /\ UNCHANGED <<images, files, box, calm>>

(* snapshot_download (external) fetches missing files in any order; each   *)
(* appears when it is whole.                                               *)
Download ==
  /\ At("oneshot", "download")
  /\ IF files = Files
       THEN Goto("oneshot", "remove") /\ UNCHANGED files
       ELSE \/ /\ \E f \in Files \ files : files' = files \union {f}
               /\ UNCHANGED run
            \/ ~calm /\ Stop("oneshot") /\ UNCHANGED files
  /\ UNCHANGED <<images, box, calm>>

(* Any non-empty answer, from whatever server, is a success. *)
Smoke ==
  /\ At("oneshot", "smoke")
  /\ \/ Answered /\ Goto("oneshot", "done")
     \/ (~calm \/ ~Answered) /\ Stop("oneshot")
  /\ UNCHANGED <<images, files, box, calm>>

-----------------------------------------------------------------------------
Init ==
  /\ images = {} /\ files = {}
  /\ box = [s \in Scripts |-> Absent]
  /\ run = [s \in Scripts |-> NewRun("stopped")]
  /\ calm = FALSE

OneShotStep ==
  \/ Preflight \/ PullImage \/ CheckModel \/ Download
  \/ Remove("oneshot") \/ DockerRun("oneshot")
  \/ Healthy("oneshot") \/ Unhealthy("oneshot")
  \/ SweepRequest("oneshot") \/ Smoke

ChampionStep ==
  \/ Remove("champion") \/ DockerRun("champion")
  \/ Healthy("champion") \/ Unhealthy("champion")
  \/ LongPrompt \/ SweepRequest("champion")

(* The scripts have ended well and nothing fails any more. *)
Rest ==
  /\ calm /\ At("oneshot", "done") /\ Answered /\ run["champion"].pc \in Ended
  /\ UNCHANGED vars

Next ==
  \/ OneShotStep \/ ChampionStep \/ CalmDown \/ Rest
  \/ \E s \in Scripts : \/ Start(s) \/ Interrupt(s) \/ SweepMissing(s)
                        \/ ComesUp(s) \/ GoesDown(s)

Spec == Init /\ [][Next]_vars

(* A shell goes on to its next command, whose time-outs end it; a server   *)
(* that can come up does; when nothing fails any more the operator runs    *)
(* oneshot.sh again until it reported success and the port answers.        *)
Fairness ==
  /\ WF_vars(OneShotStep) /\ WF_vars(ChampionStep)
  /\ \A s \in Scripts : WF_vars(ComesUp(s))
  /\ WF_vars(calm /\ Start("oneshot"))

FairSpec == Spec /\ Fairness

-----------------------------------------------------------------------------
(* Properties.                                                             *)

Steps == Ended \union
  {"preflight", "image", "model", "download", "remove", "run", "health",
   "prompt", "sweep", "smoke"}

Runs ==
  [pc : Steps, image : Images, profile : Profiles, tries : 0..(MaxTries - 1),
   next : DOMAIN Sweep, quiet : BOOLEAN, lost : BOOLEAN]

TypeOK ==
  /\ images \subseteq Images /\ files \subseteq Files
  /\ box \in [Scripts -> Containers \union {Absent}]
  /\ run \in [Scripts -> Runs]
  /\ calm \in BOOLEAN

(* "DONE. serving at ...": while the server that answered lives, it is     *)
(* either the other script's or the one this run launched, of the image    *)
(* and profile this run was for, never what an earlier run left under the  *)
(* name; and a run that fell back to the base image never says DONE of its *)
(* own server.                                                             *)
DoneServesThisRun ==
  At("oneshot", "done") /\ ~one.lost =>
    /\ Answered
    /\ Serves("oneshot") =>
         /\ box["oneshot"].profile = one.profile
         /\ box["oneshot"].image = one.image
         /\ one.image = "a4q2" /\ files = Files

(* A warm-up that printed no error has warmed every shape of the sweep on  *)
(* the server that answers clients when the script ends, whichever script  *)
(* started that server, as long as the server was not restarted.           *)
QuietRunIsWarm ==
  \A s \in Scripts :
    At(s, "done") /\ run[s].quiet /\ ~run[s].lost =>
      \E t \in Scripts : Serves(t) /\ {Sweep[i] : i \in DOMAIN Sweep} \subseteq box[t].warm

(* A started script ends, though its container may be restarted for ever   *)
(* without ever serving.                                                   *)
RunsEnd == \A s \in Scripts : run[s].pc \notin Ended ~> run[s].pc \in Ended

(* A model directory from which step 2 can go on. *)
Resumable == files = Files \/ ~Present

NoRival == box["champion"] = Absent /\ run["champion"].pc \in Ended

Deployed == At("oneshot", "done") /\ Serves("oneshot")

(* Whatever failed or was interrupted before, with the other script out of *)
(* the way, running oneshot.sh again ends in its own server serving: from  *)
(* an image it fell back to, a container that never came up, a name that   *)
(* is taken.  The model directory has to be resumable.                     *)
RerunsRecover == calm /\ NoRival /\ Resumable ~> Deployed

(* "Idempotent; re-run any time (skips finished steps)": past step 2 the   *)
(* model is there.                                                         *)
SkippedStepsAreFinished ==
  one.pc \in {"remove", "run", "health", "sweep", "smoke"} => files = Files
=============================================================================
