----------------------------- MODULE NodeAgent -----------------------------
(***************************************************************************)
(* dtp-node on one node: its tick re-reads node.yaml, detects the machine, *)
(* writes the labels into the Nomad client when they changed, sends a      *)
(* heartbeat and keeps the runner the same as the master's.  `dtp-node     *)
(* apply' writes labels too, beside the daemon; both read the client's     *)
(* metadata before they write it.  The master caches the checksum of its   *)
(* runner by the file's size and time, and announces it in the reply.      *)
(***************************************************************************)
EXTENDS Naturals

CONSTANTS
  Keys, Values,  \* of labels
  Configs,       \* labels node.yaml may hold: functions from Keys, or Bad
  Facts,         \* labels detection may yield
  Versions,      \* runners the master gets one after the other: 0 .. Versions
  FaultKinds,    \* "nomad": the client does not answer, "late": its answer is
                 \* lost, "master": the master does not answer, "cut": a download
                 \* ends early, "crash": of the agent
  MaxEdits, MaxFaults,  \* bound the model
  Absent, Bad

Labeling == [Keys -> Values \union {Absent}]

ASSUME LabelsAssumption == Configs \subseteq Labeling \union {Bad} /\ Facts \subseteq Labeling
ASSUME AbsentAssumption == Absent \notin Values /\ Bad \notin Labeling
ASSUME FaultKindsAssumption == FaultKinds \subseteq {"nomad", "late", "master", "cut", "crash"}
ASSUME BoundsAssumption == Versions \in Nat /\ MaxEdits \in Nat /\ MaxFaults \in Nat

VARIABLES
  yaml,       \* node.yaml
  facts,      \* what detection finds
  meta,       \* the Nomad client's dynamic metadata
  cfg,        \* the daemon's last good configuration
  lastLabels, \* the daemon's: what it applied last, Bad for nothing yet
  agent,      \* where the daemon's tick is
  apply,      \* ApplyLabels, by the daemon and by the command
  binary,     \* the master's runner; a version has a time of its own
  sum,        \* the master's cached checksum and what it was taken for
  runner,     \* <runner_dir>/dtp-runner
  tmp,        \* and the download beside it
  owned,      \* history: keys an agent ever wrote
  writer,     \* history: who wrote the labels last
  overlapped, \* history: two applies ran at once, from detection to write
  edits, faults

labelVars == <<meta, apply, lastLabels, owned, writer, overlapped>>
runnerVars == <<sum, runner, tmp>>
worldVars == <<yaml, facts, binary>>
bounds == <<edits, faults>>
vars == <<worldVars, labelVars, cfg, agent, runnerVars, bounds>>

-----------------------------------------------------------------------------

Actors == {"daemon", "command"}

None == Versions + 1  \* no runner
Half == Versions + 2  \* a runner cut short
NoSum == [of |-> None, is |-> None]

Meta == [label: Labeling, managed: SUBSET Keys, legacy: SUBSET Keys]

(* pc: about to read the metadata, about to write it.                       *)
Apply == [pc: {"idle"}] \union [pc: {"get", "post"}, labels: Labeling, clear: SUBSET Keys]

(* pc: between ticks, in ApplyLabels, about to send the heartbeat, the      *)
(* master about to hash its runner, about to compare, to download, to check *)
(* the download; or stopped by a bad node.yaml at its start.                *)
Agent == [pc: {"idle", "labels", "beat", "hash", "compare", "fetch", "check", "down"},
          want: 0 .. Half]

TypeOK ==
  /\ yaml \in Labeling \union {Bad} /\ facts \in Facts
  /\ meta \in Meta
  /\ cfg \in Labeling /\ lastLabels \in Labeling \union {Bad}
  /\ agent \in Agent /\ apply \in [Actors -> Apply]
  /\ binary \in 0 .. Versions
  /\ sum \in {NoSum} \union [of: 0 .. Versions, is: 0 .. Versions]
  /\ runner \in 0 .. Half /\ tmp \in 0 .. Half
  /\ owned \subseteq Keys /\ writer \in Actors \union {"nobody", "unknown"}
  /\ overlapped \in BOOLEAN
  /\ edits \in 0 .. MaxEdits /\ faults \in 0 .. MaxFaults

Fault(kind) == kind \in FaultKinds /\ faults < MaxFaults /\ faults' = faults + 1 /\ UNCHANGED edits

NoLabels == [k \in Keys |-> Absent]

KeysOf(labels) == {k \in Keys : labels[k] # Absent}

Resting == [pc |-> "idle", want |-> None]

(* At first no agent has run here, or one from before 0.3; a label may also *)
(* have been set by hand.                                                   *)
Init ==
  /\ yaml \in Configs \ {Bad} /\ cfg = yaml
  /\ facts \in Facts
  /\ \E labels \in Configs \ {Bad} : \E legacy \in {{}, KeysOf(labels)} :
       /\ meta = [label |-> labels, managed |-> {}, legacy |-> legacy]
       /\ owned = legacy
  /\ writer = "nobody"
  /\ lastLabels = Bad
  /\ agent = Resting /\ apply = [a \in Actors |-> [pc |-> "idle"]]
  /\ binary = 0 /\ sum = NoSum
  /\ runner = None /\ tmp = None
  /\ overlapped = FALSE
  /\ edits = 0 /\ faults = 0

-----------------------------------------------------------------------------
(* Labels                                                                   *)

(* What is configured wins over what is detected.                           *)
Labels(configured) == [k \in Keys |-> IF configured[k] # Absent THEN configured[k] ELSE facts[k]]

StartApply(a, labels) ==
  /\ apply' = [apply EXCEPT ![a] = [pc |-> "get", labels |-> labels, clear |-> {}]]
  /\ overlapped' = (overlapped \/ \E b \in Actors \ {a} : apply[b].pc # "idle")

(* The tick re-reads node.yaml and keeps the last good one.                 *)
TickBegins ==
  /\ agent.pc = "idle"
  /\ cfg' = IF yaml # Bad THEN yaml ELSE cfg
  /\ IF Labels(cfg') # lastLabels
     THEN agent' = [agent EXCEPT !.pc = "labels"] /\ StartApply("daemon", Labels(cfg'))
     ELSE agent' = [agent EXCEPT !.pc = "beat"] /\ UNCHANGED <<apply, overlapped>>
  /\ UNCHANGED <<worldVars, meta, lastLabels, owned, writer, runnerVars, bounds>>

(* `dtp-node apply'                                                         *)
CommandBegins ==
  /\ apply["command"].pc = "idle" /\ yaml # Bad
  /\ edits < MaxEdits /\ edits' = edits + 1 /\ UNCHANGED faults
  /\ StartApply("command", Labels(yaml))
  /\ UNCHANGED <<worldVars, meta, lastLabels, owned, writer, cfg, agent, runnerVars>>

Ends(a, applied) ==
  /\ apply' = [apply EXCEPT ![a] = [pc |-> "idle"]]
  /\ IF a = "daemon"
     THEN /\ agent' = [agent EXCEPT !.pc = "beat"]
          /\ lastLabels' = IF applied THEN apply[a].labels ELSE lastLabels
     ELSE UNCHANGED <<agent, lastLabels>>

\* Mutant: only the keys of this agent's bookkeeping.
ToClearManaged == meta.managed

(* What this or an earlier agent wrote.                                     *)
ToClear == meta.managed \union meta.legacy

GetMetadata(a) ==
  /\ apply[a].pc = "get"
  /\ \/ /\ apply' = [apply EXCEPT ![a].pc = "post", ![a].clear = ToClear]
        /\ UNCHANGED <<agent, lastLabels, bounds>>
     \/ Fault("nomad") /\ Ends(a, FALSE)
  /\ UNCHANGED <<worldVars, meta, owned, writer, overlapped, cfg, runnerVars>>

(* One POST: what is to be cleared is, unless it is set again; the legacy   *)
(* bookkeeping goes.                                                        *)
Posted(m, a) ==
  LET labels == apply[a].labels
  IN  [label |-> [k \in Keys |-> IF labels[k] # Absent THEN labels[k]
                                 ELSE IF k \in apply[a].clear THEN Absent ELSE m.label[k]],
       managed |-> KeysOf(labels), legacy |-> {}]

\* Mutant: they count as applied whether Nomad took them or not.
AppliedAnyhow(ok) == TRUE

Applied(ok) == ok

PostMetadata(a) ==
  /\ apply[a].pc = "post"
  /\ \/ /\ meta' = Posted(meta, a)
        /\ owned' = owned \union meta'.managed
        /\ \/ Ends(a, Applied(TRUE)) /\ writer' = a /\ UNCHANGED bounds
           \/ Ends(a, Applied(FALSE)) /\ writer' = "unknown" /\ Fault("late")
     \/ UNCHANGED <<meta, owned, writer>> /\ Ends(a, Applied(FALSE)) /\ Fault("nomad")
  /\ UNCHANGED <<worldVars, overlapped, cfg, runnerVars>>

-----------------------------------------------------------------------------
(* Heartbeat and runner                                                     *)

At(pc) == [agent EXCEPT !.pc = pc]

(* The master answers, from the cached checksum when the file is still the  *)
(* one it was taken for.                                                    *)
SendHeartbeat ==
  /\ agent.pc = "beat"
  /\ \/ /\ UNCHANGED bounds
        /\ agent' = IF sum.of = binary THEN [pc |-> "compare", want |-> sum.is]
                                       ELSE [pc |-> "hash", want |-> binary]
     \/ Fault("master") /\ agent' = Resting
  /\ UNCHANGED <<worldVars, labelVars, cfg, runnerVars>>

\* Mutant: only what it was taken for is noted.
CacheKeyOnly(of, is) == [of |-> of, is |-> sum.is]

\* Mutant: the checksum is never taken again.
CacheOnce(of, is) == IF sum = NoSum THEN [of |-> of, is |-> is] ELSE sum

Cache(of, is) == [of |-> of, is |-> is]

(* It was stat'ed before it is opened: it may be another by now.            *)
MasterHashes ==
  /\ agent.pc = "hash"
  /\ sum' = Cache(agent.want, binary)
  /\ agent' = [pc |-> "compare", want |-> sum'.is]
  /\ UNCHANGED <<worldVars, labelVars, cfg, runner, tmp, bounds>>

Compare ==
  /\ agent.pc = "compare"
  /\ agent' = IF runner = agent.want THEN Resting ELSE At("fetch")
  /\ UNCHANGED <<worldVars, labelVars, cfg, runnerVars, bounds>>

(* The master serves what it has by now.                                    *)
Fetch ==
  /\ agent.pc = "fetch"
  /\ \/ tmp' = binary /\ agent' = At("check") /\ UNCHANGED bounds
     \/ tmp' = Half /\ agent' = At("check") /\ Fault("cut")
     \/ UNCHANGED tmp /\ agent' = Resting /\ Fault("master")
  /\ UNCHANGED <<worldVars, labelVars, cfg, sum, runner>>

Genuine == tmp = agent.want

Install ==
  /\ agent.pc = "check"
  /\ runner' = IF Genuine THEN tmp ELSE runner
  /\ tmp' = None
  /\ agent' = Resting
  /\ UNCHANGED <<worldVars, labelVars, cfg, sum, bounds>>

-----------------------------------------------------------------------------
(* The world                                                                *)

Edit == edits < MaxEdits /\ edits' = edits + 1 /\ UNCHANGED faults

EditYaml ==
  /\ Edit
  /\ yaml' \in Configs \ {yaml}
  /\ UNCHANGED <<facts, binary, labelVars, cfg, agent, runnerVars>>

(* A JDK is installed, a display appears.                                   *)
MachineChanges ==
  /\ Edit
  /\ facts' \in Facts \ {facts}
  /\ UNCHANGED <<yaml, binary, labelVars, cfg, agent, runnerVars>>

PublishRunner ==
  /\ binary < Versions /\ binary' = binary + 1
  /\ UNCHANGED <<yaml, facts, labelVars, cfg, agent, runnerVars, bounds>>

(* The daemon dies and is started again; the download stays, what it        *)
(* remembers does not.                                                      *)
Crash ==
  /\ agent.pc # "down"
  /\ Fault("crash")
  /\ agent' = [Resting EXCEPT !.pc = IF yaml = Bad THEN "down" ELSE "idle"]
  /\ cfg' = IF yaml = Bad THEN cfg ELSE yaml
  /\ lastLabels' = Bad
  /\ apply' = [apply EXCEPT !["daemon"] = [pc |-> "idle"]]
  /\ UNCHANGED <<worldVars, meta, owned, writer, overlapped, runnerVars>>

StartsAgain ==
  /\ agent.pc = "down" /\ yaml # Bad
  /\ agent' = Resting /\ cfg' = yaml
  /\ UNCHANGED <<worldVars, labelVars, runnerVars, bounds>>

Daemon ==
  \/ TickBegins \/ GetMetadata("daemon") \/ PostMetadata("daemon")
  \/ SendHeartbeat \/ MasterHashes \/ Compare \/ Fetch \/ Install \/ StartsAgain

Command == CommandBegins \/ GetMetadata("command") \/ PostMetadata("command")

Next == Daemon \/ Command \/ EditYaml \/ MachineChanges \/ PublishRunner \/ Crash

Spec == Init /\ [][Next]_vars

(* The ticker keeps ticking and every HTTP call ends by its timeout; the    *)
(* daemon's supervisor starts it again.                                     *)
FairSpec == Spec /\ WF_vars(Daemon)

-----------------------------------------------------------------------------
(* Properties                                                               *)

(* A label dropped from node.yaml is cleared: what an agent wrote is there  *)
(* only as long as the bookkeeping lists it, whichever agent wrote it and   *)
(* whatever failed since.  Two applies at once may lose a key.              *)
NothingLingers ==
  ~overlapped =>
    \A k \in owned : meta.label[k] # Absent => k \in meta.managed \union meta.legacy

(* Once node.yaml and the machine stay as they are the client has just the  *)
(* labels they call for; what failed is done again.  But not if what was    *)
(* last written came from the command, or was not answered: the daemon goes *)
(* by what it knows it applied (see LabelsTakeEffect).                      *)
LabelsSettle ==
  <>[](\/ agent.pc = "down" \/ yaml = Bad \/ overlapped \/ writer \in {"command", "unknown"}
       \/ \A k \in Keys : k \in owned \/ Labels(yaml)[k] # Absent
                           => meta.label[k] = Labels(yaml)[k])

(* "An edited slot count or label takes effect without a restart": the same *)
(* of every label written by the daemon, answered or not.                   *)
LabelsTakeEffect ==
  <>[](\/ agent.pc = "down" \/ yaml = Bad \/ overlapped \/ writer = "command"
       \/ \A k \in Keys : Labels(yaml)[k] # Absent => meta.label[k] = Labels(yaml)[k])

(* Once the master's runner stays as it is the node has it.                 *)
RunnerSettles == <>[](agent.pc = "down" \/ runner = binary)
=============================================================================
