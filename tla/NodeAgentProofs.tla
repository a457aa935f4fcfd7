-------------------------- MODULE NodeAgentProofs --------------------------
(***************************************************************************)
(* What a node's labels and its runner are for every set of labels, any    *)
(* number of edits, faults and applies.                                    *)
(*                                                                         *)
(*   ClearSound    an apply that has read the metadata is going to clear   *)
(*                 every key it has to: NothingLingers for the apply under *)
(*                 way, which is what makes it inductive                   *)
(*   WantSound     what the daemon compares with is a runner the master    *)
(*                 has or had, never a download cut short                  *)
(***************************************************************************)
EXTENDS NodeAgent, TLAPS

Active(a) == apply[a].pc # "idle"

ClearSound ==
  ~overlapped =>
    /\ ~(Active("daemon") /\ Active("command"))
    /\ \A a \in Actors : apply[a].pc = "post" =>
         \A k \in owned : meta.label[k] # Absent => k \in apply[a].clear

AgentSound ==
  /\ agent.pc = "labels" <=> Active("daemon")
  /\ agent.pc \in {"hash", "compare", "fetch", "check"} => agent.want \in 0 .. Versions

(* A download that was cut short, or is of another version than announced,  *)
(* never becomes the node's runner.                                         *)
RunnerIsWhole == runner # Half

Inv == TypeOK /\ ClearSound /\ NothingLingers /\ AgentSound /\ RunnerIsWhole

-----------------------------------------------------------------------------
(* Records                                                                  *)

Busy == [pc: {"get", "post"}, labels: Labeling, clear: SUBSET Keys]

LEMMA LabelsTyped ==
  ASSUME TypeOK, NEW c \in Labeling PROVE Labels(c) \in Labeling
BY LabelsAssumption DEF TypeOK, Labels, Labeling

LEMMA ApplyTyped ==
  /\ [pc |-> "idle"] \in Apply
  /\ \A x \in Apply : x.pc # "idle" => x \in Busy
  /\ \A labels \in Labeling : [pc |-> "get", labels |-> labels, clear |-> {}] \in Apply
  /\ \A x \in Busy : \A clear \in SUBSET Keys : [x EXCEPT !.pc = "post", !.clear = clear] \in Apply
<1>1. ASSUME NEW x \in Busy, NEW clear \in SUBSET Keys
      PROVE  [x EXCEPT !.pc = "post", !.clear = clear] \in Busy
  BY DEF Busy
<1>2. Busy \subseteq Apply
  BY DEF Busy, Apply
<1>. QED BY <1>1, <1>2 DEF Apply, Busy

LEMMA AgentTyped ==
  ASSUME NEW x \in Agent
  PROVE  /\ \A pc \in {"idle", "labels", "beat", "fetch", "check", "down"} :
              [x EXCEPT !.pc = pc] \in Agent
         /\ Resting \in Agent
         /\ \A pc \in {"hash", "compare"}, w \in 0 .. Versions : [pc |-> pc, want |-> w] \in Agent
BY BoundsAssumption DEF Agent, Resting, None, Half

LEMMA PostedTyped ==
  ASSUME NEW m \in Meta, NEW a \in Actors, apply[a] \in Busy PROVE Posted(m, a) \in Meta
<1>1. apply[a].labels \in Labeling
  BY DEF Busy
<1>2. Posted(m, a).label \in Labeling
  BY <1>1 DEF Posted, Meta, Labeling
<1>3. KeysOf(apply[a].labels) \in SUBSET Keys
  BY DEF KeysOf
<1>. QED BY <1>2, <1>3 DEF Posted, Meta

LEMMA FaultTyped ==
  ASSUME TypeOK, NEW kind, Fault(kind) PROVE faults' \in 0 .. MaxFaults /\ edits' \in 0 .. MaxEdits
BY BoundsAssumption DEF Fault, TypeOK

LEMMA EndsTyped ==
  ASSUME TypeOK, NEW a \in Actors, apply[a].pc # "idle", NEW applied \in BOOLEAN, Ends(a, applied)
  PROVE  /\ apply' \in [Actors -> Apply] /\ agent' \in Agent
         /\ lastLabels' \in Labeling \union {Bad}
         /\ apply'[a].pc = "idle" /\ \A b \in Actors \ {a} : apply'[b] = apply[b]
         /\ IF a = "daemon" THEN agent'.pc = "beat" ELSE agent' = agent
<1>1. apply[a].labels \in Labeling
  <2>1. apply[a] \in Busy
    BY ApplyTyped DEF TypeOK
  <2>. QED BY <2>1 DEF Busy
<1>2. apply' \in [Actors -> Apply]
  BY ApplyTyped DEF Ends, TypeOK
<1>3. agent' \in Agent /\ IF a = "daemon" THEN agent'.pc = "beat" ELSE agent' = agent
  <2>1. [agent EXCEPT !.pc = "beat"] \in Agent /\ [agent EXCEPT !.pc = "beat"].pc = "beat"
    BY AgentTyped DEF TypeOK, Agent
  <2>. QED BY <2>1 DEF Ends, TypeOK
<1>4. lastLabels' \in Labeling \union {Bad}
  BY <1>1 DEF Ends, TypeOK
<1>5. apply'[a].pc = "idle" /\ \A b \in Actors \ {a} : apply'[b] = apply[b]
  BY DEF Ends, TypeOK
<1>. QED BY <1>2, <1>3, <1>4, <1>5

LEMMA StartTyped ==
  ASSUME TypeOK, NEW a \in Actors, NEW labels \in Labeling, StartApply(a, labels)
  PROVE  /\ apply' \in [Actors -> Apply] /\ overlapped' \in BOOLEAN
         /\ apply'[a].pc = "get" /\ \A b \in Actors \ {a} : apply'[b] = apply[b]
         /\ ~overlapped' => ~overlapped /\ \A b \in Actors \ {a} : ~Active(b)
<1>1. apply' \in [Actors -> Apply] /\ apply'[a].pc = "get" /\ \A b \in Actors \ {a} : apply'[b] = apply[b]
  BY ApplyTyped DEF StartApply, TypeOK
<1>2. /\ overlapped' \in BOOLEAN
      /\ ~overlapped' => ~overlapped /\ \A b \in Actors \ {a} : ~Active(b)
  BY DEF StartApply, TypeOK, Active
<1>. QED BY <1>1, <1>2

-----------------------------------------------------------------------------
(* Types                                                                    *)

LEMMA TypeStep == ASSUME TypeOK, AgentSound, [Next]_vars PROVE TypeOK'
<1>. USE DEF worldVars, labelVars, runnerVars, bounds
<1>1. CASE TickBegins
  <2>1. cfg' \in Labeling
    BY <1>1 DEF TickBegins, TypeOK
  <2>2. agent' \in Agent /\ apply' \in [Actors -> Apply] /\ overlapped' \in BOOLEAN
    <3>1. CASE Labels(cfg') # lastLabels
      <4>1. Labels(cfg') \in Labeling
        BY <2>1, LabelsTyped
      <4>2. StartApply("daemon", Labels(cfg')) /\ agent' = [agent EXCEPT !.pc = "labels"]
        BY <1>1, <3>1 DEF TickBegins
      <4>3. agent' \in Agent
        BY <4>2, AgentTyped DEF TypeOK
      <4>. QED BY <4>1, <4>2, <4>3, StartTyped DEF Actors
    <3>2. CASE Labels(cfg') = lastLabels
      BY <1>1, <3>2, AgentTyped DEF TickBegins, TypeOK
    <3>. QED BY <3>1, <3>2
  <2>. QED BY <1>1, <2>1, <2>2 DEF TickBegins, TypeOK
<1>2. CASE CommandBegins
  <2>1. Labels(yaml) \in Labeling
    BY <1>2, LabelsTyped DEF CommandBegins, TypeOK
  <2>2. StartApply("command", Labels(yaml))
    BY <1>2 DEF CommandBegins
  <2>3. apply' \in [Actors -> Apply] /\ overlapped' \in BOOLEAN
    BY <2>1, <2>2, StartTyped DEF Actors
  <2>4. edits' \in 0 .. MaxEdits /\ faults' \in 0 .. MaxFaults
    BY <1>2, BoundsAssumption DEF CommandBegins, TypeOK
  <2>. QED BY <1>2, <2>3, <2>4 DEF CommandBegins, TypeOK
<1>3. ASSUME NEW a \in Actors, GetMetadata(a) PROVE TypeOK'
  <2>1. apply[a].pc = "get"
    BY <1>3 DEF GetMetadata
  <2>2. CASE Fault("nomad") /\ Ends(a, FALSE)
    <3>1. /\ apply' \in [Actors -> Apply] /\ agent' \in Agent /\ lastLabels' \in Labeling \union {Bad}
          /\ faults' \in 0 .. MaxFaults /\ edits' \in 0 .. MaxEdits
      BY <2>1, <2>2, EndsTyped, FaultTyped
    <3>. QED BY <1>3, <3>1 DEF GetMetadata, TypeOK
  <2>3. CASE /\ apply' = [apply EXCEPT ![a].pc = "post", ![a].clear = ToClear]
             /\ UNCHANGED <<agent, lastLabels, bounds>>
    <3>1. apply[a] \in Busy /\ ToClear \in SUBSET Keys
      BY <2>1, ApplyTyped DEF TypeOK, ToClear, Meta
    <3>2. apply' = [apply EXCEPT ![a] = [apply[a] EXCEPT !.pc = "post", !.clear = ToClear]]
      BY <2>3, <3>1 DEF TypeOK, Busy
    <3>3. apply' \in [Actors -> Apply]
      BY <3>1, <3>2, ApplyTyped DEF TypeOK
    <3>. QED BY <1>3, <2>3, <3>3 DEF GetMetadata, TypeOK
  <2>. QED BY <1>3, <2>2, <2>3 DEF GetMetadata
<1>4. ASSUME NEW a \in Actors, PostMetadata(a) PROVE TypeOK'
  <2>1. apply[a].pc = "post" /\ apply[a] \in Busy
    BY <1>4, ApplyTyped DEF PostMetadata, TypeOK
  <2>2. PICK applied \in BOOLEAN : Ends(a, applied)
    BY <1>4 DEF PostMetadata, Applied
  <2>3. /\ apply' \in [Actors -> Apply] /\ agent' \in Agent /\ lastLabels' \in Labeling \union {Bad}
    BY <2>1, <2>2, EndsTyped
  <2>4. meta' \in Meta /\ owned' \subseteq Keys
    <3>1. Posted(meta, a) \in Meta
      BY <2>1, PostedTyped DEF TypeOK
    <3>2. Posted(meta, a).managed \subseteq Keys
      BY <3>1 DEF Meta
    <3>. QED BY <1>4, <3>1, <3>2 DEF PostMetadata, TypeOK
  <2>5. writer' \in Actors \union {"nobody", "unknown"}
    BY <1>4 DEF PostMetadata, TypeOK
  <2>6. faults' \in 0 .. MaxFaults /\ edits' \in 0 .. MaxEdits
    <3>1. CASE UNCHANGED bounds
      BY <3>1 DEF TypeOK
    <3>. QED BY <1>4, <3>1, FaultTyped DEF PostMetadata
  <2>. QED BY <1>4, <2>3, <2>4, <2>5, <2>6 DEF PostMetadata, TypeOK
<1>5. CASE SendHeartbeat
  <2>1. agent' \in Agent
    <3>1. binary \in 0 .. Versions /\ (sum.of = binary => sum.is \in 0 .. Versions)
      BY BoundsAssumption DEF TypeOK, NoSum, None
    <3>. QED BY <1>5, <3>1, AgentTyped DEF SendHeartbeat, TypeOK
  <2>2. faults' \in 0 .. MaxFaults /\ edits' \in 0 .. MaxEdits
    <3>1. CASE UNCHANGED bounds
      BY <3>1 DEF TypeOK
    <3>. QED BY <1>5, <3>1, FaultTyped DEF SendHeartbeat
  <2>. QED BY <1>5, <2>1, <2>2 DEF SendHeartbeat, TypeOK
<1>6. CASE MasterHashes
  <2>1. agent.want \in 0 .. Versions /\ binary \in 0 .. Versions
    BY <1>6 DEF MasterHashes, AgentSound, TypeOK
  <2>2. sum' = [of |-> agent.want, is |-> binary] /\ agent' = [pc |-> "compare", want |-> binary]
    BY <1>6 DEF MasterHashes, Cache
  <2>3. agent' \in Agent
    BY <2>1, <2>2, AgentTyped DEF TypeOK
  <2>. QED BY <1>6, <2>1, <2>2, <2>3 DEF MasterHashes, TypeOK
<1>7. CASE Compare
  <2>1. agent' \in Agent
    BY <1>7, AgentTyped DEF Compare, At, TypeOK
  <2>. QED BY <1>7, <2>1 DEF Compare, TypeOK
<1>8. CASE Fetch
  <2>1. agent' \in Agent
    BY <1>8, AgentTyped DEF Fetch, At, TypeOK
  <2>2. tmp' \in 0 .. Half
    BY <1>8, BoundsAssumption DEF Fetch, TypeOK, Half
  <2>3. faults' \in 0 .. MaxFaults /\ edits' \in 0 .. MaxEdits
    <3>1. CASE UNCHANGED bounds
      BY <3>1 DEF TypeOK
    <3>. QED BY <1>8, <3>1, FaultTyped DEF Fetch
  <2>. QED BY <1>8, <2>1, <2>2, <2>3 DEF Fetch, TypeOK
<1>9. CASE Install
  <2>1. agent' \in Agent
    BY <1>9, AgentTyped DEF Install, TypeOK
  <2>2. runner' \in 0 .. Half /\ tmp' \in 0 .. Half
    BY <1>9, BoundsAssumption DEF Install, TypeOK, Half, None
  <2>. QED BY <1>9, <2>1, <2>2 DEF Install, TypeOK
<1>10. CASE StartsAgain
  <2>1. agent' \in Agent /\ cfg' \in Labeling
    BY <1>10, AgentTyped DEF StartsAgain, TypeOK
  <2>. QED BY <1>10, <2>1 DEF StartsAgain, TypeOK
<1>11. CASE EditYaml \/ MachineChanges
  <2>1. edits' \in 0 .. MaxEdits /\ faults' \in 0 .. MaxFaults
    BY <1>11, BoundsAssumption DEF EditYaml, MachineChanges, Edit, TypeOK
  <2>2. yaml' \in Labeling \union {Bad} /\ facts' \in Facts
    BY <1>11, LabelsAssumption DEF EditYaml, MachineChanges, TypeOK
  <2>. QED BY <1>11, <2>1, <2>2 DEF EditYaml, MachineChanges, TypeOK
<1>12. CASE PublishRunner
  <2>1. binary' \in 0 .. Versions
    BY <1>12, BoundsAssumption DEF PublishRunner, TypeOK
  <2>. QED BY <1>12, <2>1 DEF PublishRunner, TypeOK
<1>13. CASE Crash
  <2>1. agent' \in Agent
    <3>1. Resting \in Agent
      BY AgentTyped DEF TypeOK
    <3>. QED BY <1>13, <3>1, AgentTyped DEF Crash
  <2>2. cfg' \in Labeling
    BY <1>13 DEF Crash, TypeOK
  <2>3. apply' \in [Actors -> Apply]
    BY <1>13, ApplyTyped DEF Crash, TypeOK, Actors
  <2>4. faults' \in 0 .. MaxFaults /\ edits' \in 0 .. MaxEdits
    BY <1>13, FaultTyped DEF Crash
  <2>. QED BY <1>13, <2>1, <2>2, <2>3, <2>4 DEF Crash, TypeOK
<1>14. CASE UNCHANGED vars
  BY <1>14 DEF vars, TypeOK
<1>. QED BY <1>1, <1>2, <1>3, <1>4, <1>5, <1>6, <1>7, <1>8, <1>9, <1>10, <1>11, <1>12, <1>13, <1>14
        DEF Next, Daemon, Command, Actors

-----------------------------------------------------------------------------
(* Labels                                                                   *)

LabelsSound == ClearSound /\ NothingLingers

(* One write of the labels: what the apply does not clear is listed by the  *)
(* bookkeeping that it writes.                                              *)
LEMMA PostClears ==
  ASSUME TypeOK, NEW a \in Actors, apply[a] \in Busy, NEW k \in owned \union KeysOf(apply[a].labels),
         k \in owned /\ meta.label[k] # Absent => k \in apply[a].clear,
         Posted(meta, a).label[k] # Absent
  PROVE  k \in Posted(meta, a).managed
<1>1. k \in Keys
  BY DEF KeysOf, TypeOK
<1>2. CASE apply[a].labels[k] # Absent
  BY <1>1, <1>2 DEF Posted, KeysOf
<1>3. CASE apply[a].labels[k] = Absent
  <2>1. k \in owned
    BY <1>1, <1>3 DEF KeysOf
  <2>2. Posted(meta, a).label[k] = IF k \in apply[a].clear THEN Absent ELSE meta.label[k]
    BY <1>1, <1>3 DEF Posted
  <2>. QED BY <2>1, <2>2
<1>. QED BY <1>2, <1>3

(* An apply that begins makes no other one unsound.                         *)
LEMMA StartSound ==
  ASSUME TypeOK, LabelsSound, NEW a \in Actors, NEW labels \in Labeling, StartApply(a, labels),
         UNCHANGED <<meta, owned>>
  PROVE  LabelsSound'
<1>1. /\ apply'[a].pc = "get" /\ \A b \in Actors \ {a} : apply'[b] = apply[b]
      /\ ~overlapped' => ~overlapped /\ \A b \in Actors \ {a} : ~Active(b)
  BY StartTyped
<1>2. NothingLingers'
  BY <1>1 DEF LabelsSound, NothingLingers
<1>3. ClearSound'
  BY <1>1 DEF ClearSound, Active, Actors
<1>. QED BY <1>2, <1>3 DEF LabelsSound

(* One that ends leaves the other as it was.                                *)
LEMMA EndSound ==
  ASSUME TypeOK, NEW a \in Actors, Active(a), NEW applied \in BOOLEAN, Ends(a, applied),
         UNCHANGED overlapped, NothingLingers', ClearSound,
         overlapped \/ \A b \in Actors \ {a} : ~Active(b)
  PROVE  LabelsSound'
<1>1. apply'[a].pc = "idle" /\ \A b \in Actors \ {a} : apply'[b] = apply[b]
  BY EndsTyped DEF Active
<1>2. ClearSound'
  BY <1>1 DEF ClearSound, Active, Actors
<1>. QED BY <1>2 DEF LabelsSound

LEMMA LabelsStep == ASSUME TypeOK, LabelsSound, [Next]_vars PROVE LabelsSound'
<1>. USE DEF worldVars, labelVars, runnerVars, bounds
<1>0. ASSUME NEW a \in Actors, Active(a)
      PROVE  overlapped \/ \A b \in Actors \ {a} : ~Active(b)
  BY <1>0 DEF LabelsSound, ClearSound, Actors
<1>1. CASE TickBegins
  <2>1. CASE Labels(cfg') # lastLabels
    <3>1. Labels(cfg') \in Labeling
      BY <1>1, LabelsTyped DEF TickBegins, TypeOK
    <3>. QED BY <1>1, <2>1, <3>1, StartSound DEF TickBegins, Actors
  <2>2. CASE Labels(cfg') = lastLabels
    BY <1>1, <2>2 DEF TickBegins, LabelsSound, ClearSound, NothingLingers, Active
  <2>. QED BY <2>1, <2>2
<1>2. CASE CommandBegins
  <2>1. Labels(yaml) \in Labeling
    BY <1>2, LabelsTyped DEF CommandBegins, TypeOK
  <2>. QED BY <1>2, <2>1, StartSound DEF CommandBegins, Actors
<1>3. ASSUME NEW a \in Actors, GetMetadata(a) PROVE LabelsSound'
  <2>1. UNCHANGED <<meta, owned, overlapped>> /\ apply[a].pc = "get"
    BY <1>3 DEF GetMetadata
  <2>2. NothingLingers'
    BY <2>1 DEF LabelsSound, NothingLingers
  <2>3. CASE Ends(a, FALSE)
    <3>1. Active(a)
      BY <2>1 DEF Active
    <3>. QED BY <1>0, <2>1, <2>2, <2>3, <3>1, EndSound DEF LabelsSound
  <2>4. CASE apply' = [apply EXCEPT ![a].pc = "post", ![a].clear = ToClear]
    <3>1. apply[a] \in Busy
      BY <2>1, ApplyTyped DEF TypeOK
    <3>2. apply'[a].pc = "post" /\ apply'[a].clear = ToClear /\ \A b \in Actors \ {a} : apply'[b] = apply[b]
      BY <2>4, <3>1 DEF TypeOK, Busy
    <3>3. overlapped \/ \A b \in Actors \ {a} : ~Active(b)
      BY <1>0, <2>1 DEF Active
    <3>4. ~overlapped => \A k \in owned : meta.label[k] # Absent => k \in ToClear
      BY DEF LabelsSound, NothingLingers, ToClear
    <3>5. ClearSound'
      BY <2>1, <3>2, <3>3, <3>4 DEF ClearSound, Active, Actors
    <3>. QED BY <2>2, <3>5 DEF LabelsSound
  <2>. QED BY <1>3, <2>3, <2>4 DEF GetMetadata
<1>4. ASSUME NEW a \in Actors, PostMetadata(a) PROVE LabelsSound'
  <2>1. apply[a].pc = "post" /\ apply[a] \in Busy /\ Active(a) /\ UNCHANGED overlapped
    BY <1>4, ApplyTyped DEF PostMetadata, TypeOK, Active
  <2>2. NothingLingers'
    <3>1. CASE UNCHANGED <<meta, owned>>
      BY <2>1, <3>1 DEF LabelsSound, NothingLingers
    <3>2. CASE meta' = Posted(meta, a) /\ owned' = owned \union meta'.managed
      <4>. SUFFICES ASSUME ~overlapped, NEW k \in owned', Posted(meta, a).label[k] # Absent
                    PROVE  k \in Posted(meta, a).managed
        BY <2>1, <3>2 DEF NothingLingers
      <4>1. Posted(meta, a).managed = KeysOf(apply[a].labels)
        BY DEF Posted
      <4>2. k \in owned \union KeysOf(apply[a].labels)
        BY <3>2, <4>1
      <4>3. k \in owned /\ meta.label[k] # Absent => k \in apply[a].clear
        BY <2>1 DEF LabelsSound, ClearSound
      <4>. QED BY <2>1, <4>2, <4>3, PostClears
    <3>. QED BY <1>4, <3>1, <3>2 DEF PostMetadata
  <2>3. PICK applied \in BOOLEAN : Ends(a, applied)
    BY <1>4 DEF PostMetadata, Applied
  <2>. QED BY <1>0, <2>1, <2>2, <2>3, EndSound DEF LabelsSound
<1>5. CASE UNCHANGED <<apply, overlapped, meta, owned>>
  BY <1>5 DEF LabelsSound, ClearSound, NothingLingers, Active
<1>6. CASE Crash
  <2>1. UNCHANGED <<overlapped, meta, owned>> /\ apply'["daemon"].pc = "idle"
        /\ apply'["command"] = apply["command"]
    BY <1>6 DEF Crash, TypeOK, Actors
  <2>. QED BY <2>1 DEF LabelsSound, ClearSound, NothingLingers, Active, Actors
<1>7. SendHeartbeat \/ MasterHashes \/ Compare \/ Fetch \/ Install \/ StartsAgain \/ EditYaml
        \/ MachineChanges \/ PublishRunner \/ UNCHANGED vars => UNCHANGED <<apply, overlapped, meta, owned>>
  BY DEF SendHeartbeat, MasterHashes, Compare, Fetch, Install, StartsAgain, EditYaml,
         MachineChanges, PublishRunner, vars
<1>. QED BY <1>1, <1>2, <1>3, <1>4, <1>5, <1>6, <1>7 DEF Next, Daemon, Command, Actors

-----------------------------------------------------------------------------
(* The daemon and its runner                                                *)

LEMMA AgentStep ==
  ASSUME TypeOK, AgentSound, RunnerIsWhole, [Next]_vars PROVE AgentSound' /\ RunnerIsWhole'
<1>. USE DEF worldVars, labelVars, runnerVars, bounds
<1>0. /\ binary \in 0 .. Versions /\ (sum.of = binary => sum.is \in 0 .. Versions)
      /\ Half \notin 0 .. Versions
  BY BoundsAssumption DEF TypeOK, NoSum, None, Half
<1>1. CASE TickBegins
  <2>1. CASE Labels(cfg') # lastLabels
    <3>1. Labels(cfg') \in Labeling
      BY <1>1, LabelsTyped DEF TickBegins, TypeOK
    <3>2. StartApply("daemon", Labels(cfg')) /\ agent'.pc = "labels" /\ UNCHANGED runner
      BY <1>1, <2>1 DEF TickBegins, TypeOK, Agent
    <3>3. apply'["daemon"].pc = "get"
      BY <3>1, <3>2, StartTyped DEF Actors
    <3>. QED BY <3>2, <3>3 DEF AgentSound, Active, RunnerIsWhole, Half
  <2>2. CASE Labels(cfg') = lastLabels
    <3>1. agent'.pc = "beat" /\ UNCHANGED <<apply, runner>> /\ agent.pc = "idle"
      BY <1>1, <2>2 DEF TickBegins, TypeOK, Agent
    <3>. QED BY <3>1 DEF AgentSound, Active, RunnerIsWhole, Half
  <2>. QED BY <2>1, <2>2
<1>2. CASE CommandBegins
  <2>1. Labels(yaml) \in Labeling
    BY <1>2, LabelsTyped DEF CommandBegins, TypeOK
  <2>2. apply'["daemon"] = apply["daemon"]
    BY <1>2, <2>1, StartTyped DEF CommandBegins, Actors
  <2>. QED BY <1>2, <2>2 DEF CommandBegins, AgentSound, Active, RunnerIsWhole, Half
<1>3. ASSUME NEW a \in Actors, GetMetadata(a) \/ PostMetadata(a)
      PROVE  AgentSound' /\ RunnerIsWhole'
  <2>1. UNCHANGED runner /\ apply[a].pc # "idle"
    BY <1>3 DEF GetMetadata, PostMetadata
  <2>2. CASE \E applied \in BOOLEAN : Ends(a, applied)
    <3>1. /\ apply'[a].pc = "idle" /\ \A b \in Actors \ {a} : apply'[b] = apply[b]
          /\ IF a = "daemon" THEN agent'.pc = "beat" ELSE agent' = agent
      BY <2>1, <2>2, EndsTyped
    <3>. QED BY <2>1, <3>1 DEF AgentSound, Active, Actors, RunnerIsWhole, Half
  <2>3. CASE apply' = [apply EXCEPT ![a].pc = "post", ![a].clear = ToClear] /\ UNCHANGED agent
    <3>1. apply[a] \in Busy
      BY <2>1, ApplyTyped DEF TypeOK
    <3>2. apply'[a].pc = "post" /\ \A b \in Actors \ {a} : apply'[b] = apply[b]
      BY <2>3, <3>1 DEF TypeOK, Busy
    <3>. QED BY <2>1, <2>3, <3>2 DEF AgentSound, Active, Actors, RunnerIsWhole, Half
  <2>. QED BY <1>3, <2>2, <2>3 DEF GetMetadata, PostMetadata, Applied
<1>4. CASE SendHeartbeat
  <2>1. UNCHANGED <<apply, runner>> /\ agent.pc = "beat"
    BY <1>4 DEF SendHeartbeat
  <2>2. agent' \in {[pc |-> "compare", want |-> sum.is], [pc |-> "hash", want |-> binary], Resting}
    BY <1>4 DEF SendHeartbeat
  <2>3. agent' = [pc |-> "compare", want |-> sum.is] => sum.of = binary
    BY <1>4 DEF SendHeartbeat, Resting
  <2>. QED BY <1>0, <2>1, <2>2, <2>3 DEF AgentSound, Active, RunnerIsWhole, Half, Resting
<1>5. CASE MasterHashes
  BY <1>0, <1>5 DEF MasterHashes, Cache, AgentSound, Active, RunnerIsWhole, Half
<1>6. CASE Compare \/ Fetch
  <2>1. /\ UNCHANGED <<apply, runner>> /\ agent.pc \in {"compare", "fetch"}
        /\ \/ agent' = Resting
           \/ agent'.pc \in {"fetch", "check"} /\ agent'.want = agent.want
    <3>1. \A pc \in {"fetch", "check"} : At(pc).pc = pc /\ At(pc).want = agent.want
      BY DEF At, TypeOK, Agent
    <3>. QED BY <1>6, <3>1 DEF Compare, Fetch
  <2>. QED BY <2>1 DEF AgentSound, Active, RunnerIsWhole, Half, Resting
<1>7. CASE Install
  <2>1. agent.want \in 0 .. Versions
    BY <1>7 DEF Install, AgentSound
  <2>2. RunnerIsWhole'
    BY <1>0, <1>7, <2>1 DEF Install, Genuine, RunnerIsWhole, Half
  <2>3. AgentSound'
    BY <1>7 DEF Install, AgentSound, Active, Resting
  <2>. QED BY <2>2, <2>3
<1>8. CASE StartsAgain
  BY <1>8 DEF StartsAgain, AgentSound, Active, Resting, RunnerIsWhole, Half
<1>9. CASE Crash
  <2>1. agent'.pc \in {"down", "idle"} /\ apply'["daemon"].pc = "idle" /\ UNCHANGED runner
    BY <1>9 DEF Crash, Resting, TypeOK, Actors
  <2>. QED BY <2>1 DEF AgentSound, Active, RunnerIsWhole, Half
<1>10. CASE EditYaml \/ MachineChanges \/ PublishRunner \/ UNCHANGED vars
  BY <1>10 DEF EditYaml, MachineChanges, PublishRunner, vars, AgentSound, Active, RunnerIsWhole, Half
<1>. QED BY <1>1, <1>2, <1>3, <1>4, <1>5, <1>6, <1>7, <1>8, <1>9, <1>10 DEF Next, Daemon, Command, Actors

-----------------------------------------------------------------------------
(* The theorems                                                             *)

LEMMA InvInit == Init => Inv
<1>. SUFFICES ASSUME Init PROVE Inv
  OBVIOUS
<1>1. PICK labels \in Configs \ {Bad} : \E legacy \in {{}, KeysOf(labels)} :
        meta = [label |-> labels, managed |-> {}, legacy |-> legacy] /\ owned = legacy
  BY DEF Init
<1>2. meta \in Meta /\ owned \subseteq Keys /\ owned = meta.legacy
  BY <1>1, LabelsAssumption DEF Meta, KeysOf
<1>3. apply \in [Actors -> Apply] /\ \A a \in Actors : apply[a].pc = "idle"
  BY ApplyTyped DEF Init
<1>4. agent \in Agent /\ agent.pc = "idle"
  BY BoundsAssumption DEF Init, Agent, Resting, None, Half
<1>5. TypeOK
  <2>1. yaml \in Labeling /\ cfg \in Labeling /\ facts \in Facts
    BY LabelsAssumption DEF Init
  <2>2. /\ binary \in 0 .. Versions /\ runner \in 0 .. Half /\ tmp \in 0 .. Half
        /\ edits \in 0 .. MaxEdits /\ faults \in 0 .. MaxFaults
    BY BoundsAssumption DEF Init, None, Half
  <2>. QED BY <1>2, <1>3, <1>4, <2>1, <2>2 DEF Init, TypeOK
<1>6. ClearSound
  BY <1>3 DEF ClearSound, Active, Actors
<1>7. NothingLingers
  BY <1>2 DEF NothingLingers
<1>8. AgentSound
  BY <1>3, <1>4 DEF AgentSound, Active, Actors
<1>9. RunnerIsWhole
  BY BoundsAssumption DEF Init, RunnerIsWhole, None, Half
<1>. QED BY <1>5, <1>6, <1>7, <1>8, <1>9 DEF Inv

LEMMA InvStep == Inv /\ [Next]_vars => Inv'
BY TypeStep, LabelsStep, AgentStep DEF Inv, LabelsSound

(* The inductive invariant.                                                 *)
THEOREM AgentInvariant == Spec => []Inv
BY InvInit, InvStep, PTL DEF Spec

(* The agent's, the client's and the master's records stay well-formed.     *)
THEOREM AgentTypes == Spec => []TypeOK
<1>1. Inv => TypeOK
  BY DEF Inv
<1>. QED BY AgentInvariant, <1>1, PTL

(* ApplyLabels leaves no label of an agent's behind that its bookkeeping    *)
(* does not list, through any sequence of edits, failed, unanswered and     *)
(* interrupted applies, of any labels: unless two applies overlapped.       *)
THEOREM LabelsAreListed == Spec => []NothingLingers
<1>1. Inv => NothingLingers
  BY DEF Inv
<1>. QED BY AgentInvariant, <1>1, PTL

(* No download cut short is ever installed, though the master's checksum    *)
(* may be stale and its file may change before, during or after the fetch.  *)
THEOREM RunnersAreWhole == Spec => []RunnerIsWhole
<1>1. Inv => RunnerIsWhole
  BY DEF Inv
<1>. QED BY AgentInvariant, <1>1, PTL
=============================================================================
