------------------------------- MODULE Commands_proofs -------------------------------
(***************************************************************************)
(* Commands, for any inputs, options and failures: that the load of        *)
(* definitions follows the rules of the merge, what a success of           *)
(* configureinstance means, that an event of a log collection names the    *)
(* bundle of its message and old bundles do not pile up, that a report of  *)
(* the performance is whole, which resource a request of the group         *)
(* services is for, that the maintenance mode is kept, and that the disks  *)
(* that were selected are right.                                           *)
(***************************************************************************)
EXTENDS MCCollectionLoad, ConfigureInstance, LogCollection, PerformanceDiagnostics, GroupServices,
        MaintenanceMode, DiskSelection, Subsequences_proofs, FiniteSetTheorems, TLAPS

------------------------------------------------------------------------------------
(* CollectionLoad: the merge and the validation of definitions. *)

(* The overlap rule is symmetric, so the order in which the validator meets two
   metrics does not matter. *)
LEMMA OverlapsSymmetric ==
    ASSUME NEW m, NEW n, Overlaps(m, n)
    PROVE  Overlaps(n, m)
BY DEF Overlaps

(* What the merge of two definitions consists of. *)
LEMMA MergeMembers ==
    ASSUME NEW p, NEW s, NEW m \in Merge(p, s)
    PROVE  /\ isValidVersion(m)
           /\ m \in filterMetrics(p) \/ (m \in filterMetrics(s) /\ \A n \in p : ~Overlaps(m, n))
BY DEF Merge, filterMetrics, mergeWorkloadValidations, MergeAdds, shouldMerge

(* The validator never turns down the merge of a valid agent definition with a local one
   that is well-formed by its rules, as shouldMerge refuses whatever it would reject
   beside the agent's metrics; what is left is the panic of the merge at the first
   metric for a section the agent's definition lacks. *)
THEOREM LocalDefinitionIsSafe == \A p, s : LocalNeverBreaks(p, s)
<1> SUFFICES ASSUME NEW p, NEW s, Valid(filterMetrics(p)), Valid(filterMetrics(s))
             PROVE  Valid(Merge(p, s))
  BY DEF LocalNeverBreaks, MergePanics, MergeAdds
<1>1. ASSUME NEW m \in Checked(Merge(p, s))
      PROVE  Complete(m)
  <2>1. m \in Checked(filterMetrics(p)) \/ m \in Checked(filterMetrics(s))
    BY <1>1, MergeMembers DEF Checked
  <2> QED BY <2>1 DEF Valid
<1>2. ASSUME NEW m \in Checked(Merge(p, s)), NEW n \in Checked(Merge(p, s)), m # n
      PROVE  ~Overlaps(m, n)
  <2>1. CASE m \in filterMetrics(p) /\ n \in filterMetrics(p)
    BY <1>2, <2>1 DEF Valid, Checked
  <2>2. CASE m \notin filterMetrics(p) /\ n \in filterMetrics(p)
    <3>1. n \in p
      BY <2>2 DEF filterMetrics
    <3> QED BY <1>2, <2>2, <3>1, MergeMembers DEF Checked
  <2>3. CASE m \in filterMetrics(p) /\ n \notin filterMetrics(p)
    <3>1. m \in p
      BY <2>3 DEF filterMetrics
    <3>2. ~Overlaps(n, m)
      BY <1>2, <2>3, <3>1, MergeMembers DEF Checked
    <3> QED BY <3>2, OverlapsSymmetric
  <2>4. CASE m \notin filterMetrics(p) /\ n \notin filterMetrics(p)
    <3>1. m \in Checked(filterMetrics(s)) /\ n \in Checked(filterMetrics(s))
      BY <1>2, <2>4, MergeMembers DEF Checked
    <3> QED BY <1>2, <3>1 DEF Valid
  <2> QED BY <2>1, <2>2, <2>3, <2>4
<1> QED
  BY <1>1, <1>2 DEF Valid

(* The merge does panic at any metric for such a section whose key is new. *)
LEMMA NewSectionsPanic == \A p, s : NewSectionPanics(p, s)
BY DEF NewSectionPanics, MergePanics, MergeAdds, shouldMerge, Overlaps

(* The agent's metrics all survive, and no local metric with the type and label of
   one of them gets in. *)
THEOREM AgentDefinitionWins == \A p, s : PrimaryWins(p, s)
<1> SUFFICES ASSUME NEW p, NEW s PROVE PrimaryWins(p, s)
  OBVIOUS
<1>1. {m \in p : isValidVersion(m)} \subseteq Merge(p, s)
  BY DEF Merge, filterMetrics, mergeWorkloadValidations
<1>2. ASSUME NEW m \in Merge(p, s) \ p PROVE m \in s /\ \A n \in p : ~Overlaps(m, n)
  <2>1. m \notin filterMetrics(p)
    BY <1>2 DEF filterMetrics
  <2>2. m \in filterMetrics(s) /\ \A n \in p : ~Overlaps(m, n)
    BY <1>2, <2>1, MergeMembers
  <2> QED BY <2>2 DEF filterMetrics
<1> QED
  BY <1>1, <1>2 DEF PrimaryWins

(* A type and label is ambiguous in a loaded definition only through
   indexserver.ini metrics, which the validator does not visit. *)
THEOREM AmbiguityIsInIndexserver == \A p, s : AmbiguousOnlyInIndexserver(p, s)
BY DEF AmbiguousOnlyInIndexserver, Valid, Checked

(* A number whose first digit is smaller is smaller, whatever follows, and so for the
   second. *)
LEMMA DigitsDecide ==
    ASSUME NEW b \in Nat \ {0}, NEW x \in Nat, NEW y \in Nat, NEW l \in 0..(b - 1), NEW m \in Nat, x < y
    PROVE  b * x + l < b * y + m
<1>1. PICK d \in Nat : y = x + 1 + d
  <2>1. y - x - 1 \in Nat /\ y = x + 1 + (y - x - 1) OBVIOUS
  <2> QED BY <2>1
<1>2. b * y = b * x + b + b * d BY <1>1
<1>3. b * d \in Nat /\ b * x \in Nat OBVIOUS
<1>4. b * y + m >= b * x + b BY <1>2, <1>3
<1> QED BY <1>3, <1>4

(* Numbers of three digits are ordered by the first digit that differs. *)
LEMMA ThreeDigits ==
    ASSUME NEW b \in Nat \ {0},
           NEW x1 \in 0..(b - 1), NEW x2 \in 0..(b - 1), NEW x3 \in 0..(b - 1),
           NEW y1 \in 0..(b - 1), NEW y2 \in 0..(b - 1), NEW y3 \in 0..(b - 1),
           x1 < y1 \/ (x1 = y1 /\ (x2 < y2 \/ (x2 = y2 /\ x3 < y3)))
    PROVE  b * b * x1 + b * x2 + x3 < b * b * y1 + b * y2 + y3
<1>1. /\ b * b * x1 + b * x2 + x3 = b * (b * x1 + x2) + x3
      /\ b * b * y1 + b * y2 + y3 = b * (b * y1 + y2) + y3
  OBVIOUS
<1>2. b * x1 + x2 \in Nat /\ b * y1 + y2 \in Nat
  OBVIOUS
<1>3. CASE x1 < y1
  <2>1. b * x1 + x2 < b * y1 + y2
    BY <1>3, DigitsDecide
  <2> QED BY <1>1, <1>2, <2>1, DigitsDecide
<1>4. CASE x1 = y1 /\ x2 < y2
  <2>1. b * x1 + x2 < b * y1 + y2
    BY <1>4, DigitsDecide
  <2> QED BY <1>1, <1>2, <2>1, DigitsDecide
<1>5. CASE x1 = y1 /\ x2 = y2 /\ x3 < y3
  <2>1. b * x1 + x2 = b * y1 + y2 /\ b * (b * x1 + x2) \in Nat
    BY <1>2, <1>5
  <2> QED BY <1>1, <1>5, <2>1
<1> QED BY <1>3, <1>4, <1>5

(* Every number in a compared version is a digit. *)
LEMMA PartsAreDigits ==
    ASSUME NEW v \in AllVersions
    PROVE  /\ Len(v) \in 1..3
           /\ \A i \in 1..6 : Part(v, i) \in 0..(Base - 1)
           /\ \A i \in 4..6 : Part(v, i) = 0
<1>1. PICK n \in 1..3 : v \in [1..n -> 0..(Base - 1)]
  BY BaseAssumption DEF AllVersions
<1>2. Len(v) = n
  BY <1>1
<1> QED BY <1>1, <1>2, BaseAssumption DEF Part

(* compareVersions orders versions as the numbers whose digits they are. *)
THEOREM VersionsAreNumbers ==
    ASSUME NEW a \in AllVersions, NEW c \in AllVersions
    PROVE  VersionOrder(Base, a, c)
<1> DEFINE differ == {i \in 1..(Len(a) + Len(c)) : Part(a, i) # Part(c, i)}
           first == CHOOSE i \in differ : \A j \in differ : i <= j
<1> DEFINE A == Base * Base * Part(a, 1) + Base * Part(a, 2) + Part(a, 3)
           C == Base * Base * Part(c, 1) + Base * Part(c, 2) + Part(c, 3)
<1> USE BaseAssumption
<1>0. /\ Len(a) \in 1..3 /\ Len(c) \in 1..3
      /\ \A i \in 1..6 : Part(a, i) \in 0..(Base - 1) /\ Part(c, i) \in 0..(Base - 1)
      /\ \A i \in 4..6 : Part(a, i) = 0 /\ Part(c, i) = 0
  BY PartsAreDigits
<1>1. \A i \in 1..3 : Part(a, i) \in 0..(Base - 1) /\ Part(c, i) \in 0..(Base - 1)
  BY <1>0
<1>2. differ \subseteq 1..3
  <2> SUFFICES ASSUME NEW i \in 1..(Len(a) + Len(c)), Part(a, i) # Part(c, i) PROVE i \in 1..3
    OBVIOUS
  <2>1. i \in 1..6
    <3>1. \A p, q \in 1..3 : \A j \in 1..(p + q) : j \in 1..6
      OBVIOUS
    <3> QED BY <1>0, <3>1, Zenon
  <2> QED BY <1>0, <2>1
<1>3. \A i \in 1..3 : i \in differ <=> Part(a, i) # Part(c, i)
  <2> SUFFICES ASSUME NEW i \in 1..3, Part(a, i) # Part(c, i) PROVE i \in 1..(Len(a) + Len(c))
    OBVIOUS
  <2>1. CASE i <= Len(a)
    BY <2>1, <1>0
  <2>2. CASE i <= Len(c)
    BY <2>2, <1>0
  <2>3. CASE i > Len(a) /\ i > Len(c)
    BY <2>3, <1>0 DEF Part
  <2> QED BY <1>0, <2>1, <2>2, <2>3
<1>4. compareVersions(a, c) = IF differ = {} THEN "same"
                              ELSE IF Part(a, first) < Part(c, first) THEN "less" ELSE "more"
  BY DEF compareVersions
<1>5. VersionOrder(Base, a, c) = (compareVersions(a, c) = (IF A < C THEN "less" ELSE IF A > C THEN "more" ELSE "same"))
  BY DEF VersionOrder
<1>6. ASSUME NEW x \in AllVersions, NEW y \in AllVersions
      PROVE  \/ Part(x, 1) < Part(y, 1)
             \/ Part(x, 1) = Part(y, 1) /\ (Part(x, 2) < Part(y, 2) \/ (Part(x, 2) = Part(y, 2) /\ Part(x, 3) < Part(y, 3)))
             => Base * Base * Part(x, 1) + Base * Part(x, 2) + Part(x, 3) < Base * Base * Part(y, 1) + Base * Part(y, 2) + Part(y, 3)
  <2>1. \A i \in 1..3 : Part(x, i) \in 0..(Base - 1) /\ Part(y, i) \in 0..(Base - 1)
    BY PartsAreDigits
  <2>2. /\ Part(x, 1) \in 0..(Base - 1) /\ Part(y, 1) \in 0..(Base - 1)
        /\ Part(x, 2) \in 0..(Base - 1) /\ Part(y, 2) \in 0..(Base - 1)
        /\ Part(x, 3) \in 0..(Base - 1) /\ Part(y, 3) \in 0..(Base - 1)
    BY <2>1
  <2> QED BY <2>2, ThreeDigits
<1>7. A \in Nat /\ C \in Nat
  BY <1>1
<1> DEFINE Below(x, y) ==
      \/ Part(x, 1) < Part(y, 1)
      \/ Part(x, 1) = Part(y, 1) /\ (Part(x, 2) < Part(y, 2) \/ (Part(x, 2) = Part(y, 2) /\ Part(x, 3) < Part(y, 3)))
<1>8. (Below(a, c) => A < C) /\ (Below(c, a) => C < A)
  BY <1>6
<1> HIDE DEF A, C
<1>9. (Below(a, c) => A < C) /\ (Below(c, a) => C < A /\ ~(A < C) /\ A > C)
  BY <1>7, <1>8
<1>10. differ # {} => /\ first \in differ /\ first \in 1..3 /\ \A j \in differ : first <= j
  <2> SUFFICES ASSUME differ # {} PROVE first \in differ /\ \A j \in differ : first <= j
    BY <1>2
  <2>1. \E i \in differ : \A j \in differ : i <= j
    BY <1>2
  <2> QED BY <2>1
<1>11. differ # {} => /\ Part(a, first) < Part(c, first) => Below(a, c)
                      /\ ~(Part(a, first) < Part(c, first)) => Below(c, a)
  <2> SUFFICES ASSUME differ # {} PROVE /\ Part(a, first) < Part(c, first) => Below(a, c)
                                        /\ ~(Part(a, first) < Part(c, first)) => Below(c, a)
    OBVIOUS
  <2> HIDE DEF differ, first
  <2>1. first \in 1..3 /\ Part(a, first) # Part(c, first) /\ \A i \in 1..3 : i < first => Part(a, i) = Part(c, i)
    <3>1. first \in 1..3 /\ first \in differ /\ \A j \in differ : first <= j
      BY <1>10
    <3> QED BY <1>3, <3>1
  <2>2. CASE first = 1
    BY <1>1, <2>1, <2>2
  <2>3. CASE first = 2
    BY <1>1, <2>1, <2>3
  <2>4. CASE first = 3
    BY <1>1, <2>1, <2>4
  <2> QED BY <2>1, <2>2, <2>3, <2>4
<1>12. differ = {} => ~(A < C) /\ ~(A > C)
  <2> SUFFICES ASSUME differ = {} PROVE A = C
    BY <1>7
  <2>1. Part(a, 1) = Part(c, 1) /\ Part(a, 2) = Part(c, 2) /\ Part(a, 3) = Part(c, 3)
    BY <1>3
  <2> QED BY <2>1 DEF A, C
<1> HIDE DEF differ, first, Below
<1>13. compareVersions(a, c) = (IF A < C THEN "less" ELSE IF A > C THEN "more" ELSE "same")
  BY <1>4, <1>9, <1>11, <1>12, Zenon
<1> QED BY <1>5, <1>13, Zenon

(* The inductive invariant: what is compared are versions. *)
LoadInv == versions # <<>> => versions[1] \in AllVersions /\ versions[2] \in AllVersions

(* What is loaded follows the rules of vendors and labels whatever the two definitions
   hold, and whatever versions are compared, they are compared as numbers: Merge,
   shouldMerge, validateMetricInfo and compareVersions, and when a merge panics. *)
THEOREM LoadsFollowTheRules == Spec => []LoadFollowsTheRules
<1>1. Init => LoadInv
  BY DEF Init, LoadInv
<1>2. LoadInv /\ [Next]_vars => LoadInv'
  <2> SUFFICES ASSUME LoadInv, [Next]_vars PROVE LoadInv'
    OBVIOUS
  <2>1. ASSUME NEW m, AddPrimary(m) \/ AddSecondary(m) \/ UNCHANGED vars PROVE LoadInv'
    BY <2>1 DEF LoadInv, AddPrimary, AddSecondary, vars, AllVersions
  <2>2. ASSUME NEW a \in AllVersions, NEW c \in AllVersions, Compare(a, c) PROVE LoadInv'
    BY <2>2 DEF LoadInv, Compare, AllVersions
  <2> QED BY <2>1, <2>2 DEF Next
<1>3. LoadInv => LoadFollowsTheRules
  BY LocalDefinitionIsSafe, NewSectionsPanic, AgentDefinitionWins, AmbiguityIsInIndexserver, VersionsAreNumbers DEF LoadInv, LoadFollowsTheRules
<1> QED
  BY <1>1, <1>2, <1>3, PTL DEF Spec

------------------------------------------------------------------------------------
(* ConfigureInstance: the settings that an invocation has passed. *)

(* The steps of an invocation from one on. *)
FromService == {"profile", "reapply", "verify", "finish"}
FromMkConfig == {"mkconfig", "service"} \cup FromService
FromGrub == {"grubNosmt"} \cup FromMkConfig
FromGrubLine == {"grub"} \cup FromGrub
FromModprobe == {"dracut"} \cup FromGrubLine
FromLogin == {"modprobe"} \cup FromModprobe
FromSystemd == {"login"} \cup FromLogin

(* A setting that was passed is as wanted, or was found by an invocation that only
   reports. *)
Settled(f) == file[f] = "ok" \/ (~Applies /\ f \in reboot)

(* What the settings are, and where the invocation is. *)
ConfigureTypes ==
    /\ file \in [Files -> {"ok", "stale"}]
    /\ service \in [{"sapconf", "tuner"} -> {"running", "stopped", "absent"}]
    /\ tuning \in [{"solution", "note"} -> {"ok", "stale"}]
    /\ nosmt \in NosmtPlaces
    /\ made \in [{"modprobe", "grub"} -> {"ok", "stale"}]
    /\ call.threads \in {"on", "off"}
    /\ step = "describe" => call.mode = "describe"
    /\ outcome = "success" => step = "ended"

(* The files that the invocation has passed. *)
PassedFiles ==
    /\ step \in FromSystemd => Settled("system.conf")
    /\ step \in FromLogin => Settled("logind.conf")
    /\ step \in FromModprobe => Settled("modprobe")
    /\ step \in FromGrub => Settled("grub")
    /\ step \in {"reapply", "verify", "finish"} /\ os # "other" => Settled("profile")

(* Hyper-threading, behind the line of the boot loader. *)
PassedThreads ==
    /\ step = "grubNosmt" /\ Applies /\ call.threads = "off" => nosmt # "absent"
    /\ step \in FromMkConfig /\ Applies => IF call.threads = "off" THEN nosmt # "absent" ELSE nosmt # "later"

(* What the machine boots with, behind dracut and grub2-mkconfig. *)
PassedMade ==
    /\ step \in FromGrubLine /\ Applies /\ "modprobe" \in reboot => made["modprobe"] = "ok"
    /\ step \in {"service"} \cup FromService /\ Applies => MadeOfFiles

(* The services and what the tuner applies, once they are passed. *)
PassedServices ==
    /\ step \in FromService /\ os # "other" => service["tuner"] = "running"
    /\ step \in FromService /\ os = "SLES" => service["sapconf"] = "stopped"
    /\ step = "finish" /\ os # "other" => tuning["note"] = "ok"
    /\ step = "finish" /\ os = "SLES" => tuning["solution"] = "ok"

(* The inductive invariant. *)
ConfigureInv ==
    /\ ConfigureTypes /\ PassedFiles /\ PassedThreads /\ PassedMade /\ PassedServices
    /\ SuccessIsCompliant

(* Before an invocation nothing is passed and nothing has succeeded. *)
LEMMA ConfigureInvInit == ConfigureInit => ConfigureInv
<1> SUFFICES ASSUME ConfigureInit PROVE ConfigureInv
  OBVIOUS
<1>1. ConfigureTypes
  <2>1. PICK s \in {"running", "stopped"}, t \in {"running", "stopped", "absent"} :
          service = [sapconf |-> s, tuner |-> t]
    BY DEF ConfigureInit
  <2>2. DOMAIN service = {"sapconf", "tuner"} /\ service = [d \in DOMAIN service |-> service[d]]
    BY <2>1
  <2>3. service["sapconf"] = s /\ service["tuner"] = t
    BY <2>1
  <2>4. service \in [{"sapconf", "tuner"} -> {"running", "stopped", "absent"}]
    BY <2>2, <2>3
  <2>5. tuning \in [{"solution", "note"} -> {"ok", "stale"}]
    BY DEF ConfigureInit
  <2>6. call.threads = "on" /\ file \in [Files -> {"ok", "stale"}]
    BY DEF ConfigureInit, NoCall
  <2>7. made \in [{"modprobe", "grub"} -> {"ok", "stale"}]
    BY DEF ConfigureInit
  <2> QED  BY <2>4, <2>5, <2>6, <2>7 DEF ConfigureInit, ConfigureTypes
<1>2. PassedFiles /\ PassedThreads /\ PassedMade /\ PassedServices
  BY DEF ConfigureInit, PassedFiles, PassedThreads, PassedMade, PassedServices, FromService, FromMkConfig,
         FromGrub, FromGrubLine, FromModprobe, FromLogin, FromSystemd
<1>3. SuccessIsCompliant
  BY DEF ConfigureInit, SuccessIsCompliant, Ended
<1> QED  BY <1>1, <1>2, <1>3 DEF ConfigureInv

(* checkAndRegenerateFile and its siblings: the file it has gone over is settled,
   and every other file stays as it was. *)
LEMMA RegenerateSettles ==
  ASSUME ConfigureTypes, NEW f \in Files, NEW onward, onward # "ended", Regenerate(f, onward),
         UNCHANGED call
  PROVE  /\ file' \in [Files -> {"ok", "stale"}]
         /\ \A g \in Files : Settled(g) => Settled(g)'
         /\ \/ step' = onward /\ outcome' = outcome /\ Settled(f)'
            \/ step' = "ended" /\ outcome' = "failure"
<1>1. file \in [Files -> {"ok", "stale"}] /\ (Applies' <=> Applies)
  BY DEF ConfigureTypes, Applies
<1>2. CASE file[f] = "ok"
  BY <1>1, <1>2 DEF Regenerate, Goes, Settled
<1>3. CASE file[f] # "ok" /\ Fails
  BY <1>1, <1>3 DEF Regenerate, Fails, Goes, Settled
<1>4. CASE file[f] # "ok" /\ ~Fails
  <2>1. /\ step' = onward /\ outcome' = outcome /\ reboot' = reboot \cup {f}
        /\ file' = IF Applies THEN [file EXCEPT ![f] = "ok"] ELSE file
    BY <1>4 DEF Regenerate, Goes
  <2> QED  BY <1>1, <2>1 DEF Settled
<1> QED  BY <1>2, <1>3, <1>4

(* What was made stays as it is along a step that makes nothing and finds no other file
   of it out of date. *)
LEMMA MadeKeeps ==
  ASSUME PassedMade, UNCHANGED <<call, nosmt, grubLine, made, madeNosmt>>,
         reboot \subseteq reboot', "modprobe" \in reboot' => "modprobe" \in reboot, "grub" \in reboot' => "grub" \in reboot,
         step' \in FromGrubLine => step \in FromGrubLine,
         step' \in {"service"} \cup FromService => step \in {"service"} \cup FromService
  PROVE  PassedMade' /\ (MadeOfFiles' <=> MadeOfFiles)
<1>1. MadeOfFiles' <=> MadeOfFiles
  BY DEF MadeOfFiles, BootsNosmt
<1>2. (Applies' <=> Applies) /\ ("modprobe" \in reboot' <=> "modprobe" \in reboot)
  BY DEF Applies
<1> QED  BY <1>1, <1>2 DEF PassedMade

(* The actions that compare and rewrite the files of systemd and modprobe. *)
LEMMA SystemdKeeps == ConfigureInv /\ Systemd => ConfigureInv'
<1> SUFFICES ASSUME ConfigureInv, Systemd PROVE ConfigureInv'
  OBVIOUS
<1>1. ConfigureTypes /\ PassedFiles /\ UNCHANGED <<os, call, nosmt, made, service, tuning>>
  BY DEF ConfigureInv, Systemd
<1>2. /\ file' \in [Files -> {"ok", "stale"}]
      /\ \A g \in Files : Settled(g) => Settled(g)'
      /\ \/ step = "systemd" /\ step' = "login" /\ Settled("system.conf")'
         \/ step = "login" /\ step' = "modprobe" /\ Settled("logind.conf")'
         \/ step = "modprobe" /\ step' = "dracut" /\ Settled("modprobe")'
         \/ step' = "ended" /\ outcome' = "failure"
      /\ outcome' = "success" => outcome = "success"
  <2>1. CASE step = "systemd"
    BY <1>1, <2>1, RegenerateSettles DEF Systemd, Files
  <2>2. CASE step = "login"
    BY <1>1, <2>2, RegenerateSettles DEF Systemd, Files
  <2>3. CASE step = "modprobe"
    BY <1>1, <2>3, RegenerateSettles DEF Systemd, Files
  <2> QED  BY <2>1, <2>2, <2>3 DEF Systemd
<1>3. ConfigureTypes'
  BY <1>1, <1>2 DEF ConfigureTypes
<1>4. PassedFiles'
  BY <1>1, <1>2 DEF PassedFiles, Files, FromService, FromMkConfig, FromGrub, FromGrubLine, FromModprobe,
                    FromLogin, FromSystemd
<1>5. PassedThreads' /\ PassedMade' /\ PassedServices'
  BY <1>2 DEF PassedThreads, PassedMade, PassedServices, FromService, FromMkConfig, FromGrub, FromGrubLine
<1>6. SuccessIsCompliant'
  BY <1>2 DEF SuccessIsCompliant, Ended
<1> QED  BY <1>3, <1>4, <1>5, <1>6 DEF ConfigureInv

(* Invoke, describe and Drift: an invocation that begins has passed nothing. *)
LEMMA InvokeKeeps == ConfigureInv /\ (Invoke \/ Drift) => ConfigureInv'
<1> SUFFICES ASSUME ConfigureInv, Invoke \/ Drift PROVE ConfigureInv'
  OBVIOUS
<1>1. step' \in {"idle", "describe", "systemd"} /\ outcome' = "none"
  BY DEF Invoke, Drift
<1>2. ConfigureTypes'
  <2>1. CASE Invoke
    BY <2>1 DEF Invoke, ConfigureInv, ConfigureTypes, machine
  <2>2. CASE Drift
    BY <2>2 DEF Drift, NoCall, ConfigureInv, ConfigureTypes
  <2> QED  BY <2>1, <2>2
<1>3. PassedFiles' /\ PassedThreads' /\ PassedMade' /\ PassedServices' /\ SuccessIsCompliant'
  BY <1>1 DEF PassedFiles, PassedThreads, PassedMade, PassedServices, SuccessIsCompliant, Ended, FromService,
              FromMkConfig, FromGrub, FromGrubLine, FromModprobe, FromLogin, FromSystemd
<1> QED  BY <1>2, <1>3 DEF ConfigureInv

(* describe reports, and neither applies nor checks anything. *)
LEMMA DescribeKeeps == ConfigureInv /\ (DescribeX4 \/ DescribeX5) => ConfigureInv'
<1> SUFFICES ASSUME ConfigureInv, DescribeX4 \/ DescribeX5 PROVE ConfigureInv'
  OBVIOUS
<1>1. /\ step = "describe" /\ step' = "ended" /\ UNCHANGED <<call, file, nosmt, made, service, tuning>>
      /\ ConfigureTypes
  BY DEF DescribeX4, DescribeX5, machine, ConfigureInv
<1>2. ConfigureTypes' /\ call'.mode = "describe"
  BY <1>1 DEF ConfigureTypes
<1>3. PassedFiles' /\ PassedThreads' /\ PassedMade' /\ PassedServices' /\ SuccessIsCompliant'
  BY <1>1, <1>2 DEF PassedFiles, PassedThreads, PassedMade, PassedServices, SuccessIsCompliant, Ended,
            FromService, FromMkConfig, FromGrub, FromGrubLine, FromModprobe, FromLogin, FromSystemd
<1> QED  BY <1>2, <1>3 DEF ConfigureInv

(* dracut and grub2-mkconfig make what the machine boots with, and change no setting. *)
LEMMA MakersKeep == ConfigureInv /\ (Dracut \/ MkConfig) => ConfigureInv'
<1> SUFFICES ASSUME ConfigureInv, Dracut \/ MkConfig PROVE ConfigureInv'
  OBVIOUS
<1>1. /\ ConfigureTypes /\ UNCHANGED <<os, call, reboot, file, nosmt, grubLine, service, tuning>>
      /\ \/ step = "dracut" /\ step' = "grub" /\ outcome' = outcome
         \/ step = "mkconfig" /\ step' = "service" /\ outcome' = outcome
         \/ step' = "ended" /\ outcome' = "failure"
  <2>1. CASE Dracut
    BY <2>1 DEF Dracut, Goes, Fails, ConfigureInv
  <2>2. CASE MkConfig
    BY <2>2 DEF MkConfig, Goes, Fails, ConfigureInv
  <2> QED  BY <2>1, <2>2
<1>2. (Applies' <=> Applies) /\ \A f \in Files : Settled(f)' <=> Settled(f)
  BY <1>1 DEF Settled, Applies
<1>3. PassedFiles'
  BY <1>1, <1>2 DEF ConfigureInv, PassedFiles, Files, FromService, FromMkConfig, FromGrub, FromGrubLine,
                    FromModprobe, FromLogin, FromSystemd
<1>4. made' \in [{"modprobe", "grub"} -> {"ok", "stale"}]
  <2>1. made \in [{"modprobe", "grub"} -> {"ok", "stale"}] /\ file["modprobe"] \in {"ok", "stale"} /\ file["grub"] \in {"ok", "stale"}
    BY <1>1 DEF ConfigureTypes, Files
  <2>2. \/ made' = made
        \/ made' = [made EXCEPT !["modprobe"] = file["modprobe"]]
        \/ made' = [made EXCEPT !["grub"] = file["grub"]]
        \/ made' = [made EXCEPT !["grub"] = "stale"]
    BY DEF Dracut, MkConfig
  <2> QED  BY <2>1, <2>2
<1>5. ConfigureTypes' /\ PassedThreads' /\ PassedServices' /\ SuccessIsCompliant'
  BY <1>1, <1>2, <1>4 DEF ConfigureInv, ConfigureTypes, PassedThreads, PassedServices, SuccessIsCompliant,
              Ended, Applies, FromService, FromMkConfig, Compliant
<1>6. PassedMade'
  <2>1. CASE step' = "ended"
    BY <2>1 DEF PassedMade, FromGrubLine, FromGrub, FromMkConfig, FromService
  <2>2. CASE Dracut /\ step' = "grub"
    <3>1. Applies /\ "modprobe" \in reboot => file["modprobe"] = "ok"
      BY <2>2, <1>1, <1>3, <1>2 DEF ConfigureInv, PassedFiles, Settled, Dracut, FromModprobe, FromGrubLine
    <3>2. Applies /\ "modprobe" \in reboot => made' = [made EXCEPT !["modprobe"] = file["modprobe"]]
      BY <2>2 DEF Dracut, Fails
    <3>3. made \in [{"modprobe", "grub"} -> {"ok", "stale"}]
      BY <1>1 DEF ConfigureTypes
    <3> QED  BY <2>2, <1>1, <1>2, <3>1, <3>2, <3>3 DEF PassedMade, FromService
  <2>3. CASE MkConfig /\ step' = "service"
    <3>1. Applies /\ "grub" \in reboot => file["grub"] = "ok"
      BY <2>3 DEF ConfigureInv, PassedFiles, Settled, MkConfig, FromGrub, FromMkConfig
    <3>2. Applies /\ "modprobe" \in reboot => made["modprobe"] = "ok"
      BY <2>3 DEF ConfigureInv, PassedMade, MkConfig, FromGrubLine, FromGrub, FromMkConfig
    <3>3. IF Applies /\ "grub" \in reboot
            THEN /\ madeNosmt' = BootsNosmt
                 /\ made' = [made EXCEPT !["grub"] = IF grubLine = "active" THEN file["grub"] ELSE "stale"]
            ELSE UNCHANGED <<made, madeNosmt>>
      BY <2>3 DEF MkConfig, Fails
    <3>4. made \in [{"modprobe", "grub"} -> {"ok", "stale"}]
      BY <1>1 DEF ConfigureTypes
    <3>5. Applies => /\ "modprobe" \in reboot => made'["modprobe"] = "ok"
                     /\ "grub" \in reboot => made'["grub"] = (IF grubLine = "active" THEN "ok" ELSE "stale")
      BY <3>1, <3>2, <3>3, <3>4
    <3>6. BootsNosmt' = BootsNosmt
      BY <1>1 DEF BootsNosmt
    <3> QED  BY <1>1, <1>2, <3>3, <3>5, <3>6 DEF PassedMade, MadeOfFiles
  <2> QED  BY <1>1, <2>1, <2>2, <2>3 DEF Dracut, MkConfig
<1> QED  BY <1>3, <1>5, <1>6 DEF ConfigureInv

(* The line of the kernel: with -apply it then has nosmt when hyper threading is to
   be off, whatever earlier invocations of the daemon left in grubLinuxDefault. *)
LEMMA GrubLineKeeps == ConfigureInv /\ GrubLine => ConfigureInv'
<1> SUFFICES ASSUME ConfigureInv, GrubLine PROVE ConfigureInv'
  OBVIOUS
<1>1. /\ ConfigureTypes /\ PassedFiles /\ PassedMade /\ step = "grub"
      /\ UNCHANGED <<os, call, grubLine, made, madeNosmt, service, tuning>> /\ (Applies' <=> Applies)
  BY DEF ConfigureInv, GrubLine, Applies
<1>2. \/ step' = "ended" /\ outcome' = "failure" /\ UNCHANGED <<file, nosmt>>
      \/ /\ step' = "grubNosmt" /\ outcome' = outcome
         /\ \/ file["grub"] = "ok" /\ (Wanted => nosmt # "absent") /\ UNCHANGED <<file, nosmt, reboot>>
            \/ /\ Applies /\ file' = [file EXCEPT !["grub"] = "ok"] /\ reboot' = reboot \cup {"grub"}
               /\ nosmt' = IF Wanted /\ nosmt = "absent" THEN "later" ELSE nosmt
            \/ ~Applies /\ UNCHANGED <<file, nosmt>> /\ reboot' = reboot \cup {"grub"}
  <2>1. CASE file["grub"] = "ok" /\ (Wanted => nosmt # "absent")
    BY <2>1 DEF GrubLine, Goes
  <2>2. CASE ~(file["grub"] = "ok" /\ (Wanted => nosmt # "absent"))
    BY <2>2 DEF GrubLine, Goes, Fails
  <2> QED  BY <2>1, <2>2
<1>3. \/ step' = "ended" /\ outcome' = "failure"
      \/ /\ step' = "grubNosmt" /\ outcome' = outcome
         /\ \A f \in Files : Settled(f) => Settled(f)'
         /\ Settled("grub")'
  BY <1>1, <1>2 DEF Settled, ConfigureTypes, Files
<1>4. step' = "grubNosmt" /\ Applies' /\ call'.threads = "off" => nosmt' # "absent"
  <2>1. Applies /\ call.threads = "off" => Wanted
    BY DEF Wanted
  <2> QED  BY <1>1, <1>2, <2>1
<1>5. ConfigureTypes'
  <2>1. nosmt' \in NosmtPlaces
    BY <1>1, <1>2 DEF ConfigureTypes, NosmtPlaces
  <2>2. file' \in [Files -> {"ok", "stale"}]
    BY <1>1, <1>2 DEF ConfigureTypes, Files
  <2> QED  BY <1>1, <1>3, <2>1, <2>2 DEF ConfigureTypes
<1>6. PassedFiles'
  BY <1>1, <1>3 DEF PassedFiles, Files, FromService, FromMkConfig, FromGrub, FromGrubLine, FromModprobe,
                    FromLogin, FromSystemd
<1>7. PassedMade'
  <2>1. step \in FromGrubLine /\ step' \notin {"service"} \cup FromService
    BY <1>1, <1>2 DEF FromGrubLine, FromService
  <2>2. step' \in FromGrubLine /\ "modprobe" \in reboot' => "modprobe" \in reboot
    BY <1>2 DEF FromGrubLine, FromGrub, FromMkConfig, FromService
  <2> QED  BY <1>1, <2>1, <2>2 DEF PassedMade
<1>8. PassedThreads' /\ PassedServices' /\ SuccessIsCompliant'
  BY <1>1, <1>3, <1>4 DEF PassedThreads, PassedServices, SuccessIsCompliant, Ended, FromService,
                    FromMkConfig, ConfigureTypes
<1> QED  BY <1>5, <1>6, <1>7, <1>8 DEF ConfigureInv

(* removeValues: with -apply and hyper threading on, nosmt is gone afterwards, or stands
   right behind the quote. *)
LEMMA GrubNosmtKeeps == ConfigureInv /\ GrubNosmt => ConfigureInv'
<1> SUFFICES ASSUME ConfigureInv, GrubNosmt PROVE ConfigureInv'
  OBVIOUS
<1>1. /\ ConfigureTypes /\ PassedFiles /\ PassedThreads /\ PassedMade /\ step = "grubNosmt"
      /\ UNCHANGED <<os, call, file, made, madeNosmt, service, tuning>> /\ (Applies' <=> Applies)
  BY DEF ConfigureInv, GrubNosmt, Applies
<1>2. \/ step' = "ended" /\ outcome' = "failure" /\ UNCHANGED <<nosmt, reboot>>
      \/ /\ step' = "mkconfig" /\ outcome' = outcome
         /\ \/ /\ Applies /\ call.threads = "on" /\ reboot' = reboot \cup {"grub"}
               /\ nosmt' = IF nosmt = "later" THEN "absent" ELSE nosmt
            \/ ~(Applies /\ call.threads = "on" /\ nosmt # "absent") /\ UNCHANGED <<nosmt, reboot>>
  <2>1. CASE Applies /\ call.threads = "on" /\ nosmt # "absent"
    BY <2>1 DEF GrubNosmt, Goes, Fails
  <2>2. CASE ~(Applies /\ call.threads = "on" /\ nosmt # "absent")
    BY <2>2 DEF GrubNosmt, Goes
  <2> QED  BY <2>1, <2>2
<1>3. ConfigureTypes'
  <2>1. nosmt' \in NosmtPlaces
    BY <1>1, <1>2 DEF ConfigureTypes, NosmtPlaces
  <2> QED  BY <1>1, <1>2, <2>1 DEF ConfigureTypes
<1>4. \A f \in Files : Settled(f) => Settled(f)'
  BY <1>1, <1>2 DEF Settled
<1>5. PassedFiles'
  BY <1>1, <1>2, <1>4 DEF PassedFiles, Files, FromService, FromMkConfig, FromGrub, FromGrubLine, FromModprobe,
                    FromLogin, FromSystemd
<1>6. step' = "mkconfig" /\ Applies' => IF call'.threads = "off" THEN nosmt' # "absent" ELSE nosmt' # "later"
  BY <1>1, <1>2 DEF PassedThreads, ConfigureTypes
<1>7. PassedMade'
  <2>1. step \in FromGrubLine /\ step' \notin {"service"} \cup FromService
    BY <1>1, <1>2 DEF FromGrubLine, FromGrub, FromService
  <2>2. "modprobe" \in reboot' => "modprobe" \in reboot
    BY <1>2
  <2> QED  BY <1>1, <2>1, <2>2 DEF PassedMade
<1>8. PassedThreads' /\ PassedServices' /\ SuccessIsCompliant'
  BY <1>1, <1>2, <1>6 DEF PassedThreads, PassedServices, SuccessIsCompliant, Ended, FromService,
                    FromMkConfig
<1> QED  BY <1>3, <1>5, <1>7, <1>8 DEF ConfigureInv

(* The file of the saptune note, or of the tuned profile. *)
LEMMA ProfileKeeps == ConfigureInv /\ Profile => ConfigureInv'
<1> SUFFICES ASSUME ConfigureInv, Profile PROVE ConfigureInv'
  OBVIOUS
<1>1. /\ ConfigureTypes /\ PassedFiles /\ PassedThreads /\ PassedMade /\ PassedServices /\ step = "profile"
      /\ UNCHANGED <<os, call, nosmt, grubLine, made, madeNosmt, service, tuning>> /\ (Applies' <=> Applies)
      /\ reboot \subseteq reboot' /\ reboot' \subseteq reboot \cup {"profile"}
  BY DEF ConfigureInv, Profile, Applies, Regenerate, Goes, Fails
<1>2. /\ file' \in [Files -> {"ok", "stale"}]
      /\ \A g \in Files : Settled(g) => Settled(g)'
      /\ \/ step' = "reapply" /\ outcome' = outcome /\ Settled("profile")'
         \/ step' = "ended" /\ outcome' = "failure"
  BY <1>1, RegenerateSettles DEF Profile, Files
<1>3. ConfigureTypes'
  BY <1>1, <1>2 DEF ConfigureTypes
<1>4. PassedFiles'
  BY <1>1, <1>2 DEF PassedFiles, Files, FromService, FromMkConfig, FromGrub, FromGrubLine, FromModprobe,
                    FromLogin, FromSystemd
<1>5. PassedMade'
  BY <1>1, <1>2, MadeKeeps DEF FromGrubLine, FromGrub, FromMkConfig, FromService
<1>6. PassedThreads' /\ PassedServices' /\ SuccessIsCompliant'
  BY <1>1, <1>2 DEF PassedThreads, PassedServices, SuccessIsCompliant, Ended, FromService,
                    FromMkConfig
<1> QED  BY <1>3, <1>4, <1>5, <1>6 DEF ConfigureInv

(* saptuneVerify and tuned-adm verify pass only a tuning that is in effect. *)
LEMMA VerifyKeeps == ConfigureInv /\ Verify => ConfigureInv'
<1> SUFFICES ASSUME ConfigureInv, Verify PROVE ConfigureInv'
  OBVIOUS
<1>1. /\ step = "verify" /\ UNCHANGED <<os, call, reboot, file, nosmt, grubLine, made, madeNosmt, service, tuning>>
      /\ \/ step' = "ended" /\ outcome' = "failure"
         \/ /\ step' = "finish" /\ outcome' = outcome
            /\ tuning["note"] = "ok" /\ (os = "SLES" => tuning["solution"] = "ok")
  BY DEF Verify, Goes, Fails, machine
<1>2. \A f \in Files : Settled(f)' <=> Settled(f)
  BY <1>1 DEF Settled, Applies
<1>3. ConfigureTypes' /\ PassedThreads' /\ PassedServices' /\ SuccessIsCompliant'
  BY <1>1 DEF ConfigureInv, ConfigureTypes, PassedThreads, PassedServices, SuccessIsCompliant,
              Ended, Applies, FromService, FromMkConfig
<1>4. PassedFiles'
  BY <1>1, <1>2 DEF ConfigureInv, PassedFiles, Files, FromService, FromMkConfig, FromGrub, FromGrubLine,
                    FromModprobe, FromLogin, FromSystemd
<1>5. PassedMade'
  BY <1>1, MadeKeeps DEF ConfigureInv, FromGrubLine, FromGrub, FromMkConfig, FromService
<1> QED  BY <1>3, <1>4, <1>5 DEF ConfigureInv

(* An invocation that reports success has passed every setting: -apply has made each
   as wanted, and a check has found no reason to reboot. *)
LEMMA FinishKeeps == ConfigureInv /\ Finish => ConfigureInv'
<1> SUFFICES ASSUME ConfigureInv, Finish PROVE ConfigureInv'
  OBVIOUS
<1>1. /\ step = "finish" /\ step' = "ended"
      /\ UNCHANGED <<os, call, reboot, file, nosmt, grubLine, made, madeNosmt, service, tuning>>
      /\ outcome' = IF ~Applies /\ reboot # {} THEN "failure" ELSE "success"
      /\ ConfigureTypes /\ PassedFiles /\ PassedThreads /\ PassedMade /\ PassedServices
  BY DEF ConfigureInv, Finish, machine
<1>2. outcome' = "success" => \A f \in Files : Settled(f) => file[f] = "ok"
  BY <1>1 DEF Settled
<1>3. /\ \A f \in Files \ {"profile"} : Settled(f)
      /\ os # "other" => Settled("profile")
  BY <1>1 DEF PassedFiles, Files, FromService, FromMkConfig, FromGrub, FromGrubLine, FromModprobe, FromLogin,
              FromSystemd
<1>4. outcome' = "success" => Compliant
  <2> SUFFICES ASSUME outcome' = "success" PROVE Compliant
    OBVIOUS
  <2>1. /\ \A f \in Files \ {"profile"} : file[f] = "ok"
        /\ os # "other" => file["profile"] = "ok"
    BY <1>2, <1>3 DEF Files
  <2>2. /\ os # "other" => service["tuner"] = "running" /\ tuning["note"] = "ok"
        /\ os = "SLES" => service["sapconf"] = "stopped" /\ tuning["solution"] = "ok"
    BY <1>1 DEF PassedServices, FromService
  <2> QED  BY <2>1, <2>2 DEF Compliant
<1>5. Compliant' <=> Compliant
  BY <1>1 DEF Compliant
<1>6. PassedMade' /\ (MadeOfFiles' <=> MadeOfFiles)
  BY <1>1, MadeKeeps DEF FromGrubLine, FromGrub, FromMkConfig, FromService
<1>7. Ended("apply")' => /\ MadeOfFiles'
                         /\ IF call'.threads = "off" THEN nosmt' # "absent" ELSE nosmt' # "later"
  BY <1>1, <1>6 DEF Ended, PassedThreads, PassedMade, Applies, FromMkConfig, FromService
<1>8. SuccessIsCompliant'
  BY <1>4, <1>5, <1>7 DEF SuccessIsCompliant, Ended
<1>9. ConfigureTypes' /\ PassedFiles' /\ PassedThreads' /\ PassedServices'
  BY <1>1 DEF ConfigureTypes, PassedFiles, PassedThreads, PassedServices, FromService,
              FromMkConfig, FromGrub, FromGrubLine, FromModprobe, FromLogin, FromSystemd
<1> QED  BY <1>6, <1>8, <1>9 DEF ConfigureInv

(* saptuneService and tunedService: the steps after it find the tuning service
   running, and on SLES sapconf stopped. *)
LEMMA ServiceRuns ==
  ASSUME ConfigureTypes, os # "other",
         IF os = "SLES" THEN SaptuneService ELSE TunedService
  PROVE  /\ service' \in [{"sapconf", "tuner"} -> {"running", "stopped", "absent"}]
         /\ \/ step' = "ended" /\ outcome' = "failure"
            \/ step' = "service" /\ outcome' = outcome
            \/ /\ step' = "profile" /\ outcome' = outcome
               /\ service'["tuner"] = "running"
               /\ os = "SLES" => service'["sapconf"] = "stopped"
<1>1. service \in [{"sapconf", "tuner"} -> {"running", "stopped", "absent"}]
  BY DEF ConfigureTypes
<1>2. ASSUME TunerRuns
      PROVE  /\ service' \in [{"sapconf", "tuner"} -> {"running", "stopped", "absent"}]
             /\ service'["sapconf"] = service["sapconf"]
             /\ \/ step' = "ended" /\ outcome' = "failure"
                \/ step' = "profile" /\ outcome' = outcome /\ service'["tuner"] = "running"
  BY <1>1, <1>2 DEF TunerRuns, Goes, Fails
<1>3. CASE os = "SLES"
  BY <1>1, <1>2, <1>3 DEF SaptuneService, Goes, Fails
<1>4. CASE os # "SLES"
  BY <1>2, <1>4 DEF TunedService
<1> QED  BY <1>3, <1>4

(* saptuneReapply and tunedReapply: the tuning goes to its verification, or the
   command ends with a failure. *)
LEMMA ReapplyGoes ==
  ASSUME ConfigureTypes, IF os = "SLES" THEN SaptuneReapply ELSE TunedReapply
  PROVE  /\ tuning' \in [{"solution", "note"} -> {"ok", "stale"}]
         /\ reboot \subseteq reboot' /\ reboot' \subseteq reboot \cup {"solution", "note"}
         /\ \/ step' = "ended" /\ outcome' = "failure"
            \/ step' = "verify" /\ outcome' = outcome
<1>1. tuning \in [{"solution", "note"} -> {"ok", "stale"}]
  BY DEF ConfigureTypes
<1>2. \A n \in {"ok", "stale"} :
        [solution |-> "ok", note |-> n] \in [{"solution", "note"} -> {"ok", "stale"}]
  <2> TAKE n \in {"ok", "stale"}
  <2> DEFINE r == [solution |-> "ok", note |-> n]
  <2>1. DOMAIN r = {"solution", "note"} /\ r = [d \in DOMAIN r |-> r[d]]
    OBVIOUS
  <2>2. r["solution"] = "ok" /\ r["note"] = n
    OBVIOUS
  <2> HIDE DEF r
  <2> QED  BY <2>1, <2>2 DEF r
<1>3. tuning["note"] \in {"ok", "stale"}
  BY <1>1
<1>4. CASE os = "SLES"
  <2>1. tuning' \in [{"solution", "note"} -> {"ok", "stale"}]
    BY <1>1, <1>2, <1>3, <1>4 DEF SaptuneReapply
  <2> QED  BY <1>4, <2>1 DEF SaptuneReapply, Goes, Fails
<1>5. CASE os # "SLES"
  <2>1. tuning' \in [{"solution", "note"} -> {"ok", "stale"}]
    BY <1>1, <1>5 DEF TunedReapply
  <2> QED  BY <1>5, <2>1 DEF TunedReapply, Goes, Fails
<1> QED  BY <1>4, <1>5

(* The service and the tuning of one machine series: whatever ends an invocation
   early ends it with a failure, and the services that it passed run. *)
LEMMA SeriesKeeps == ConfigureInv /\ (ConfigureX4 \/ ConfigureX5) => ConfigureInv'
<1> SUFFICES ASSUME ConfigureInv, ConfigureX4 \/ ConfigureX5 PROVE ConfigureInv'
  OBVIOUS
<1>1. /\ ConfigureTypes /\ PassedFiles /\ PassedThreads /\ PassedMade /\ PassedServices
      /\ UNCHANGED <<os, call, file, nosmt, grubLine, made, madeNosmt>> /\ (Applies' <=> Applies)
  BY DEF ConfigureInv, ConfigureX4, ConfigureX5, Applies
<1>2. \/ os = "other" /\ step = "service" /\ Goes("finish") /\ UNCHANGED <<service, reboot, tuning>>
      \/ /\ os # "other" /\ step = "service" /\ UNCHANGED <<reboot, tuning>>
         /\ IF os = "SLES" THEN SaptuneService ELSE TunedService
      \/ /\ os # "other" /\ step = "reapply" /\ UNCHANGED service
         /\ IF os = "SLES" THEN SaptuneReapply ELSE TunedReapply
  BY DEF ConfigureX4, ConfigureX5, ServiceX4, ServiceX5, ReapplyX4, ReapplyX5
<1>3. CASE os = "other" /\ step = "service" /\ Goes("finish")
           /\ UNCHANGED <<service, reboot, tuning>>
  <2>1. step' = "finish" /\ outcome' = outcome /\ \A f \in Files : Settled(f) => Settled(f)'
    BY <1>1, <1>3 DEF Goes, Settled
  <2>2. ConfigureTypes' /\ PassedThreads' /\ PassedServices' /\ SuccessIsCompliant'
    BY <1>1, <1>3, <2>1 DEF ConfigureTypes, PassedThreads, PassedServices, SuccessIsCompliant,
                       Ended, FromService, FromMkConfig
  <2>3. PassedFiles'
    BY <1>1, <1>3, <2>1 DEF PassedFiles, Files, FromService, FromMkConfig, FromGrub, FromGrubLine, FromModprobe,
                       FromLogin, FromSystemd
  <2>4. PassedMade'
    BY <1>1, <1>3, <2>1, MadeKeeps DEF FromGrubLine, FromGrub, FromMkConfig, FromService
  <2> QED  BY <2>2, <2>3, <2>4 DEF ConfigureInv
<1>4. CASE /\ os # "other" /\ step = "service" /\ UNCHANGED <<reboot, tuning>>
           /\ IF os = "SLES" THEN SaptuneService ELSE TunedService
  <2>1. /\ service' \in [{"sapconf", "tuner"} -> {"running", "stopped", "absent"}]
        /\ \/ step' = "ended" /\ outcome' = "failure"
           \/ step' = "service" /\ outcome' = outcome
           \/ /\ step' = "profile" /\ outcome' = outcome
              /\ service'["tuner"] = "running"
              /\ os = "SLES" => service'["sapconf"] = "stopped"
    BY <1>1, <1>4, ServiceRuns
  <2>2. \A f \in Files : Settled(f) => Settled(f)'
    BY <1>1, <1>4 DEF Settled
  <2>3. ConfigureTypes' /\ PassedThreads' /\ PassedServices' /\ SuccessIsCompliant'
    BY <1>1, <1>4, <2>1 DEF ConfigureTypes, PassedThreads, PassedServices, SuccessIsCompliant,
                       Ended, FromService, FromMkConfig
  <2>4. PassedFiles'
    BY <1>1, <1>4, <2>1, <2>2 DEF PassedFiles, Files, FromService, FromMkConfig, FromGrub, FromGrubLine,
                       FromModprobe, FromLogin, FromSystemd
  <2>5. PassedMade'
    BY <1>1, <1>4, <2>1, MadeKeeps DEF FromGrubLine, FromGrub, FromMkConfig, FromService
  <2> QED  BY <2>3, <2>4, <2>5 DEF ConfigureInv
<1>5. CASE /\ os # "other" /\ step = "reapply" /\ UNCHANGED service
           /\ IF os = "SLES" THEN SaptuneReapply ELSE TunedReapply
  <2>1. /\ tuning' \in [{"solution", "note"} -> {"ok", "stale"}]
        /\ reboot \subseteq reboot' /\ reboot' \subseteq reboot \cup {"solution", "note"}
        /\ \/ step' = "ended" /\ outcome' = "failure"
           \/ step' = "verify" /\ outcome' = outcome
    BY <1>1, <1>5, ReapplyGoes
  <2>2. \A f \in Files : Settled(f) => Settled(f)'
    BY <1>1, <2>1 DEF Settled
  <2>3. ConfigureTypes' /\ PassedThreads' /\ PassedServices' /\ SuccessIsCompliant'
    BY <1>1, <1>5, <2>1 DEF ConfigureTypes, PassedThreads, PassedServices, SuccessIsCompliant,
                       Ended, FromService, FromMkConfig
  <2>4. PassedFiles'
    BY <1>1, <1>5, <2>1, <2>2 DEF PassedFiles, Files, FromService, FromMkConfig, FromGrub, FromGrubLine,
                       FromModprobe, FromLogin, FromSystemd
  <2>5. PassedMade'
    BY <1>1, <1>5, <2>1, MadeKeeps DEF FromGrubLine, FromGrub, FromMkConfig, FromService
  <2> QED  BY <2>3, <2>4, <2>5 DEF ConfigureInv
<1> QED  BY <1>2, <1>3, <1>4, <1>5

(* Every step of configureinstance and of those who edit the machine between its
   invocations, one line per handler. *)
LEMMA ConfigureInvNext == ConfigureInv /\ [ConfigureNext]_ciVars => ConfigureInv'
<1> SUFFICES ASSUME ConfigureInv, [ConfigureNext]_ciVars PROVE ConfigureInv'
  OBVIOUS
<1>1. CASE Invoke \/ Drift
  BY <1>1, InvokeKeeps
<1>2. CASE Systemd
  BY <1>2, SystemdKeeps
<1>3. CASE Dracut \/ MkConfig
  BY <1>3, MakersKeep
<1>4. CASE GrubLine
  BY <1>4, GrubLineKeeps
<1>5. CASE GrubNosmt
  BY <1>5, GrubNosmtKeeps
<1>6. CASE Profile
  BY <1>6, ProfileKeeps
<1>7. CASE Verify
  BY <1>7, VerifyKeeps
<1>8. CASE Finish
  BY <1>8, FinishKeeps
<1>9. CASE ConfigureX4 \/ ConfigureX5
  BY <1>9, SeriesKeeps
<1>10. CASE DescribeX4 \/ DescribeX5
  BY <1>10, DescribeKeeps
<1>11. CASE UNCHANGED ciVars
  BY <1>11 DEF ciVars, machine, ConfigureInv, ConfigureTypes, PassedFiles, PassedThreads,
     PassedMade, MadeOfFiles, BootsNosmt, PassedServices, SuccessIsCompliant, Ended, Compliant, Settled, Applies, FromService,
     FromMkConfig, FromGrub, FromGrubLine, FromModprobe, FromLogin, FromSystemd
<1> QED
  BY <1>1, <1>2, <1>3, <1>4, <1>5, <1>6, <1>7, <1>8, <1>9, <1>10, <1>11 DEF ConfigureNext

(* configureInstanceHandler reports success of a compliant machine only, whose boot is
   made of what was changed, on every machine series and system, after whatever failed
   invocations and edits came before; nosmt it leaves only right behind the quote. *)
THEOREM ConfigureSuccess == ConfigureSpec => []SuccessIsCompliant
<1>1. ConfigureInv => SuccessIsCompliant
  BY DEF ConfigureInv
<1> QED
  BY <1>1, ConfigureInvInit, ConfigureInvNext, PTL DEF ConfigureSpec

------------------------------------------------------------------------------------
(* LogCollection: what a published event leads to. *)

(* Who may have made a bundle of the name n: runs of that name, and none of them only
   if the bundle is of the past. *)
Makers(n) ==
    {by \in SUBSET Runs :
       (\A p \in by : Name[p] = n) /\ (by = {} => \E k \in DOMAIN Old : Old[k] = n)}
ZipsOf(n) == [by : Makers(n), full : BOOLEAN]
DirectoriesOf(n) == [by : Makers(n), full : BOOLEAN, zip : ZipsOf(n) \cup {None}]

(* A function that has one of the values Of(n) at each n. *)
DirsTyped == dirs = [n \in DOMAIN dirs |-> dirs[n]] /\ \A n \in DOMAIN dirs : dirs[n] \in DirectoriesOf(n)
TempsTyped == temps = [n \in DOMAIN temps |-> temps[n]] /\ \A n \in DOMAIN temps : temps[n] \in ZipsOf(n)
BucketTyped == bucket = [n \in DOMAIN bucket |-> bucket[n]] /\ \A n \in DOMAIN bucket : bucket[n] \in ZipsOf(n)

(* What the bundles hold is by runs of their name, in the directory, the temporary zip
   and the bucket. *)
BundleTypes ==
    /\ DirsTyped /\ TempsTyped /\ BucketTyped
    /\ uploaded \in [Runs -> BOOLEAN]
    /\ pc = [p \in Runs |-> pc[p]] /\ status = [p \in Runs |-> status[p]]

Failed == {"failure", "usage", "panic"}

(* A run that succeeded has uploaded, and what it uploaded is there. *)
RunInv(m) ==
    /\ uploaded[m] => Name[m] \in DOMAIN bucket
    /\ status[m] = "success" => uploaded[m]

(* What the handler of a message has done, what its run has, and what comes of it. *)
HandlerInv(m) ==
    /\ handler[m] \in {"none", "received", "collect", "publish"}
    /\ handler[m] \in {"collect", "publish"} => m \in acked
    /\ handler[m] = "received" => m \notin acked
    /\ m \notin acked => pc[m] = "idle"
    /\ handler[m] = "collect" /\ pc[m] = "done" => status[m] \in Failed \cup {"success"}
    /\ handler[m] = "publish" => uploaded[m]
    /\ m \in acked /\ handler[m] = "none" =>
         m \in lost \/ status[m] \in Failed \/ \E e \in events : e.message = m

(* An event is of a message that is acknowledged and of which the handler is done. *)
EventInv(e) ==
    /\ e.message \in Messages \cap acked
    /\ e = [message |-> e.message, path |-> Name[e.message], delivery |-> deliveries[e.message]]
    /\ uploaded[e.message] /\ handler[e.message] = "none"

(* The inductive invariant of the log collection. *)
LogInv ==
    /\ BundleTypes /\ acked \subseteq Messages
    /\ handler = [m \in Messages |-> handler[m]] /\ deliveries = [m \in Messages |-> deliveries[m]]
    /\ \A m \in Messages : RunInv(m) /\ HandlerInv(m)
    /\ \A e \in events : EventInv(e)

(* One more run of the name makes no other maker. *)
LEMMA MakersJoin ==
  ASSUME NEW p \in Runs
  PROVE  /\ {p} \in Makers(Name[p])
         /\ \A by \in Makers(Name[p]) : by \cup {p} \in Makers(Name[p])
BY DEF Makers

(* Files that are written, into the directory as it is or a new one. *)
LEMMA WriteIsOwn ==
  ASSUME DirsTyped, NEW p \in Runs, NEW some \in BOOLEAN, NEW makes, Write(p, some, makes)
  PROVE  DirsTyped'
<1> DEFINE n == Name[p]
<1>1. /\ DOMAIN dirs = DOMAIN dirs /\ \A d \in DOMAIN dirs : dirs[d] \in DirectoriesOf(d)
      /\ dirs = [d \in DOMAIN dirs |-> dirs[d]]
  BY DEF DirsTyped
<1>2. CASE n \in DOMAIN dirs
  <2>1. dirs' = [dirs EXCEPT ![n].full = @ \/ some, ![n].by = @ \cup {p}]
    BY <1>2 DEF Write
  <2>2. dirs[n] \in DirectoriesOf(n) /\ dirs[n].by \cup {p} \in Makers(n)
    BY <1>1, <1>2, MakersJoin DEF DirectoriesOf
  <2>3. [dirs[n] EXCEPT !.full = dirs[n].full \/ some, !.by = dirs[n].by \cup {p}] \in DirectoriesOf(n)
    BY <2>2 DEF DirectoriesOf
  <2>4. /\ DOMAIN dirs' = DOMAIN dirs /\ dirs'[n] \in DirectoriesOf(n)
        /\ \A m \in DOMAIN dirs : m # n => dirs'[m] = dirs[m]
        /\ dirs' = [m \in DOMAIN dirs |-> dirs'[m]]
    BY <1>1, <1>2, <2>1, <2>3
  <2> QED  BY <1>1, <2>4 DEF DirsTyped
<1>3. CASE n \notin DOMAIN dirs /\ makes
  <2>1. dirs' = Put(dirs, n, [by |-> {p}, full |-> some, zip |-> None])
    BY <1>3 DEF Write
  <2>2. [by |-> {p}, full |-> some, zip |-> None] \in DirectoriesOf(n)
    BY MakersJoin DEF DirectoriesOf
  <2> QED  BY <1>1, <2>1, <2>2 DEF DirsTyped, Put
<1>4. CASE n \notin DOMAIN dirs /\ ~makes
  BY <1>1, <1>4 DEF Write, DirsTyped
<1> QED  BY <1>2, <1>3, <1>4

(* What a step of a run does, as far as the messages go. *)
StepOf(p) ==
    /\ DirsTyped' /\ TempsTyped' /\ BucketTyped'
    /\ pc' = [pc EXCEPT ![p] = pc'[p]] /\ pc'[p] # "idle"
    /\ DOMAIN bucket \subseteq DOMAIN bucket'
    /\ \/ UNCHANGED uploaded
       \/ uploaded' = [uploaded EXCEPT ![p] = TRUE] /\ Name[p] \in DOMAIN bucket'
    /\ \/ UNCHANGED status /\ pc'[p] # "done"
       \/ /\ status' = [status EXCEPT ![p] = status'[p]]
          /\ status'[p] \in Failed \/ (status'[p] = "success" /\ uploaded[p])

(* The steps that gather: files into the directory, and nothing else. *)
LEMMA GatheringSteps ==
  ASSUME BundleTypes, NEW p \in Runs,
         Validate(p) \/ Discover(p) \/ Extract(p) \/ Copy(p) \/ Gather(p) \/ GatherMetrics(p)
  PROVE  StepOf(p)
<1>1. /\ pc = [q \in Runs |-> pc[q]] /\ status = [q \in Runs |-> status[q]]
      /\ DirsTyped /\ TempsTyped /\ BucketTyped
  BY DEF BundleTypes
<1>2. UNCHANGED dirs => DirsTyped'
  BY <1>1 DEF DirsTyped
<1>3. \A some \in BOOLEAN, makes \in BOOLEAN : Write(p, some, makes) => DirsTyped'
  BY <1>1, WriteIsOwn
<1>4. /\ DirsTyped' /\ UNCHANGED <<temps, uploaded, bucket>>
      /\ pc' = [pc EXCEPT ![p] = pc'[p]] /\ pc'[p] # "idle"
      /\ \/ UNCHANGED status /\ pc'[p] # "done"
         \/ status' = [status EXCEPT ![p] = status'[p]] /\ status'[p] \in Failed
  <2>1. CASE Validate(p)
    BY <1>1, <1>2, <1>3, <2>1 DEF Validate, End, Goto, parent, Failed
  <2>2. CASE Discover(p)
    BY <1>1, <1>2, <1>3, <2>2 DEF Discover, End, Goto, parent, Failed
  <2>3. CASE Extract(p)
    <3>1. PICK some \in BOOLEAN : Write(p, some, FALSE)
      BY <2>3 DEF Extract
    <3> QED  BY <1>1, <1>3, <2>3, <3>1 DEF Extract, Goto
  <2>4. CASE Copy(p)
    BY <1>1, <1>3, <2>4 DEF Copy, Goto
  <2>5. CASE Gather(p)
    <3>1. UNCHANGED dirs \/ \E some \in BOOLEAN : Write(p, some, FALSE)
      BY <2>5 DEF Gather, parent
    <3> QED  BY <1>1, <1>2, <1>3, <2>5, <3>1 DEF Gather, End, Goto, parent, Failed
  <2>6. CASE GatherMetrics(p)
    BY <1>1, <1>2, <1>3, <2>6 DEF GatherMetrics, Goto
  <2> QED  BY <2>1, <2>2, <2>3, <2>4, <2>5, <2>6
<1>5. TempsTyped' /\ BucketTyped'
  BY <1>1, <1>4 DEF TempsTyped, BucketTyped
<1> QED  BY <1>4, <1>5 DEF StepOf

(* zipSource and the rename: the zip that has the name of p goes into the directory of
   that name. *)
LEMMA ZippingSteps ==
  ASSUME BundleTypes, NEW p \in Runs, ZipBundle(p) \/ Move(p)
  PROVE  StepOf(p)
<1> DEFINE n == Name[p]
<1>1. /\ DirsTyped /\ TempsTyped /\ BucketTyped
      /\ pc = [q \in Runs |-> pc[q]] /\ status = [q \in Runs |-> status[q]]
  BY DEF BundleTypes
<1>2. /\ \A d \in DOMAIN dirs : dirs[d] \in DirectoriesOf(d)
      /\ \A t \in DOMAIN temps : temps[t] \in ZipsOf(t)
  BY <1>1 DEF DirsTyped, TempsTyped
<1>3. UNCHANGED <<uploaded, status, bucket>> /\ BucketTyped'
  BY <1>1 DEF ZipBundle, Move, BucketTyped
<1>4. pc' = [pc EXCEPT ![p] = pc'[p]] /\ pc'[p] \notin {"idle", "done"}
  BY <1>1 DEF ZipBundle, Move, Goto
<1>5. temps' = Drop(temps, n) => TempsTyped'
  BY <1>1 DEF Drop, TempsTyped
<1>6. UNCHANGED dirs => DirsTyped'
  BY <1>1 DEF DirsTyped
<1>7. CASE ZipBundle(p)
  <2>1. UNCHANGED dirs
    BY <1>7 DEF ZipBundle
  <2>2. TempsTyped'
    <3>1. CASE UNCHANGED temps
      BY <1>1, <3>1 DEF TempsTyped
    <3>2. CASE temps' = Drop(temps, n)
      BY <1>5, <3>2
    <3>3. CASE n \in DOMAIN dirs /\ \E full \in {dirs[n].full} \cup (IF n \in DOMAIN temps THEN {FALSE} ELSE {}) :
                  temps' = Put(temps, n, Archive(dirs[n].by, full))
      <4>1. dirs[n].by \in Makers(n) /\ dirs[n].full \in BOOLEAN
        BY <1>2, <3>3 DEF DirectoriesOf
      <4>2. PICK full \in BOOLEAN : temps' = Put(temps, n, Archive(dirs[n].by, full))
        BY <3>3, <4>1
      <4>3. Archive(dirs[n].by, full) \in ZipsOf(n)
        BY <4>1 DEF Archive, ZipsOf
      <4> QED  BY <1>2, <4>2, <4>3 DEF TempsTyped, Put
    <3> QED  BY <1>7, <3>1, <3>2, <3>3 DEF ZipBundle
  <2> QED  BY <1>3, <1>4, <1>6, <2>1, <2>2 DEF StepOf
<1>8. CASE Move(p)
  <2>1. TempsTyped'
    BY <1>5, <1>8 DEF Move
  <2>2. DirsTyped'
    <3>1. CASE UNCHANGED dirs
      BY <1>6, <3>1
    <3>2. CASE ~UNCHANGED dirs
      <4>1. PICK left \in {FALSE, dirs[n].full} :
              /\ n \in DOMAIN dirs /\ n \in DOMAIN temps
              /\ dirs' = [dirs EXCEPT ![n].full = left, ![n].zip = temps[n], ![n].by = @ \cup {p}]
        BY <1>8, <3>2 DEF Move
      <4>2. left \in BOOLEAN /\ temps[n] \in ZipsOf(n) /\ dirs[n].by \cup {p} \in Makers(n)
        BY <1>2, <4>1, MakersJoin DEF DirectoriesOf
      <4>3. [dirs[n] EXCEPT !.full = left, !.zip = temps[n], !.by = dirs[n].by \cup {p}] \in DirectoriesOf(n)
        BY <1>2, <4>1, <4>2 DEF DirectoriesOf
      <4>4. /\ DOMAIN dirs' = DOMAIN dirs /\ dirs'[n] \in DirectoriesOf(n)
            /\ \A m \in DOMAIN dirs : m # n => dirs'[m] = dirs[m]
            /\ dirs' = [m \in DOMAIN dirs |-> dirs'[m]]
        BY <1>1, <4>1, <4>3 DEF DirsTyped
      <4> QED  BY <1>2, <4>4 DEF DirsTyped
    <3> QED  BY <3>1, <3>2
  <2> QED  BY <1>3, <1>4, <2>1, <2>2 DEF StepOf
<1> QED  BY <1>7, <1>8

(* The upload of the zip, the rotation of the past bundles and the result. *)
LEMMA EndingSteps ==
  ASSUME BundleTypes, NEW p \in Runs, Launch(p) \/ Upload(p) \/ Rotate(p) \/ Diagnose(p)
  PROVE  StepOf(p)
<1> DEFINE n == Name[p]
<1>1. /\ DirsTyped /\ TempsTyped /\ BucketTyped /\ uploaded \in [Runs -> BOOLEAN]
      /\ pc = [q \in Runs |-> pc[q]] /\ status = [q \in Runs |-> status[q]]
  BY DEF BundleTypes
<1>2. UNCHANGED dirs => DirsTyped'
  BY <1>1 DEF DirsTyped
<1>3. UNCHANGED temps => TempsTyped'
  BY <1>1 DEF TempsTyped
<1>4. UNCHANGED bucket => BucketTyped'
  BY <1>1 DEF BucketTyped
<1>5. CASE Launch(p)
  BY <1>1, <1>2, <1>3, <1>4, <1>5 DEF Launch, Goto, StepOf, parent
<1>6. CASE Upload(p)
  <2>1. pc' = [pc EXCEPT ![p] = "rotate"] /\ UNCHANGED <<temps, status>> /\ pc'[p] = "rotate"
    BY <1>1, <1>6 DEF Upload, Goto
  <2>2. dirs' = Drop(dirs, n) \/ UNCHANGED dirs
    BY <1>6 DEF Upload
  <2>3. DirsTyped'
    BY <1>1, <1>2, <2>2 DEF DirsTyped, Drop
  <2>4. CASE UNCHANGED <<uploaded, bucket>>
    BY <1>3, <1>4, <2>1, <2>3, <2>4 DEF StepOf
  <2>5. CASE /\ n \in DOMAIN dirs /\ dirs[n].zip # None /\ bucket' = Put(bucket, n, dirs[n].zip)
             /\ uploaded' = [uploaded EXCEPT ![p] = TRUE]
    <3>1. dirs[n].zip \in ZipsOf(n)
      BY <1>1, <2>5 DEF DirsTyped, DirectoriesOf
    <3>2. BucketTyped' /\ DOMAIN bucket' = DOMAIN bucket \cup {n}
      BY <1>1, <2>5, <3>1 DEF BucketTyped, Put
    <3> QED  BY <1>3, <2>1, <2>3, <2>5, <3>2 DEF StepOf
  <2> QED  BY <1>6, <2>4, <2>5 DEF Upload
<1>7. CASE Rotate(p)
  <2>1. /\ pc' = [pc EXCEPT ![p] = "diagnose"] /\ pc'[p] = "diagnose"
        /\ UNCHANGED <<uploaded, status, bucket>>
    BY <1>1, <1>7 DEF Rotate, Goto
  <2>2. CASE UNCHANGED parent
    BY <1>2, <1>3, <1>4, <2>1, <2>2 DEF StepOf, parent
  <2>3. CASE RotateBeyond(p, Limit)
    <3>1. PICK gone : dirs' = [d \in {m \in DOMAIN dirs : m \notin gone} |-> dirs[d]]
      <4> DEFINE old == {age[k] : k \in (Limit + 1)..Len(age)}
      <4> WITNESS {m \in DOMAIN dirs : Dir(m) \in old}
      <4> QED  BY <2>3 DEF RotateBeyond
    <3>2. PICK left : temps' = [t \in {m \in DOMAIN temps : m \notin left} |-> temps[t]]
      <4> DEFINE old == {age[k] : k \in (Limit + 1)..Len(age)}
      <4> WITNESS {m \in DOMAIN temps : Temp(m) \in old}
      <4> QED  BY <2>3 DEF RotateBeyond
    <3>3. DirsTyped'
      BY <1>1, <3>1 DEF DirsTyped
    <3>4. TempsTyped'
      BY <1>1, <3>2 DEF TempsTyped
    <3> QED  BY <1>4, <2>1, <3>3, <3>4 DEF StepOf
  <2> QED  BY <1>7, <2>2, <2>3 DEF Rotate
<1>8. CASE Diagnose(p)
  BY <1>1, <1>2, <1>3, <1>4, <1>8 DEF Diagnose, End, Goto, StepOf, parent, Failed
<1> QED  BY <1>5, <1>6, <1>7, <1>8

(* A step of one run, in its handler or from a shell, keeps what is said of every
   message's run; other runs do not move. *)
LEMMA RunKept ==
  ASSUME BundleTypes, Messages \subseteq Runs, NEW p \in Runs, StepOf(p)
  PROVE  /\ BundleTypes'
         /\ \A m \in Messages : RunInv(m) => RunInv(m)' /\ (uploaded[m] => uploaded'[m])
         /\ \A m \in Runs : m # p => pc'[m] = pc[m] /\ status'[m] = status[m]
<1>1. /\ pc' = [pc EXCEPT ![p] = pc'[p]] /\ pc = [q \in Runs |-> pc[q]]
      /\ status = [q \in Runs |-> status[q]] /\ uploaded \in [Runs -> BOOLEAN]
      /\ DOMAIN bucket \subseteq DOMAIN bucket'
      /\ \/ UNCHANGED uploaded
         \/ uploaded' = [uploaded EXCEPT ![p] = TRUE] /\ Name[p] \in DOMAIN bucket'
      /\ \/ UNCHANGED status
         \/ /\ status' = [status EXCEPT ![p] = status'[p]]
            /\ status'[p] \in Failed \/ (status'[p] = "success" /\ uploaded[p])
      /\ DirsTyped' /\ TempsTyped' /\ BucketTyped'
  BY DEF StepOf, BundleTypes
<1>2. uploaded' \in [Runs -> BOOLEAN]
  BY <1>1
<1>3. pc' = [q \in Runs |-> pc'[q]]
  BY <1>1
<1>4. status' = [q \in Runs |-> status'[q]]
  BY <1>1
<1>5. BundleTypes'
  BY <1>1, <1>2, <1>3, <1>4 DEF BundleTypes
<1>6. ASSUME NEW m \in Messages, RunInv(m)
      PROVE  RunInv(m)' /\ (uploaded[m] => uploaded'[m])
  <2>1. m \in Runs
    OBVIOUS
  <2>2. uploaded[m] => uploaded'[m]
    BY <1>1, <2>1
  <2>3. status'[m] = "success" => uploaded'[m]
    BY <1>1, <1>6, <2>1, <2>2 DEF RunInv, Failed
  <2>4. uploaded'[m] => Name[m] \in DOMAIN bucket'
    BY <1>1, <1>6, <2>1 DEF RunInv
  <2> QED  BY <2>2, <2>3, <2>4 DEF RunInv
<1>7. \A m \in Runs : m # p => pc'[m] = pc[m] /\ status'[m] = status[m]
  BY <1>1
<1> QED  BY <1>5, <1>6, <1>7

(* Before the daemon listens nothing is collected. *)
LEMMA LogInvInit == LogInit => LogInv
<1> SUFFICES ASSUME LogInit PROVE LogInv
  OBVIOUS
<1>1. DirsTyped
  <2>1. dirs = [n \in {Old[k] : k \in DOMAIN Old} |-> [by |-> {}, full |-> FALSE, zip |-> Archive({}, TRUE)]]
    BY DEF LogInit, BundlesInit
  <2>2. \A n \in {Old[k] : k \in DOMAIN Old} : {} \in Makers(n)
    BY DEF Makers
  <2> QED  BY <2>1, <2>2 DEF DirsTyped, DirectoriesOf, ZipsOf, Archive
<1>2. TempsTyped /\ BucketTyped
  BY DEF LogInit, BundlesInit, NoFunction, TempsTyped, BucketTyped
<1>3. uploaded \in [Runs -> BOOLEAN] /\ pc = [p \in Runs |-> pc[p]]
      /\ status = [p \in Runs |-> status[p]]
  BY DEF LogInit, BundlesInit
<1>4. \A m \in Messages : RunInv(m) /\ HandlerInv(m)
  <2> TAKE m \in Messages
  <2>1. pc[m] = "idle" /\ ~uploaded[m] /\ status[m] = None /\ handler[m] = "none" /\ acked = {}
    BY LogAssumption DEF LogInit, BundlesInit
  <2> QED  BY <2>1, ResultAssumption DEF RunInv, HandlerInv
<1> QED  BY <1>1, <1>2, <1>3, <1>4 DEF LogInit, LogInv, BundleTypes

(* The runs in the handlers of the messages. *)
LEMMA CollectKeeps ==
  ASSUME LogInv, NEW m \in Messages, Collect(m)
  PROVE  LogInv'
<1> USE LogAssumption
<1>1. /\ BundleTypes /\ acked \subseteq Messages /\ handler = [q \in Messages |-> handler[q]]
      /\ \A q \in Messages : RunInv(q) /\ HandlerInv(q)
      /\ \A e \in events : EventInv(e)
      /\ UNCHANGED <<listening, acked, deliveries, events, lost>> /\ handler[m] = "collect"
      /\ deliveries = [q \in Messages |-> deliveries[q]]
  BY DEF LogInv, Collect
<1>2. CASE UNCHANGED handler /\ (Launch(m) \/ BundleStep(m))
  <2>1. StepOf(m)
    BY <1>1, <1>2, GatheringSteps, ZippingSteps, EndingSteps DEF BundleStep
  <2>2. /\ BundleTypes' /\ \A q \in Messages : RunInv(q) => RunInv(q)' /\ (uploaded[q] => uploaded'[q])
        /\ \A q \in Runs : q # m => pc'[q] = pc[q] /\ status'[q] = status[q]
    BY <1>1, <2>1, RunKept
  <2>3. ASSUME NEW q \in Messages PROVE RunInv(q)' /\ HandlerInv(q)'
    <3>1. CASE q = m
      <4>1. pc'[m] = "done" => status'[m] \in Failed \cup {"success"}
        BY <2>1, <1>1 DEF StepOf, BundleTypes
      <4> QED  BY <1>1, <1>2, <2>2, <3>1, <4>1 DEF HandlerInv
    <3>2. CASE q # m
      <4>1. pc'[q] = pc[q] /\ status'[q] = status[q] /\ (uploaded[q] => uploaded'[q]) /\ RunInv(q)'
        BY <1>1, <2>2, <3>2
      <4> QED  BY <1>1, <1>2, <4>1 DEF HandlerInv
    <3> QED  BY <3>1, <3>2
  <2>4. \A e \in events' : EventInv(e)'
    BY <1>1, <1>2, <2>2 DEF EventInv
  <2> QED  BY <1>1, <1>2, <2>2, <2>3, <2>4 DEF LogInv
<1>3. CASE /\ Handle(m, IF status[m] = "success" THEN "publish" ELSE "none")
           /\ UNCHANGED bundles /\ pc[m] = "done"
  <2>1. /\ UNCHANGED bundles
        /\ handler' = [handler EXCEPT ![m] = IF status[m] = "success" THEN "publish" ELSE "none"]
    BY <1>3 DEF Handle
  <2>2. BundleTypes' /\ UNCHANGED <<pc, status, uploaded>> /\ \A q \in Messages : RunInv(q)'
    BY <1>1, <2>1 DEF bundles, parent, BundleTypes, DirsTyped, TempsTyped, BucketTyped, RunInv
  <2>3. handler' = [q \in Messages |-> handler'[q]] /\ \A q \in Messages : HandlerInv(q)'
    BY <1>1, <1>3, <2>1, <2>2 DEF HandlerInv, RunInv
  <2>4. \A e \in events' : EventInv(e)'
    BY <1>1, <2>1, <2>2 DEF EventInv
  <2> QED  BY <1>1, <2>2, <2>3, <2>4 DEF LogInv
<1> QED  BY <1>2, <1>3 DEF Collect

(* The runs from a shell. *)
LEMMA CommandKeeps ==
  ASSUME LogInv, NEW p \in Commands, Command(p)
  PROVE  LogInv'
<1> USE LogAssumption
<1>1. /\ BundleTypes /\ acked \subseteq Messages /\ \A q \in Messages : RunInv(q) /\ HandlerInv(q)
      /\ \A e \in events : EventInv(e)
      /\ UNCHANGED <<listening, handler, acked, deliveries, events, lost>>
      /\ handler = [q \in Messages |-> handler[q]] /\ deliveries = [q \in Messages |-> deliveries[q]]
  BY DEF LogInv, Command, requests
<1>2. StepOf(p)
  BY <1>1, GatheringSteps, ZippingSteps, EndingSteps DEF Command, BundleStep
<1>3. /\ BundleTypes' /\ \A q \in Messages : RunInv(q) => RunInv(q)' /\ (uploaded[q] => uploaded'[q])
      /\ \A q \in Messages : pc'[q] = pc[q] /\ status'[q] = status[q]
  BY <1>1, <1>2, RunKept
<1>4. \A q \in Messages : RunInv(q)' /\ HandlerInv(q)'
  BY <1>1, <1>3 DEF HandlerInv
<1>5. \A e \in events' : EventInv(e)'
  BY <1>1, <1>3 DEF EventInv
<1> QED  BY <1>1, <1>3, <1>4, <1>5 DEF LogInv

(* The handlers around the bundle: a message that was acknowledged does not come again,
   so what its event says stays what its handler did. *)
LEMMA HandlersKeep ==
  ASSUME LogInv, NEW m \in Messages, Deliver(m) \/ Receive(m) \/ Publish(m)
  PROVE  LogInv'
<1>1. /\ BundleTypes /\ acked \subseteq Messages /\ handler = [q \in Messages |-> handler[q]]
      /\ deliveries = [q \in Messages |-> deliveries[q]]
      /\ \A q \in Messages : RunInv(q) /\ HandlerInv(q)
      /\ \A e \in events : EventInv(e)
      /\ UNCHANGED bundles
  BY DEF LogInv, Deliver, Receive, Publish
<1>2. BundleTypes' /\ UNCHANGED <<pc, status, uploaded>> /\ \A q \in Messages : RunInv(q)'
  BY <1>1 DEF bundles, parent, BundleTypes, DirsTyped, TempsTyped, BucketTyped, RunInv
<1>3. CASE Deliver(m)
  <2>1. /\ m \notin acked /\ handler' = [handler EXCEPT ![m] = "received"]
        /\ deliveries' = [deliveries EXCEPT ![m] = @ + 1] /\ UNCHANGED <<acked, events, lost>>
    BY <1>3 DEF Deliver, Handle
  <2>2. handler' = [q \in Messages |-> handler'[q]]
    BY <1>1, <2>1
  <2>3. deliveries' = [q \in Messages |-> deliveries'[q]]
    BY <1>1, <2>1
  <2>4. \A q \in Messages : HandlerInv(q)'
    BY <1>1, <1>2, <2>1 DEF HandlerInv
  <2>5. \A e \in events' : EventInv(e)'
    <3> SUFFICES ASSUME NEW e \in events PROVE EventInv(e)'
      BY <2>1
    <3>1. EventInv(e) /\ e.message # m
      BY <1>1, <2>1 DEF EventInv
    <3>2. handler'[e.message] = handler[e.message] /\ deliveries'[e.message] = deliveries[e.message]
      BY <1>1, <2>1, <3>1 DEF EventInv
    <3> QED  BY <1>2, <2>1, <3>1, <3>2 DEF EventInv
  <2> QED  BY <1>1, <1>2, <2>1, <2>2, <2>3, <2>4, <2>5 DEF LogInv
<1>4. CASE Receive(m)
  <2>1. /\ handler[m] = "received" /\ UNCHANGED <<deliveries, events, lost>>
        /\ \/ acked' = acked \cup {m} /\ handler' = [handler EXCEPT ![m] = "collect"]
           \/ UNCHANGED acked /\ handler' = [handler EXCEPT ![m] = "none"]
    BY <1>4 DEF Receive, Handle
  <2>2. handler' = [q \in Messages |-> handler'[q]]
    BY <1>1, <2>1
  <2>3. \A q \in Messages : HandlerInv(q)'
    <3> TAKE q \in Messages
    <3>1. CASE q = m
      <4>1. m \notin acked /\ pc[m] = "idle"
        BY <1>1, <2>1 DEF HandlerInv
      <4>2. \/ m \in acked' /\ handler'[m] = "collect"
            \/ m \notin acked' /\ handler'[m] = "none"
        BY <1>1, <2>1, <4>1
      <4> QED  BY <1>2, <3>1, <4>1, <4>2 DEF HandlerInv
    <3>2. CASE q # m
      <4>1. handler'[q] = handler[q] /\ (q \in acked' <=> q \in acked)
        BY <1>1, <2>1, <3>2
      <4> QED  BY <1>1, <1>2, <2>1, <4>1 DEF HandlerInv
    <3> QED  BY <3>1, <3>2
  <2>4. \A e \in events' : EventInv(e)'
    <3> SUFFICES ASSUME NEW e \in events PROVE EventInv(e)'
      BY <2>1
    <3>1. EventInv(e) /\ e.message # m
      BY <1>1, <2>1 DEF EventInv
    <3>2. handler'[e.message] = handler[e.message]
      BY <1>1, <2>1, <3>1 DEF EventInv
    <3> QED  BY <1>2, <2>1, <3>1, <3>2 DEF EventInv
  <2> QED  BY <1>1, <1>2, <2>1, <2>2, <2>3, <2>4 DEF LogInv
<1>5. CASE Publish(m)
  <2> DEFINE new == [message |-> m, path |-> Name[m], delivery |-> deliveries[m]]
  <2>1. /\ handler[m] = "publish" /\ handler' = [handler EXCEPT ![m] = "none"]
        /\ UNCHANGED <<acked, deliveries>> /\ events \subseteq events'
        /\ events' \subseteq events \cup {new} /\ lost \subseteq lost'
        /\ new \in events' \/ m \in lost'
    BY <1>5 DEF Publish, Handle
  <2>2. handler' = [q \in Messages |-> handler'[q]]
    BY <1>1, <2>1
  <2>3. handler'[m] = "none" /\ m \in acked /\ uploaded[m]
    BY <1>1, <2>1 DEF HandlerInv
  <2>4. \A q \in Messages : HandlerInv(q)'
    <3> TAKE q \in Messages
    <3>1. CASE q = m
      <4>1. m \in lost' \/ \E e \in events' : e.message = m
        BY <2>1
      <4> QED  BY <2>1, <2>3, <3>1, <4>1 DEF HandlerInv
    <3>2. CASE q # m
      <4>1. handler'[q] = handler[q]
        BY <1>1, <2>1, <3>2
      <4>2. q \in lost => q \in lost'
        BY <2>1
      <4>3. (\E e \in events : e.message = q) => (\E e \in events' : e.message = q)
        BY <2>1
      <4> QED  BY <1>1, <1>2, <2>1, <4>1, <4>2, <4>3 DEF HandlerInv
    <3> QED  BY <3>1, <3>2
  <2>5. ASSUME NEW e, e = new PROVE EventInv(e)'
    BY <1>2, <2>1, <2>3, <2>5 DEF EventInv
  <2>6. ASSUME NEW e \in events PROVE EventInv(e)'
    <3>1. EventInv(e) /\ handler'[e.message] = "none"
      BY <1>1, <2>1 DEF EventInv
    <3> QED  BY <1>2, <2>1, <3>1 DEF EventInv
  <2>7. \A e \in events' : EventInv(e)'
    <3> HIDE DEF new
    <3> QED  BY <2>1, <2>5, <2>6
  <2> QED  BY <1>1, <1>2, <2>1, <2>2, <2>4, <2>7 DEF LogInv
<1> QED  BY <1>3, <1>4, <1>5

(* The daemon stops and starts: its handlers are gone, with the messages they had
   acknowledged, and the events stay true. *)
LEMMA DaemonKeeps == LogInv /\ (Listen \/ Restart) => LogInv'
<1> SUFFICES ASSUME LogInv, Listen \/ Restart PROVE LogInv'
  OBVIOUS
<1> USE LogAssumption
<1>1. /\ BundleTypes /\ acked \subseteq Messages /\ handler = [q \in Messages |-> handler[q]]
      /\ deliveries = [q \in Messages |-> deliveries[q]]
      /\ \A q \in Messages : RunInv(q) /\ HandlerInv(q)
      /\ \A e \in events : EventInv(e)
  BY DEF LogInv
<1>2. UNCHANGED <<dirs, temps, bucket>> => DirsTyped' /\ TempsTyped' /\ BucketTyped'
  BY <1>1 DEF BundleTypes, DirsTyped, TempsTyped, BucketTyped
<1>3. CASE Listen
  <2>1. UNCHANGED <<dirs, temps, pc, uploaded, status, bucket, handler, acked, deliveries, events, lost>>
    BY <1>3 DEF Listen, bundles, parent
  <2>2. BundleTypes' /\ \A q \in Messages : RunInv(q)' /\ HandlerInv(q)'
    BY <1>1, <1>2, <2>1 DEF BundleTypes, RunInv, HandlerInv
  <2>3. \A e \in events' : EventInv(e)'
    BY <1>1, <2>1 DEF EventInv
  <2> QED  BY <1>1, <2>1, <2>2, <2>3 DEF LogInv
<1>4. CASE Restart
  <2>1. /\ UNCHANGED <<dirs, temps, uploaded, status, bucket, acked, deliveries, events>>
        /\ handler' = [q \in Messages |-> "none"]
        /\ lost' = lost \cup {m \in Messages : handler[m] \in {"collect", "publish"}}
        /\ pc' = [p \in Runs |-> IF p \in Messages /\ pc[p] # "idle" THEN "done" ELSE pc[p]]
    BY <1>4 DEF Restart, parent
  <2>2. BundleTypes' /\ \A q \in Messages : RunInv(q)'
    BY <1>1, <1>2, <2>1 DEF BundleTypes, RunInv
  <2>3. ASSUME NEW q \in Messages PROVE HandlerInv(q)'
    <3>1. handler'[q] = "none" /\ (q \notin acked => pc'[q] = "idle")
      BY <1>1, <2>1 DEF HandlerInv
    <3>2. q \in acked => q \in lost' \/ status[q] \in Failed \/ \E e \in events : e.message = q
      BY <1>1, <2>1 DEF HandlerInv
    <3> QED  BY <2>1, <3>1, <3>2 DEF HandlerInv
  <2>4. \A e \in events' : EventInv(e)'
    BY <1>1, <2>1 DEF EventInv
  <2> QED  BY <1>1, <2>1, <2>2, <2>3, <2>4 DEF LogInv
<1> QED  BY <1>3, <1>4

(* publishEvent: whatever other messages and commands do at the same time, and wherever
   the daemon stopped, an event leads to a bundle of its name, which is its message's
   own when no other has the name; a message has one event at most, and one that is
   acknowledged has none only when its command failed or it was lost. *)
THEOREM EventsLeadToBundles == LogSpec => []EventHasItsBundle
<1>1. LogInv => EventHasItsBundle
  <2> SUFFICES ASSUME LogInv PROVE EventHasItsBundle
    OBVIOUS
  <2>1. ASSUME NEW e \in events
        PROVE  /\ e.path = Name[e.message] /\ e.path \in DOMAIN bucket
               /\ bucket[e.path].by \subseteq {p \in Runs : Name[p] = e.path}
               /\ Alone(e.message) => bucket[e.path].by = {e.message}
               /\ \A f \in events : f.message = e.message => f = e
    <3>1. EventInv(e) /\ RunInv(e.message)
      BY DEF LogInv, EventInv
    <3>2. e.path = Name[e.message]
      BY <3>1 DEF EventInv
    <3>3. e.path \in DOMAIN bucket
      BY <3>1, <3>2 DEF EventInv, RunInv
    <3>4. bucket[e.path].by \in Makers(e.path)
      BY <3>3 DEF LogInv, BundleTypes, BucketTyped, ZipsOf
    <3>5. bucket[e.path].by \subseteq {p \in Runs : Name[p] = e.path}
      BY <3>4 DEF Makers
    <3>6. Alone(e.message) => bucket[e.path].by = {e.message}
      BY <3>2, <3>4 DEF Makers, Alone
    <3>7. ASSUME NEW f \in events, f.message = e.message PROVE f = e
      BY <3>1, <3>7 DEF LogInv, EventInv
    <3> QED  BY <3>2, <3>3, <3>5, <3>6, <3>7
  <2>2. ASSUME NEW m \in acked, handler[m] = "none"
        PROVE  m \in lost \/ status[m] \in Failed \/ \E e \in events : e.message = m
    <3>1. m \in Messages
      BY <2>2 DEF LogInv
    <3> QED  BY <2>2, <3>1 DEF LogInv, HandlerInv
  <2> QED  BY <2>1, <2>2 DEF EventHasItsBundle, Failed
<1>2. LogInv /\ [LogNext]_logVars => LogInv'
  <2> SUFFICES ASSUME LogInv, [LogNext]_logVars PROVE LogInv'
    OBVIOUS
  <2>1. CASE Listen \/ Restart
    BY <2>1, DaemonKeeps
  <2>2. CASE \E m \in Messages : Deliver(m) \/ Receive(m) \/ Publish(m)
    BY <2>2, HandlersKeep
  <2>3. CASE \E m \in Messages : Collect(m)
    BY <2>3, CollectKeeps
  <2>4. CASE \E p \in Commands : Command(p)
    BY <2>4, CommandKeeps
  <2>5. CASE UNCHANGED logVars
    <3>1. UNCHANGED <<dirs, temps, pc, uploaded, status, bucket, handler, acked, deliveries, events, lost>>
      BY <2>5 DEF logVars, bundles, parent, requests
    <3>2. BundleTypes' /\ \A q \in Messages : RunInv(q)' /\ HandlerInv(q)'
      BY <3>1 DEF LogInv, BundleTypes, DirsTyped, TempsTyped, BucketTyped, RunInv, HandlerInv
    <3>3. \A e \in events' : EventInv(e)'
      BY <3>1 DEF LogInv, EventInv
    <3> QED  BY <3>1, <3>2, <3>3 DEF LogInv
  <2> QED  BY <2>1, <2>2, <2>3, <2>4, <2>5 DEF LogNext
<1> QED
  BY <1>1, <1>2, LogInvInit, PTL DEF LogSpec

------------------------------------------------------------------------------------
(* PerformanceDiagnostics: what is in a report that succeeded. *)

(* Reports, their folders, archives and exit statuses. *)
DiagTypes ==
    /\ diag = [r \in Reports |-> diag[r]] /\ ops = [r \in Reports |-> ops[r]]
    /\ folder = [r \in Reports |-> folder[r]] /\ errors \in [Reports -> BOOLEAN]
    /\ archive = [r \in Reports |-> archive[r]] /\ exit = [r \in Reports |-> exit[r]]

(* The part of an operation, a fio command that failed silently aside. *)
PartsOf(work) ==
    IF work = "backup" THEN {"backint", "perfdiag"} ELSE IF work = "compute" THEN {"compute"} ELSE {}

(* What was asked of r and is done is in its folder, unless r has met an error. *)
Collected(r) ==
    /\ "configure" \in folder[r]
    /\ \A work \in listOperations(request[r].types) \ ops[r] :
         work \in Operations /\ PartsOf(work) \subseteq folder[r]

(* Everything that was asked of q is in parts. *)
Whole(q, parts) ==
    /\ {"configure", "log"} \subseteq parts
    /\ \A work \in listOperations(q.types) : work \in Operations /\ PartsOf(work) \subseteq parts

(* The progress of a report that has met no error, and what it leaves. *)
ReportInv(r) ==
    /\ diag[r] = "configure" => ops[r] = listOperations(request[r].types)
    /\ ~errors[r] =>
         /\ diag[r] = "operations" => Collected(r)
         /\ diag[r] \in {"zip", "rename"} => Whole(request[r], folder[r])
         /\ diag[r] \in {"upload", "report"} \/ exit[r] = "success" =>
              archive[r].file # "none" /\ Whole(request[r], archive[r].parts)
         /\ diag[r] = "report" \/ exit[r] = "success" => (request[r].outputBucket => r \in sent)
    /\ exit[r] = "success" => diag[r] = "done" /\ ~errors[r]
    /\ archive[r].parts # {} => folder[r] # {} \/ r \in sent

(* The inductive invariant of performancediagnostics. *)
DiagInv == DiagTypes /\ \A r \in Reports : ReportInv(r)

(* Whole reports have the parts that the property asks for. *)
LEMMA WholeHasParts ==
  ASSUME NEW q, NEW parts, Whole(q, parts)
  PROVE  Parts(q) \ {"fio"} \subseteq parts
<1> DEFINE of == [backup |-> {"backint", "perfdiag"}, io |-> {"fio"}, compute |-> {"compute"}]
<1>1. ASSUME NEW work \in listOperations(q.types) PROVE of[work] \ {"fio"} \subseteq parts
  <2>1. work \in {"backup", "io", "compute"} /\ PartsOf(work) \subseteq parts
    BY DEF Whole, Operations
  <2> QED  BY <2>1 DEF PartsOf
<1>2. {"configure", "log"} \subseteq parts
  BY DEF Whole
<1> HIDE DEF of
<1>3. (UNION {of[work] : work \in listOperations(q.types)}) \ {"fio"} \subseteq parts
  BY <1>1
<1> QED  BY <1>2, <1>3 DEF Parts, of

(* The other reports share a temporary file with r, and nothing else. *)
LEMMA OthersKeepReport ==
  ASSUME NEW r \in Reports, ReportInv(r), UNCHANGED request,
         diag'[r] = diag[r], ops'[r] = ops[r], folder'[r] = folder[r], errors'[r] = errors[r],
         archive'[r] = archive[r], exit'[r] = exit[r], r \in sent => r \in sent'
  PROVE  ReportInv(r)'
BY DEF ReportInv, Collected

(* A step of one report. *)
LEMMA ReportStep ==
  ASSUME DiagInv, NEW p \in Reports, DiagStep(p)
  PROVE  DiagInv'
<1>1. /\ DiagTypes /\ UNCHANGED request /\ ReportInv(p)
      /\ \A r \in Reports : ReportInv(r)
  BY DEF DiagInv, DiagStep, ValidateParams, RunConfigureInstance, Backup, RunFIOCommands, ComputeData,
         Perform, AddLog, CreateTemp, Rename, UploadZip, ReportErrors, Collecting
<1>2. CASE ValidateParams(p)
  <2>1. /\ UNCHANGED <<folder, errors, archive, sent>> /\ diag[p] = "validate"
        /\ \/ /\ diag' = [diag EXCEPT ![p] = "done"] /\ UNCHANGED ops
              /\ \E s \in {"usage", "failure"} : exit' = [exit EXCEPT ![p] = s]
           \/ /\ diag' = [diag EXCEPT ![p] = "configure"] /\ UNCHANGED exit
              /\ ops' = [ops EXCEPT ![p] = listOperations(request[p].types)]
    BY <1>2 DEF ValidateParams, Leave, To, ArchiveKept
  <2>2. DiagTypes'
    BY <1>1, <2>1 DEF DiagTypes
  <2>3. ReportInv(p)'
    BY <1>1, <2>1 DEF DiagTypes, ReportInv
  <2>4. \A r \in Reports : r # p => ReportInv(r)'
    BY <1>1, <2>1, OthersKeepReport DEF DiagTypes
  <2> QED  BY <2>2, <2>3, <2>4 DEF DiagInv
<1>3. CASE RunConfigureInstance(p)
  <2>1. /\ UNCHANGED <<ops, archive, sent, exit>> /\ diag[p] = "configure"
        /\ diag' = [diag EXCEPT ![p] = "operations"]
        /\ \/ /\ folder' = [folder EXCEPT ![p] = @ \cup {"configure"}]
              /\ \E failed \in BOOLEAN : errors' = [errors EXCEPT ![p] = @ \/ failed]
           \/ UNCHANGED folder /\ errors' = [errors EXCEPT ![p] = TRUE]
    BY <1>3 DEF RunConfigureInstance, To, Add, Note, Collecting, ArchiveKept
  <2>2. DiagTypes'
    BY <1>1, <2>1 DEF DiagTypes
  <2>3. diag'[p] = "operations" /\ UNCHANGED <<ops, archive, sent, exit>>
    BY <1>1, <2>1 DEF DiagTypes
  <2>4. folder'[p] = folder[p] \/ folder'[p] = folder[p] \cup {"configure"}
    BY <1>1, <2>1 DEF DiagTypes
  <2>5. ~errors'[p] => ~errors[p] /\ folder'[p] = folder[p] \cup {"configure"}
    BY <1>1, <2>1 DEF DiagTypes
  <2>6. exit[p] # "success"
    BY <1>1, <2>1 DEF ReportInv
  <2>7. ~errors'[p] => Collected(p)'
    <3>1. ops'[p] = listOperations(request[p].types)
      BY <1>1, <2>1 DEF ReportInv
    <3> QED  BY <1>1, <2>5, <3>1 DEF Collected, listOperations
  <2>8. ReportInv(p)'
    BY <1>1, <2>3, <2>4, <2>6, <2>7 DEF ReportInv
  <2>9. \A r \in Reports : r # p => ReportInv(r)'
    BY <1>1, <2>1, OthersKeepReport DEF DiagTypes
  <2> QED  BY <2>2, <2>8, <2>9 DEF DiagInv
<1>4. CASE Backup(p) \/ RunFIOCommands(p) \/ ComputeData(p)
  <2>1. PICK work \in Operations, parts \in SUBSET {"backint", "perfdiag", "fio", "silent", "compute"},
             failed \in BOOLEAN :
          Perform(p, work, parts, failed) /\ (PartsOf(work) \subseteq parts \/ failed)
    <3>1. CASE Backup(p)
      <4>1. CASE Perform(p, "backup", {}, TRUE)
        BY <4>1 DEF Operations
      <4>2. CASE ~Perform(p, "backup", {}, TRUE)
        <5>1. PICK backint \in BOOLEAN, log \in BOOLEAN, perfdiag \in BOOLEAN :
                Perform(p, "backup", (IF log THEN {"backint"} ELSE {})
                                       \cup (IF perfdiag THEN {"perfdiag"} ELSE {}),
                        ~(backint /\ log /\ perfdiag))
          BY <3>1, <4>2 DEF Backup
        <5> DEFINE parts == (IF log THEN {"backint"} ELSE {})
                              \cup (IF perfdiag THEN {"perfdiag"} ELSE {})
                   failed == ~(backint /\ log /\ perfdiag)
        <5>2. /\ parts \in SUBSET {"backint", "perfdiag", "fio", "silent", "compute"}
              /\ failed \in BOOLEAN /\ (PartsOf("backup") \subseteq parts \/ failed)
          BY DEF PartsOf
        <5>3. Perform(p, "backup", parts, failed)
          BY <5>1
        <5> HIDE DEF parts, failed
        <5> QED  BY <5>2, <5>3 DEF Operations
      <4> QED  BY <4>1, <4>2
    <3>2. CASE RunFIOCommands(p)
      BY <3>2 DEF RunFIOCommands, Operations, PartsOf
    <3>3. CASE ComputeData(p)
      BY <3>3 DEF ComputeData, Operations, PartsOf
    <3> QED  BY <1>4, <3>1, <3>2, <3>3
  <2>2. /\ UNCHANGED <<diag, archive, sent, exit>> /\ diag[p] = "operations" /\ work \in ops[p]
        /\ ops' = [ops EXCEPT ![p] = @ \ {work}] /\ folder' = [folder EXCEPT ![p] = @ \cup parts]
        /\ errors' = [errors EXCEPT ![p] = @ \/ failed]
    BY <2>1 DEF Perform, Add, Note, Collecting, ArchiveKept
  <2>3. DiagTypes'
    BY <1>1, <2>1, <2>2 DEF DiagTypes
  <2>4. ~errors'[p] => Collected(p)'
    BY <1>1, <2>1, <2>2 DEF DiagTypes, ReportInv, Collected
  <2>5. ReportInv(p)'
    BY <1>1, <2>1, <2>2, <2>4 DEF DiagTypes, ReportInv
  <2>6. \A r \in Reports : r # p => ReportInv(r)'
    BY <1>1, <2>2, OthersKeepReport DEF DiagTypes
  <2> QED  BY <2>3, <2>5, <2>6 DEF DiagInv
<1>5. CASE AddLog(p)
  <2>1. /\ UNCHANGED <<ops, archive, sent, exit>> /\ diag[p] = "operations" /\ ops[p] = {}
        /\ diag' = [diag EXCEPT ![p] = "zip"]
        /\ \/ folder' = [folder EXCEPT ![p] = @ \cup {"log"}] /\ UNCHANGED errors
           \/ UNCHANGED folder /\ errors' = [errors EXCEPT ![p] = TRUE]
    BY <1>5 DEF AddLog, To, Add, Note, Collecting, ArchiveKept
  <2>2. DiagTypes'
    BY <1>1, <2>1 DEF DiagTypes
  <2>3. ReportInv(p)'
    BY <1>1, <2>1 DEF DiagTypes, ReportInv, Collected, Whole
  <2>4. \A r \in Reports : r # p => ReportInv(r)'
    BY <1>1, <2>1, OthersKeepReport DEF DiagTypes
  <2> QED  BY <2>2, <2>3, <2>4 DEF DiagInv
<1>6. CASE CreateTemp(p)
  <2>1. /\ UNCHANGED <<ops, folder, archive, sent, exit>> /\ diag[p] = "zip"
        /\ \/ diag' = [diag EXCEPT ![p] = "rename"] /\ UNCHANGED errors
           \/ diag' = [diag EXCEPT ![p] = "upload"] /\ errors' = [errors EXCEPT ![p] = TRUE]
    BY <1>6 DEF CreateTemp, To, Note
  <2>2. DiagTypes'
    BY <1>1, <2>1 DEF DiagTypes
  <2>3. ReportInv(p)'
    BY <1>1, <2>1 DEF DiagTypes, ReportInv, Collected, Whole
  <2>4. \A r \in Reports : r # p => ReportInv(r)'
    BY <1>1, <2>1, OthersKeepReport DEF DiagTypes
  <2> QED  BY <2>2, <2>3, <2>4 DEF DiagInv
<1>7. CASE Rename(p)
  <2>1. /\ UNCHANGED <<ops, folder, sent, exit>> /\ diag[p] = "rename"
        /\ diag' = [diag EXCEPT ![p] = "upload"]
        /\ \/ /\ temp # "none" /\ UNCHANGED errors
              /\ archive' = [archive EXCEPT ![p] = [file |-> temp, parts |-> folder[p]]]
           \/ UNCHANGED archive /\ errors' = [errors EXCEPT ![p] = TRUE]
    BY <1>7 DEF Rename, To, Note
  <2>2. DiagTypes'
    BY <1>1, <2>1 DEF DiagTypes
  <2>3. ReportInv(p)'
    BY <1>1, <2>1 DEF DiagTypes, ReportInv, Collected, Whole
  <2>4. \A r \in Reports : r # p => ReportInv(r)'
    BY <1>1, <2>1, OthersKeepReport DEF DiagTypes
  <2> QED  BY <2>2, <2>3, <2>4 DEF DiagInv
<1>8. CASE UploadZip(p)
  <2>1. /\ UNCHANGED <<ops, archive, exit>> /\ diag[p] = "upload"
        /\ diag' = [diag EXCEPT ![p] = "report"]
        /\ \/ ~request[p].outputBucket /\ UNCHANGED <<folder, errors, sent>>
           \/ /\ sent' = sent \cup {p}
              /\ \/ folder' = [folder EXCEPT ![p] = {}] /\ UNCHANGED errors
                 \/ UNCHANGED folder /\ errors' = [errors EXCEPT ![p] = TRUE]
           \/ UNCHANGED <<folder, sent>> /\ errors' = [errors EXCEPT ![p] = TRUE]
    BY <1>8 DEF UploadZip, To, Note
  <2>2. DiagTypes'
    BY <1>1, <2>1 DEF DiagTypes
  <2>3. ReportInv(p)'
    BY <1>1, <2>1 DEF DiagTypes, ReportInv, Collected, Whole
  <2>4. \A r \in Reports : r # p => ReportInv(r)'
    BY <1>1, <2>1, OthersKeepReport DEF DiagTypes
  <2> QED  BY <2>2, <2>3, <2>4 DEF DiagInv
<1>9. CASE ReportErrors(p)
  <2>1. /\ UNCHANGED <<ops, folder, errors, archive, sent>> /\ diag[p] = "report"
        /\ diag' = [diag EXCEPT ![p] = "done"]
        /\ exit' = [exit EXCEPT ![p] = IF errors[p] THEN "failure" ELSE "success"]
    BY <1>9 DEF ReportErrors, Leave, To, ArchiveKept
  <2>2. DiagTypes'
    BY <1>1, <2>1 DEF DiagTypes
  <2>3. ReportInv(p)'
    BY <1>1, <2>1 DEF DiagTypes, ReportInv, Collected, Whole
  <2>4. \A r \in Reports : r # p => ReportInv(r)'
    BY <1>1, <2>1, OthersKeepReport DEF DiagTypes
  <2> QED  BY <2>2, <2>3, <2>4 DEF DiagInv
<1> QED
  BY <1>2, <1>3, <1>4, <1>5, <1>6, <1>7, <1>8, <1>9 DEF DiagStep

(* diagnosticsHandler: a report that ends with success is whole and was sent when it
   should be, and what was collected is gone only when it was sent, with any number of
   reports at once. *)
THEOREM ReportsAreWhole == DiagSpec => []ReportIsWhole
<1>1. DiagInit => DiagInv
  <2> SUFFICES ASSUME DiagInit PROVE DiagInv
    OBVIOUS
  <2>1. DiagTypes
    BY DEF DiagInit, DiagTypes
  <2>2. ASSUME NEW r \in Reports PROVE ReportInv(r)
    <3>1. diag[r] = "validate" /\ exit[r] = "none" /\ archive[r].parts = {}
      BY DEF DiagInit
    <3> QED  BY <3>1 DEF ReportInv
  <2> QED  BY <2>1, <2>2 DEF DiagInv
<1>2. DiagInv /\ [DiagNext]_diagVars => DiagInv'
  <2> SUFFICES ASSUME DiagInv, [DiagNext]_diagVars PROVE DiagInv'
    OBVIOUS
  <2>1. CASE DiagNext
    BY <2>1, ReportStep DEF DiagNext
  <2>2. CASE UNCHANGED diagVars
    BY <2>2 DEF diagVars, DiagInv, DiagTypes, ReportInv, Collected
  <2> QED  BY <2>1, <2>2
<1>3. DiagInv => ReportIsWhole
  <2> SUFFICES ASSUME DiagInv, NEW r \in Reports
               PROVE  /\ exit[r] = "success" =>
                           /\ archive[r].file # "none"
                           /\ Parts(request[r]) \ {"fio"} \subseteq archive[r].parts
                           /\ request[r].outputBucket => r \in sent
                      /\ archive[r].parts # {} /\ folder[r] = {} => r \in sent
    BY DEF ReportIsWhole
  <2>1. ReportInv(r)
    BY DEF DiagInv
  <2> QED  BY <2>1, WholeHasParts DEF ReportInv
<1> QED
  BY <1>1, <1>2, <1>3, PTL DEF DiagSpec

------------------------------------------------------------------------------------
(* GroupServices: the URL that a service remembers between its calls. *)

(* The calls that delete a group and poll the operation. *)
Deletions == {"DeleteISG", "DeleteSG"}

(* Where a call is. *)
CallTypes ==
    /\ kind \in {"isg", "sg"}
    /\ phase \in {"none", "wait", "status", "request", "pages", "poll"}
    /\ method = "none" <=> phase = "none"
    /\ method # "none" => method \in Calls
    /\ phase = "wait" => method = "DeleteSG"
    /\ phase = "status" => Waiting(method)
    /\ phase = "request" => ~Waiting(method)
    /\ phase = "pages" => Listing(method)
    /\ phase = "poll" => method \in Deletions

(* The URL that is remembered is none, the resource of the call itself, or, in the
   service of the standard snapshot groups, one that only ListSGs would take. *)
UrlInv ==
    /\ kind = "isg" => baseURL = "" \/ (phase = "request" /\ baseURL = Resource(method))
    /\ phase = "request" /\ method = "DeleteSG" => baseURL = "group"
    /\ phase = "poll" => baseURL = ""
    /\ phase = "pages" /\ method # "ListSGs" => target = Resource(method)
    /\ (phase = "poll" \/ tries > 0) /\ method \notin {"none", "ListSGs"} =>
         target \in {Resource(method), "operation"}

(* What Compute Engine does with the group meanwhile. *)
DeletionInv ==
    /\ phase = "poll" => op \in {"running", "done", "failed"} /\ (op = "done" => group = "none")
    /\ op = "running" => group \notin {"none", "creating"}

(* What a result that is a success has been. *)
ResultInv ==
    /\ result.is = "success" =>
         /\ method = "none"
         /\ IF result.of \in Deletions THEN target = "operation" /\ group = "none" /\ op = "done"
            ELSE /\ result.of # "ListSGs" => target = Resource(result.of)
                 /\ result.of \in {"WaitForISGUpload", "WaitForSGUpload"} =>
                      group = "ready" \/ op = "done"

(* The inductive invariant of the services. *)
GroupInv == CallTypes /\ UrlInv /\ DeletionInv /\ ResultInv

(* The resources of the calls that this argument looks at one by one. *)
LEMMA ResourceOf ==
  /\ \A c : Waiting(c) => Resource(c) = "group"
  /\ \A c \in Deletions : Resource(c) = "group"
<1>1. \A c : c \in {"WaitForISGUpload", "WaitForSGCreation", "WaitForSGUpload", "GetSG", "DeleteISG", "DeleteSG"} =>
        Resource(c) = "group"
  <2> SUFFICES ASSUME NEW c, c \in {"WaitForISGUpload", "WaitForSGCreation", "WaitForSGUpload", "GetSG",
                                    "DeleteISG", "DeleteSG"}
               PROVE  Resource(c) = "group"
    OBVIOUS
  <2>1. /\ c \notin {"CreateISG", "ListInstantSnapshotGroups", "CreateSG", "ListSGs"}
        /\ c \notin {"DescribeInstantSnapshots", "ListSnapshotsFromSG"}
        /\ c # "BulkInsertFromSG" /\ c # "ListDisksFromSnapshot"
    OBVIOUS
  <2> QED  BY <2>1, Zenon DEF Resource
<1> QED  BY <1>1 DEF Waiting, Deletions

(* A request goes to the resource of its own call. *)
LEMMA RememberedIsOwn ==
  ASSUME CallTypes, UrlInv, phase = "request", method # "ListSGs"
  PROVE  Remembered(method, Resource(method)) = Resource(method)
<1>1. CASE kind = "isg"
  BY <1>1 DEF UrlInv, Remembered
<1>2. CASE kind = "sg"
  <2>1. method \in SGCalls
    BY <1>2 DEF CallTypes, Calls
  <2>2. CASE method = "DeleteSG"
    BY <2>2, ResourceOf DEF UrlInv, Remembered, Deletions
  <2>3. CASE method # "DeleteSG"
    BY <2>1, <2>3 DEF Remembered, SGCalls, ISGCalls
  <2> QED  BY <2>2, <2>3
<1> QED  BY <1>1, <1>2 DEF CallTypes

(* One look at the group. *)
LEMMA LookKeeps == GroupInv /\ Look => GroupInv'
<1> SUFFICES ASSUME GroupInv, Look PROVE GroupInv'
  OBVIOUS
<1>1. /\ CallTypes /\ UrlInv /\ DeletionInv /\ ResultInv
      /\ phase \in {"wait", "status"} /\ target' = "group" /\ UNCHANGED <<kind, group, op>>
      /\ baseURL' = IF kind = "sg" THEN "group" ELSE baseURL
      /\ Resource(method) = "group" /\ method # "none"
  BY ResourceOf DEF GroupInv, Look, CallTypes, Deletions
<1>2. \/ phase = "wait" /\ phase' = "request" /\ tries' = 0 /\ UNCHANGED <<method, result>>
      \/ /\ phase = "status" /\ Enough(method) /\ tries' = tries /\ method' = "none" /\ phase' = "none"
         /\ result' = [of |-> method, is |-> "success"]
      \/ UNCHANGED <<method, phase, result>>
      \/ /\ tries' = tries /\ method' = "none" /\ phase' = "none"
         /\ result' = [of |-> method, is |-> "error"]
  BY <1>1 DEF Look, Again, GiveUp, Return
<1>3. CallTypes'
  BY <1>1, <1>2 DEF CallTypes, Calls, Waiting, SGCalls, ISGCalls
<1>4. kind = "isg" => baseURL = "" /\ phase = "status"
  BY <1>1 DEF UrlInv, CallTypes, Calls, ISGCalls
<1>5. UrlInv'
  BY <1>1, <1>2, <1>4 DEF UrlInv, CallTypes
<1>6. DeletionInv'
  BY <1>1, <1>2 DEF DeletionInv
<1>7. phase = "status" /\ Enough(method) /\ method \in {"WaitForISGUpload", "WaitForSGUpload"} =>
        group = "ready"
  BY DEF Enough
<1>8. ResultInv'
  BY <1>1, <1>2, <1>7 DEF ResultInv, CallTypes, Waiting, Deletions
<1> QED  BY <1>3, <1>5, <1>6, <1>8 DEF GroupInv

(* The requests that change something: repeated at the URL of the first. *)
LEMMA RequestKeeps == GroupInv /\ Request => GroupInv'
<1> SUFFICES ASSUME GroupInv, Request PROVE GroupInv'
  OBVIOUS
<1>1. /\ CallTypes /\ UrlInv /\ DeletionInv /\ ResultInv /\ phase = "request" /\ Repeated(method)
      /\ UNCHANGED kind /\ method # "none"
      /\ method \in Deletions <=> method \in {"DeleteISG", "DeleteSG"}
  BY DEF GroupInv, Request, CallTypes, Deletions
<1>2. method # "ListSGs" /\ method \notin {"WaitForISGUpload", "WaitForSGUpload"}
  BY <1>1 DEF Repeated
<1>3. Remembered(method, Resource(method)) = Resource(method)
  BY <1>1, <1>2, RememberedIsOwn
<1>4. target' = Resource(method) /\ (method \in Deletions => Resource(method) = "group")
  BY <1>3, ResourceOf DEF Request
<1>5. \/ /\ method \in Deletions /\ Effect(Resource(method)) /\ phase' = "poll" /\ tries' = 0
         /\ UNCHANGED <<method, result>> /\ Forget(Resource(method))
      \/ /\ method \notin Deletions /\ Effect(Resource(method)) /\ Forget(Resource(method))
         /\ tries' = tries /\ method' = "none" /\ phase' = "none"
         /\ result' = [of |-> method, is |-> "success"]
      \/ /\ Effect(Resource(method)) \/ UNCHANGED <<group, op>>
         /\ UNCHANGED <<method, phase, result>> /\ baseURL' = Resource(method)
      \/ /\ Effect(Resource(method)) \/ UNCHANGED <<group, op>>
         /\ method' = "none" /\ phase' = "none" /\ result' = [of |-> method, is |-> "error"]
         /\ Forget(Resource(method))
  BY <1>1, <1>3 DEF Request, Again, GiveUp, Return
<1>6. CallTypes'
  BY <1>1, <1>5 DEF CallTypes, Calls
<1>7. kind = "sg" => method # "DeleteISG"
  BY <1>1 DEF CallTypes, Calls, SGCalls
<1>8. method \in Deletions => (Forget(Resource(method)) => baseURL' = "")
  BY <1>1, <1>7 DEF Forget, Deletions, CallTypes
<1>9. UrlInv'
  <2>1. kind' = "isg" => baseURL' = "" \/ (phase' = "request" /\ baseURL' = Resource(method)
                                             /\ method' = method)
    BY <1>1, <1>5 DEF Forget
  <2>2. phase' = "request" /\ method' = "DeleteSG" => baseURL' = "group"
    BY <1>1, <1>4, <1>5 DEF Deletions
  <2>3. phase' = "poll" => baseURL' = ""
    BY <1>1, <1>5, <1>8
  <2>4. phase' # "pages" /\ (method' \notin {"none", "ListSGs"} => target' = Resource(method)
                                             /\ method' = method)
    BY <1>1, <1>4, <1>5
  <2> QED  BY <2>1, <2>2, <2>3, <2>4 DEF UrlInv
<1>10. DeletionInv'
  BY <1>1, <1>5 DEF DeletionInv, Effect, Deletions
<1>11. ResultInv'
  BY <1>1, <1>2, <1>4, <1>5 DEF ResultInv
<1> QED  BY <1>6, <1>9, <1>10, <1>11 DEF GroupInv

(* isgExists and sgExists: a deletion succeeds when its operation is done. *)
LEMMA PollKeeps == GroupInv /\ Poll => GroupInv'
<1> SUFFICES ASSUME GroupInv, Poll PROVE GroupInv'
  OBVIOUS
<1>1. /\ CallTypes /\ UrlInv /\ DeletionInv /\ ResultInv /\ phase = "poll" /\ baseURL = ""
      /\ UNCHANGED <<kind, group, op>> /\ method # "none"
      /\ method \in Deletions
  BY DEF GroupInv, Poll, CallTypes, UrlInv
<1>2. /\ target' = "operation" /\ baseURL' = ""
      /\ \/ op = "done" /\ method' = "none" /\ phase' = "none"
            /\ result' = [of |-> method, is |-> "success"]
         \/ UNCHANGED <<method, phase, result>>
         \/ method' = "none" /\ phase' = "none" /\ result' = [of |-> method, is |-> "error"]
  BY <1>1 DEF Poll, Again, GiveUp, Return
<1>3. CallTypes'
  BY <1>1, <1>2 DEF CallTypes, Calls
<1>4. UrlInv'
  BY <1>1, <1>2 DEF UrlInv
<1>5. DeletionInv'
  BY <1>1, <1>2 DEF DeletionInv
<1>6. ResultInv'
  <2>1. CASE op = "done" /\ method' = "none" /\ result' = [of |-> method, is |-> "success"]
    <3>1. result'.of \in Deletions /\ target' = "operation" /\ group' = "none" /\ op' = "done"
      BY <1>1, <1>2, <2>1 DEF DeletionInv
    <3> QED  BY <2>1, <3>1 DEF ResultInv
  <2>2. CASE UNCHANGED <<method, phase, result>>
    BY <1>1, <2>2 DEF ResultInv
  <2>3. CASE result' = [of |-> method, is |-> "error"]
    BY <2>3 DEF ResultInv
  <2> QED  BY <1>2, <2>1, <2>2, <2>3
<1> QED  BY <1>3, <1>4, <1>5, <1>6 DEF GroupInv

(* The lists: every page comes from the URL of the first. *)
LEMMA ReadPageKeeps == GroupInv /\ ReadPage => GroupInv'
<1> SUFFICES ASSUME GroupInv, ReadPage PROVE GroupInv'
  OBVIOUS
<1>1. /\ CallTypes /\ UrlInv /\ DeletionInv /\ ResultInv /\ phase \in {"request", "pages"}
      /\ Listing(method) /\ UNCHANGED <<kind, tries, group, op>> /\ method # "none"
  BY DEF GroupInv, ReadPage, CallTypes
<1>2. method \notin Deletions /\ method \notin {"WaitForISGUpload", "WaitForSGUpload"}
      /\ method # "DeleteSG"
  BY <1>1 DEF Listing, Deletions
<1>3. /\ method # "ListSGs" => target' = Resource(method)
      /\ kind = "isg" => baseURL' = ""
      /\ \/ phase' = "pages" /\ UNCHANGED <<method, result>>
         \/ method' = "none" /\ phase' = "none" /\ \E how \in {"success", "error"} :
              result' = [of |-> method, is |-> how]
  <2>1. CASE phase = "request"
    <3>1. target' = Remembered(method, Resource(method))
      BY <2>1 DEF ReadPage
    <3>2. method # "ListSGs" => target' = Resource(method)
      BY <1>1, <2>1, <3>1, RememberedIsOwn
    <3> QED  BY <3>2 DEF ReadPage, Forget, Return
  <2>2. CASE phase = "pages"
    <3>1. method # "ListSGs" => target' = Resource(method)
      BY <1>1, <2>2 DEF ReadPage, UrlInv
    <3> QED  BY <3>1 DEF ReadPage, Forget, Return
  <2> QED  BY <1>1, <2>1, <2>2
<1>4. CallTypes'
  BY <1>1, <1>3 DEF CallTypes, Calls
<1>5. UrlInv'
  BY <1>1, <1>2, <1>3 DEF UrlInv
<1>6. DeletionInv'
  BY <1>1, <1>3 DEF DeletionInv
<1>7. ResultInv'
  <2>1. CASE UNCHANGED <<method, result>>
    BY <1>1, <2>1 DEF ResultInv
  <2>2. CASE method' = "none" /\ \E how \in {"success", "error"} : result' = [of |-> method, is |-> how]
    <3>1. result'.of = method
      BY <2>2
    <3> QED  BY <1>2, <1>3, <2>2, <3>1 DEF ResultInv
  <2> QED  BY <1>3, <2>1, <2>2
<1> QED  BY <1>4, <1>5, <1>6, <1>7 DEF GroupInv

(* A call begins when none is under way. *)
LEMMA BeginKeeps ==
  ASSUME GroupInv, NEW c \in ISGCalls \cup SGCalls, Begin(c)
  PROVE  GroupInv'
<1>1. /\ CallTypes /\ UrlInv /\ DeletionInv /\ method = "none" /\ c \in Calls /\ method' = c
      /\ result' = [of |-> c, is |-> "none"] /\ tries' = 0
      /\ UNCHANGED <<kind, baseURL, target, group, op>>
      /\ phase' = IF c = "DeleteSG" THEN "wait" ELSE IF Waiting(c) THEN "status" ELSE "request"
  BY DEF GroupInv, Begin
<1>2. c # "none" /\ (c = "DeleteSG" => ~Waiting(c))
  BY DEF ISGCalls, SGCalls, Waiting
<1>3. CallTypes'
  BY <1>1, <1>2 DEF CallTypes, Calls
<1>4. UrlInv'
  <2>1. ~(tries' > 0) /\ phase' \notin {"poll", "pages"} /\ (method' = "DeleteSG" => phase' = "wait")
    BY <1>1
  <2>2. kind' = "isg" => baseURL' = ""
    BY <1>1 DEF UrlInv, CallTypes
  <2> QED  BY <2>1, <2>2 DEF UrlInv
<1>5. DeletionInv' /\ ResultInv'
  BY <1>1 DEF DeletionInv, ResultInv
<1> QED  BY <1>3, <1>4, <1>5 DEF GroupInv

(* Compute Engine goes on with the group whatever the caller does. *)
LEMMA ProviderKeeps == GroupInv /\ Provider => GroupInv'
<1> SUFFICES ASSUME GroupInv, Provider PROVE GroupInv'
  OBVIOUS
<1>1. CallTypes' /\ UrlInv'
  BY DEF GroupInv, Provider, CallTypes, UrlInv, Calls
<1>2. DeletionInv'
  BY DEF GroupInv, Provider, DeletionInv
<1>3. ResultInv'
  BY DEF GroupInv, Provider, ResultInv
<1> QED  BY <1>1, <1>2, <1>3 DEF GroupInv

(* setBaseURL and the calls around it: each request goes to the resource of its own call,
   and a call that succeeds has done what its name says, for any number of repetitions
   and pages, and with any of the answers lost. *)
THEOREM RequestsReachTheirResource == GroupSpec => []CallsReachTheirResource
<1>1. GroupInit => GroupInv
  <2> SUFFICES ASSUME GroupInit PROVE GroupInv
    OBVIOUS
  <2>1. phase = "none" /\ method = "none" /\ baseURL = "" /\ op = "none" /\ ~(tries > 0)
    <3>1. phase = "none" /\ method = "none" /\ baseURL = "" /\ op = "none"
      BY DEF GroupInit
    <3>2. tries = 0
      BY DEF GroupInit
    <3>3. ~(tries > 0)
      BY <3>2
    <3> QED  BY <3>1, <3>3
  <2>2. result.is = "none"
    <3>1. result = [of |-> "none", is |-> "none"]
      BY DEF GroupInit
    <3> QED  BY <3>1
  <2> QED  BY <2>1, <2>2 DEF GroupInit, GroupInv, CallTypes, UrlInv, DeletionInv, ResultInv
<1>2. GroupInv /\ [GroupNext]_gsVars => GroupInv'
  <2> SUFFICES ASSUME GroupInv, [GroupNext]_gsVars PROVE GroupInv'
    OBVIOUS
  <2>1. CASE GroupNext
    BY <2>1, BeginKeeps, LookKeeps, RequestKeeps, PollKeeps, ReadPageKeeps, ProviderKeeps
       DEF GroupNext
  <2>2. CASE UNCHANGED gsVars
    BY <2>2 DEF gsVars, GroupInv, CallTypes, UrlInv, DeletionInv, ResultInv, Calls
  <2> QED  BY <2>1, <2>2
<1>3. GroupInv => CallsReachTheirResource
  BY DEF GroupInv, UrlInv, ResultInv, Deletions, CallsReachTheirResource
<1> QED
  BY <1>1, <1>2, <1>3, PTL DEF GroupSpec

------------------------------------------------------------------------------------
(* MaintenanceMode: the file between the commands. *)

(* Where each update is, and that lists hold SIDs. *)
ModeTypes ==
    /\ updateAt = [u \in Updates |-> updateAt[u]] /\ knew \in [Updates -> SUBSET SIDs]
    /\ intended \subseteq SIDs /\ doubtful \subseteq SIDs
    /\ modeFile \in {Absent, Empty, Torn} \cup SUBSET SIDs

(* The SIDs of which nothing may have been lost are in these lists as they should be. *)
ModesKept(sids, asked) == \A s \in SIDs \ doubtful : s \in sids <=> s \in asked

(* The file, unless it is being written, and what each command under way is about to
   write hold what was asked for, but for the SIDs that are in doubt. *)
ModeInv ==
    /\ ModeTypes
    /\ modeFile = Torn => doubtful = SIDs
    /\ \A u \in UnderWay : /\ ModesKept(knew[u], Changed(u, intended))
                           /\ UpdateOf[u].sid \in knew[u] <=> UpdateOf[u].enable
    /\ Writing = {} => ModesKept(ReadMode, intended)

(* A set of SIDs is none of the contents that stand for a file without a list. *)
LEMMA SidsAreRead ==
  ASSUME NEW s \in SUBSET SIDs
  PROVE  s \notin {Absent, Empty, Torn}
BY MaintenanceModeAssumption DEF Absent, Empty, Torn

(* The contents that are no list differ. *)
LEMMA NoLists == Absent # Torn /\ Empty # Torn /\ Empty # {"error"}
BY DEF Absent, Empty, Torn

(* A readable file names SIDs, and so does what a command makes of them. *)
LEMMA ListsHoldSids ==
  ASSUME ModeTypes, NEW u \in Updates
  PROVE  /\ Readable => ReadMode \in SUBSET SIDs
         /\ \A sids \in SUBSET SIDs : Changed(u, sids) \in SUBSET SIDs
<1>1. UpdateOf[u].sid \in SIDs
  BY MaintenanceModeAssumption
<1>2. \A sids \in SUBSET SIDs : Changed(u, sids) \in SUBSET SIDs
  BY <1>1 DEF Changed
<1> QED  BY <1>2 DEF ModeTypes, ReadMode, Readable

(* UpdateMaintenanceMode until it writes: it reads what the updates before it wrote. *)
LEMMA UpdateKeeps ==
  ASSUME ModeInv, NEW u \in Updates, UpdateMaintenanceMode(u)
  PROVE  ModeInv'
<1>1. /\ ModeTypes /\ updateAt[u] = "idle" /\ UNCHANGED <<modeFile, intended, report>>
  BY DEF ModeInv, UpdateMaintenanceMode
<1>2. Writing' = Writing /\ ReadMode' = ReadMode
  BY <1>1 DEF UpdateMaintenanceMode, UpdateAt, ModeTypes, Writing, ReadMode
<1>3. CASE updateAt' = [updateAt EXCEPT ![u] = "failed"] /\ UNCHANGED <<knew, doubtful>>
  <2>1. UnderWay' = UnderWay /\ ModeTypes'
    BY <1>1, <1>3 DEF ModeTypes, UnderWay
  <2> QED  BY <1>1, <1>2, <1>3, <2>1 DEF ModeInv, ModesKept, Changed
<1>4. CASE /\ Readable /\ updateAt' = [updateAt EXCEPT ![u] = "read"]
           /\ knew' = [knew EXCEPT ![u] = Changed(u, ReadMode)]
           /\ doubtful' = IF Writing # {} THEN SIDs ELSE doubtful
  <2>1. ModeTypes'
    BY <1>1, <1>4, ListsHoldSids DEF ModeTypes
  <2>2. UnderWay' = UnderWay \cup {u} /\ u \notin UnderWay
    BY <1>1, <1>4 DEF UnderWay, ModeTypes
  <2>3. \A v \in UnderWay' :
          v # u => /\ ModesKept(knew[v], Changed(v, intended))
                   /\ UpdateOf[v].sid \in knew[v] <=> UpdateOf[v].enable
    BY <2>2 DEF ModeInv
  <2>6. \A v \in UnderWay' : UpdateOf[v].sid \in knew'[v] <=> UpdateOf[v].enable
    BY <1>1, <1>4, <2>2, <2>3 DEF ModeTypes, UnderWay, Changed
  <2>4. CASE Writing # {}
    BY <1>1, <1>2, <1>4, <2>1, <2>4, <2>6 DEF ModeInv, ModesKept
  <2>5. CASE Writing = {}
    <3>1. doubtful' = doubtful /\ ModesKept(ReadMode, intended)
      BY <1>4, <2>5 DEF ModeInv
    <3>2. ModesKept(Changed(u, ReadMode), Changed(u, intended))
      BY <3>1 DEF ModesKept, Changed
    <3>3. \A v \in UnderWay' : ModesKept(knew'[v], Changed(v, intended))
      BY <1>1, <1>4, <2>2, <2>3, <3>2 DEF ModeTypes, UnderWay
    <3> QED  BY <1>1, <1>2, <2>1, <2>6, <3>1, <3>3 DEF ModeInv, ModesKept, Changed
  <2> QED  BY <2>4, <2>5
<1> QED  BY <1>3, <1>4 DEF UpdateMaintenanceMode, UpdateAt

(* os.WriteFile, its failures, and a command that dies. *)
LEMMA WriteKeeps ==
  ASSUME ModeInv, NEW u \in Updates, Truncate(u) \/ WriteMode(u) \/ WriteFails(u) \/ KillUpdate(u)
  PROVE  ModeInv'
<1>1. ModeTypes /\ u \in UnderWay
  BY DEF ModeInv, Truncate, WriteMode, WriteFails, KillUpdate, UnderWay
<1>2. ASSUME UNCHANGED <<knew, intended>>, doubtful' = SIDs,
             updateAt' = [updateAt EXCEPT ![u] = "failed"],
             modeFile' \in {modeFile, Torn, knew[u]}
      PROVE  ModeInv'
  <2>1. ModeTypes' /\ UnderWay' \subseteq UnderWay
    BY <1>1, <1>2 DEF ModeTypes, UnderWay
  <2> QED  BY <1>2, <2>1 DEF ModeInv, ModesKept
<1>3. ASSUME UNCHANGED <<knew, intended, doubtful, modeFile>>, updateAt[u] = "read",
             updateAt' = [updateAt EXCEPT ![u] = "failed"]
      PROVE  ModeInv'
  <2>1. ModeTypes' /\ UnderWay' \subseteq UnderWay /\ Writing' = Writing
    BY <1>1, <1>3 DEF ModeTypes, UnderWay, Writing
  <2> QED  BY <1>1, <1>3, <2>1 DEF ModeInv, ModesKept, Changed, ReadMode
<1>4. CASE Truncate(u)
  <2>1. CASE updateAt' = [updateAt EXCEPT ![u] = "truncated"] /\ modeFile' = Empty
    <3>1. UNCHANGED <<knew, intended, doubtful>> /\ updateAt[u] = "read"
      BY <1>4 DEF Truncate
    <3>2. ModeTypes' /\ UnderWay' = UnderWay /\ u \in Writing'
      BY <1>1, <2>1, <3>1 DEF ModeTypes, UnderWay, Writing
    <3> QED  BY <1>1, <2>1, <3>1, <3>2, NoLists DEF ModeInv, ModesKept, Changed
  <2> QED  BY <1>3, <1>4, <2>1 DEF Truncate, UpdateAt
<1>5. CASE WriteMode(u)
  <2>1. /\ UNCHANGED knew /\ updateAt[u] = "truncated" /\ intended' = Changed(u, intended)
        /\ updateAt' = [updateAt EXCEPT ![u] = "done"]
        /\ modeFile' \in {knew[u], Torn}
    BY <1>5 DEF WriteMode, UpdateAt
  <2>2. /\ UpdateOf[u].sid \in SIDs
        /\ doubtful' = IF modeFile' = Torn THEN SIDs
                       ELSE IF UnderWay = {u} THEN doubtful \ {UpdateOf[u].sid}
                                              ELSE doubtful \cup {UpdateOf[u].sid}
    BY <1>5, MaintenanceModeAssumption DEF WriteMode
  <2>3. Changed(u, intended) \in SUBSET SIDs
    BY <1>1, ListsHoldSids DEF ModeTypes
  <2>4. ModeTypes'
    BY <1>1, <2>1, <2>2, <2>3 DEF ModeTypes
  <2>5. UnderWay' = UnderWay \ {u}
    BY <1>1, <2>1 DEF UnderWay, ModeTypes
  <2>6. CASE modeFile' = Torn
    <3>1. doubtful' = SIDs
      BY <2>2, <2>6
    <3> QED  BY <2>1, <2>4, <2>5, <3>1 DEF ModeInv, ModesKept
  <2>7. CASE modeFile' = knew[u] /\ modeFile' # Torn
    <3>1. ModesKept(knew[u], Changed(u, intended))
      BY <1>1 DEF ModeInv
    <3>2. \A s \in SIDs \ doubtful' : s \in knew[u] <=> s \in intended'
      <4>1. SUFFICES ASSUME NEW s \in SIDs \ doubtful', s \in doubtful
                     PROVE  s \in knew[u] <=> s \in intended'
        BY <2>1, <3>1 DEF ModesKept
      <4>2. s = UpdateOf[u].sid
        BY <2>2, <2>7, <4>1
      <4>3. s \in knew[u] <=> UpdateOf[u].enable
        BY <4>1, <4>2, <1>1 DEF ModeInv
      <4>4. s \in Changed(u, intended) <=> UpdateOf[u].enable
        BY <4>2 DEF Changed
      <4> QED  BY <2>1, <4>3, <4>4
    <3>3. ReadMode' = knew[u]
      <4>1. knew[u] \in SUBSET SIDs
        BY <1>1 DEF ModeTypes, UnderWay
      <4> QED  BY <2>7, <4>1, SidsAreRead DEF ReadMode
    <3>4. ASSUME NEW v \in UnderWay'
          PROVE  \A s \in SIDs \ doubtful' : s \in knew'[v] <=> s \in Changed(v, intended')
      <4>1. v \in UnderWay /\ v # u
        BY <2>5
      <4>2. doubtful' = doubtful \cup {UpdateOf[u].sid}
        BY <2>2, <2>7, <4>1
      <4>3. ModesKept(knew[v], Changed(v, intended))
        BY <4>1 DEF ModeInv
      <4>4. \A s \in SIDs \ doubtful' : s \in Changed(v, intended') <=> s \in Changed(v, intended)
        BY <2>1, <4>2 DEF Changed
      <4> QED  BY <2>1, <4>2, <4>3, <4>4 DEF ModesKept
    <3>5. (\A v \in UnderWay : /\ ModesKept(knew[v], Changed(v, intended))
                               /\ UpdateOf[v].sid \in knew[v] <=> UpdateOf[v].enable)'
      BY <2>1, <2>5, <3>4 DEF ModeInv, ModesKept, Changed
    <3> QED  BY <2>4, <2>7, <3>2, <3>3, <3>5 DEF ModeInv, ModesKept
  <2> QED  BY <2>1, <2>6, <2>7
<1>6. CASE WriteFails(u)
  BY <1>2, <1>6 DEF WriteFails, UpdateAt
<1>7. CASE KillUpdate(u)
  <2>1. /\ UNCHANGED <<modeFile, knew, intended>> /\ updateAt' = [updateAt EXCEPT ![u] = "failed"]
        /\ doubtful' = IF u \in Writing THEN SIDs ELSE doubtful
    BY <1>7 DEF KillUpdate, UpdateAt
  <2>2. u \notin Writing => updateAt[u] = "read"
    BY <1>1 DEF UnderWay, Writing
  <2> QED  BY <1>2, <1>3, <2>1, <2>2
<1> QED  BY <1>4, <1>5, <1>6, <1>7

(* UpdateMaintenanceMode and the collector: the mode that was set is the mode that is
   kept and reported, for any systems and commands, but for SIDs that a command may
   have overwritten or lost. *)
THEOREM MaintenanceModeIsKept == MaintenanceSpec => ModeIsKept
<1>1. MaintenanceInit => ModeInv
  <2> SUFFICES ASSUME MaintenanceInit PROVE ModeInv
    OBVIOUS
  <2>1. ModeTypes /\ UnderWay = {} /\ ReadMode = intended /\ modeFile # Torn
    <3>1. modeFile \in {Absent, Empty, {}} /\ modeFile # Torn
      BY NoLists DEF MaintenanceInit, Torn
    <3> QED  BY <3>1 DEF MaintenanceInit, ModeTypes, UnderWay, ReadMode
  <2> QED  BY <2>1 DEF ModeInv, ModesKept
<1>2. ModeInv /\ [MaintenanceNext]_mmVars => ModeInv'
  <2> SUFFICES ASSUME ModeInv, [MaintenanceNext]_mmVars PROVE ModeInv'
    OBVIOUS
  <2>1. CASE \E u \in Updates : \/ UpdateMaintenanceMode(u) \/ Truncate(u) \/ WriteMode(u)
                                 \/ WriteFails(u) \/ KillUpdate(u)
    BY <2>1, UpdateKeeps, WriteKeeps
  <2>2. CASE ReportMode \/ UNCHANGED mmVars
    <3>1. UNCHANGED <<modeFile, updateAt, knew, intended, doubtful>>
      BY <2>2 DEF ReportMode, mmVars
    <3> QED  BY <3>1 DEF ModeInv, ModeTypes, UnderWay, Writing, ModesKept, Changed, ReadMode
  <2> QED  BY <2>1, <2>2 DEF MaintenanceNext
<1>3. ModeInv /\ [MaintenanceNext]_mmVars =>
        [LET kept(sids) == \A s \in SIDs \ doubtful : s \in sids <=> s \in intended
         IN /\ Writing = {} => kept(ReadMode)
            /\ report' # report /\ report' # {"error"} =>
                  Readable /\ report' \subseteq SIDs /\ (Writing = {} => kept(report'))]_mmVars
  <2> SUFFICES ASSUME ModeInv, MaintenanceNext
               PROVE  /\ Writing = {} => ModesKept(ReadMode, intended)
                      /\ report' # report /\ report' # {"error"} =>
                            /\ Readable /\ report' \subseteq SIDs
                            /\ Writing = {} => ModesKept(report', intended)
    BY DEF ModesKept
  <2>1. ModeTypes /\ (Writing = {} => ModesKept(ReadMode, intended))
    BY DEF ModeInv
  <2>2. report' # report /\ report' # {"error"} => Readable /\ report' = ReadMode
    BY DEF MaintenanceNext, ReportMode, UpdateMaintenanceMode, Truncate, WriteMode, WriteFails, KillUpdate
  <2>3. Readable => ReadMode \subseteq SIDs
    BY <2>1 DEF ModeTypes, ReadMode, Readable
  <2> QED  BY <2>1, <2>2, <2>3
<1> QED
  BY <1>1, <1>2, <1>3, PTL DEF MaintenanceSpec, ModeIsKept

------------------------------------------------------------------------------------
(* SupportBundle: rotation bounds what is left behind. *)

(* What may lie in the parent directory. *)
Entries == {Temp(Name[p]) : p \in Runs} \cup {Dir(Name[p]) : p \in Runs} \cup {Dir(Old[k]) : k \in DOMAIN Old}

(* A run that has not begun, or whose rotation has succeeded. *)
Passed(p) == pc[p] = "idle" \/ (pc[p] \in {"diagnose", "done"} /\ rotated[p])

(* The inductive invariant: a temporary zip belongs to a run that is about to move it, or
   was stopped before its rotation; and once every run has passed, the last rotation has
   left no more than the limit and nothing was written since. *)
BoundInv ==
    /\ age \in Seq(Entries) /\ rotated \in [Runs -> BOOLEAN] /\ pc = [p \in Runs |-> pc[p]]
    /\ temps = [t \in DOMAIN temps |-> temps[t]]
    /\ \A p \in Runs : rotated[p] => pc[p] \in {"diagnose", "done"}
    /\ \A t \in DOMAIN temps : \E q \in Runs :
         Name[q] = t /\ (pc[q] = "move" \/ (pc[q] = "done" /\ ~rotated[q]))
    /\ (\E p \in Runs : rotated[p]) /\ (\A p \in Runs : Passed(p)) => Len(age) <= Limit

(* What rotation and the writes make of the listing is a listing. *)
LEMMA EntriesKept ==
    ASSUME NEW s \in Seq(Entries), NEW S, NEW e \in Entries
    PROVE  Dropped(s, S) \in Seq(Entries) /\ Newest(s, e) \in Seq(Entries)
<1>1. \A T : Dropped(s, T) \in Seq(Entries)
  BY KeptElements DEF Dropped
<1>2. <<e>> \in Seq(Entries)
  OBVIOUS
<1>3. Dropped(s, {e}) \in Seq(Entries)
  BY <1>1
<1>4. <<e>> \o Dropped(s, {e}) \in Seq(Entries)
  BY <1>2, <1>3
<1> QED
  BY <1>1, <1>4 DEF Newest

(* The entries of a run. *)
LEMMA OwnEntries ==
    ASSUME NEW p \in Runs
    PROVE  Temp(Name[p]) \in Entries /\ Dir(Name[p]) \in Entries
BY DEF Entries

(* Rotation leaves as many entries as the limit says, whatever there was. *)
LEMMA RotationBounds ==
    ASSUME NEW R, NEW s \in Seq(R)
    PROVE  Len(Dropped(s, {s[k] : k \in (Limit + 1)..Len(s)})) <= Limit
<1> DEFINE old == {s[k] : k \in (Limit + 1)..Len(s)}
           S == {s[i] : i \in DOMAIN s} \ old
           q == Kept(s, S)
<1>1. Len(s) \in Nat /\ Limit \in Nat
  BY RotationAssumption
<1>2. \A i \in 1..Len(s) : s[i] \in S => i \in 1..Limit
  <2> SUFFICES ASSUME NEW i \in 1..Len(s), i \notin 1..Limit PROVE s[i] \in old
    OBVIOUS
  <2>1. i \in (Limit + 1)..Len(s)
    BY <1>1
  <2> QED
    BY <2>1
<1> HIDE DEF S
<1>3. q \in Seq(R) /\ \E f : Selects(f, q, Len(s), s, S)
  BY KeptSelects
<1>4. PICK f : Selects(f, q, Len(s), s, S)
  BY <1>3
<1> HIDE DEF q
<1>5. Len(q) \in Nat
  BY <1>3
<1>6. \A j \in 1..Len(q) : f[j] \in 1..Limit
  BY <1>2, <1>4 DEF Selects
<1>7. f \in [1..Len(q) -> 1..Limit]
  <2>1. f = [j \in 1..Len(q) |-> f[j]]
    BY <1>4 DEF Selects
  <2> QED
    BY <1>6, <2>1
<1>8. \A j, k \in 1..Len(q) : j < k => f[j] < f[k]
  BY <1>4 DEF Selects
<1>9. Len(q) <= Limit
  BY <1>1, <1>5, <1>7, <1>8, NoMorePlaces
<1> QED
  BY <1>9 DEF q, S, Dropped

(* The steps before the rotation: the run has not passed, and only its own zip is new. *)
LEMMA WorkSteps ==
    ASSUME BoundInv, NEW p \in Runs,
           \/ Launch(p) \/ Validate(p) \/ Discover(p) \/ Extract(p) \/ Copy(p) \/ Gather(p) \/ GatherMetrics(p)
           \/ ZipBundle(p) \/ Move(p) \/ Upload(p)
    PROVE  /\ pc' = [pc EXCEPT ![p] = pc'[p]] /\ pc'[p] \notin {"idle", "diagnose"}
           /\ pc[p] \notin {"diagnose", "done"}
           /\ UNCHANGED rotated /\ age' \in Seq(Entries)
           /\ temps' = [t \in DOMAIN temps' |-> temps'[t]]
           /\ \A t \in DOMAIN temps' : \/ t \in DOMAIN temps /\ ~(pc[p] = "move" /\ t = Name[p])
                                       \/ t = Name[p] /\ pc'[p] = "move"
<1>1. /\ age \in Seq(Entries) /\ pc = [q \in Runs |-> pc[q]]
      /\ temps = [t \in DOMAIN temps |-> temps[t]]
  BY DEF BoundInv
<1>2. \A some, makes : Write(p, some, makes) => age' \in Seq(Entries)
  BY <1>1, EntriesKept, OwnEntries DEF Write
<1>3. UNCHANGED parent => age' \in Seq(Entries) /\ UNCHANGED temps
  BY <1>1 DEF parent
<1>4. CASE Launch(p)
  BY <1>1, <1>3, <1>4 DEF Launch, Goto
<1>5. CASE Validate(p)
  BY <1>1, <1>2, <1>3, <1>5 DEF Validate, End, Goto
<1>6. CASE Discover(p)
  BY <1>1, <1>2, <1>3, <1>6 DEF Discover, End, Goto
<1>7. CASE Extract(p)
  <2>1. PICK some : Write(p, some, FALSE)
    BY <1>7 DEF Extract
  <2> QED
    BY <1>1, <1>2, <1>7, <2>1 DEF Extract, Goto
<1>8. CASE Copy(p)
  BY <1>1, <1>2, <1>8 DEF Copy, Goto
<1>9. CASE Gather(p)
  <2>1. UNCHANGED parent \/ (UNCHANGED temps /\ \E some : Write(p, some, FALSE))
    BY <1>9 DEF Gather
  <2>2. age' \in Seq(Entries) /\ UNCHANGED temps
    BY <1>2, <1>3, <2>1
  <2>3. pc[p] = "gather" /\ UNCHANGED rotated /\ \E s \in {"done", "metrics", "zip"} : pc' = [pc EXCEPT ![p] = s]
    BY <1>9 DEF Gather, End, Goto
  <2> QED
    BY <1>1, <2>2, <2>3
<1>10. CASE GatherMetrics(p)
  BY <1>1, <1>2, <1>10 DEF GatherMetrics, Goto
<1>11. CASE ZipBundle(p)
  <2>1. pc[p] = "zip" /\ UNCHANGED rotated
    BY <1>11 DEF ZipBundle
  <2>2. ASSUME NEW zip, temps' = Put(temps, Name[p], zip), age' = Newest(age, Temp(Name[p])), Goto(p, "move")
        PROVE  /\ pc' = [pc EXCEPT ![p] = "move"] /\ age' \in Seq(Entries)
               /\ temps' = [t \in DOMAIN temps' |-> temps'[t]]
               /\ \A t \in DOMAIN temps' : t \in DOMAIN temps \/ t = Name[p]
    BY <1>1, <2>1, <2>2, EntriesKept, OwnEntries DEF Goto, Put
  <2>3. CASE \E zip : temps' = Put(temps, Name[p], zip) /\ age' = Newest(age, Temp(Name[p])) /\ Goto(p, "move")
    BY <1>1, <2>1, <2>2, <2>3
  <2>4. CASE Goto(p, "upload") /\ UNCHANGED <<temps, age>>
    BY <1>1, <2>1, <2>4 DEF Goto
  <2>5. CASE Goto(p, "upload") /\ temps' = Drop(temps, Name[p]) /\ age' = Dropped(age, {Temp(Name[p])})
    BY <1>1, <2>1, <2>5, EntriesKept, OwnEntries DEF Goto, Drop
  <2> QED
    BY <1>11, <2>3, <2>4, <2>5 DEF ZipBundle
<1>12. CASE Move(p)
  <2>1. pc[p] = "move" /\ UNCHANGED rotated /\ pc' = [pc EXCEPT ![p] = "upload"]
        /\ temps' = [m \in DOMAIN temps \ {Name[p]} |-> temps[m]]
    BY <1>12 DEF Move, Goto, Drop
  <2>2. Dropped(age, {Temp(Name[p])}) \in Seq(Entries)
    BY <1>1, EntriesKept, OwnEntries
  <2>3. Newest(Dropped(age, {Temp(Name[p])}), Dir(Name[p])) \in Seq(Entries)
    BY <2>2, EntriesKept, OwnEntries
  <2>4. age' = Newest(Dropped(age, {Temp(Name[p])}), Dir(Name[p])) \/ age' = Dropped(age, {Temp(Name[p])})
    BY <1>12 DEF Move
  <2> QED
    BY <1>1, <2>1, <2>2, <2>3, <2>4
<1>13. CASE Upload(p)
  <2>1. Dropped(age, {Dir(Name[p])}) \in Seq(Entries)
    BY <1>1, EntriesKept, OwnEntries
  <2> QED
    BY <1>1, <1>13, <2>1 DEF Upload, Goto
<1> QED
  BY <1>4, <1>5, <1>6, <1>7, <1>8, <1>9, <1>10, <1>11, <1>12, <1>13

(* While a run is at work nothing is claimed. *)
LEMMA WorkKeepsBound ==
    ASSUME BoundInv, NEW p \in Runs,
           \/ Launch(p) \/ Validate(p) \/ Discover(p) \/ Extract(p) \/ Copy(p) \/ Gather(p) \/ GatherMetrics(p)
           \/ ZipBundle(p) \/ Move(p) \/ Upload(p)
    PROVE  BoundInv'
<1>1. /\ pc' = [pc EXCEPT ![p] = pc'[p]] /\ pc'[p] \notin {"idle", "diagnose"}
      /\ pc[p] \notin {"diagnose", "done"}
      /\ UNCHANGED rotated /\ age' \in Seq(Entries)
      /\ temps' = [t \in DOMAIN temps' |-> temps'[t]]
      /\ \A t \in DOMAIN temps' : \/ t \in DOMAIN temps /\ ~(pc[p] = "move" /\ t = Name[p])
                                  \/ t = Name[p] /\ pc'[p] = "move"
  BY WorkSteps
<1>2. pc = [q \in Runs |-> pc[q]] /\ rotated \in [Runs -> BOOLEAN] /\ ~rotated[p]
  BY <1>1 DEF BoundInv
<1>3. pc' = [q \in Runs |-> pc'[q]] /\ \A q \in Runs : q # p => pc'[q] = pc[q]
  BY <1>1, <1>2
<1>4. \A q \in Runs : rotated'[q] => pc'[q] \in {"diagnose", "done"}
  BY <1>1, <1>2, <1>3 DEF BoundInv
<1>5. ASSUME NEW t \in DOMAIN temps'
      PROVE  \E q \in Runs : Name[q] = t /\ (pc'[q] = "move" \/ (pc'[q] = "done" /\ ~rotated'[q]))
  <2>1. CASE t = Name[p] /\ pc'[p] = "move"
    BY <2>1
  <2>2. CASE t \in DOMAIN temps /\ ~(pc[p] = "move" /\ t = Name[p])
    <3>1. PICK q \in Runs : Name[q] = t /\ (pc[q] = "move" \/ (pc[q] = "done" /\ ~rotated[q]))
      BY <2>2 DEF BoundInv
    <3>2. q # p
      BY <1>1, <2>2, <3>1
    <3> QED
      BY <1>1, <1>3, <3>1, <3>2
  <2> QED
    BY <1>1, <2>1, <2>2
<1>6. ~Passed(p)'
  BY <1>1, <1>2 DEF Passed
<1> QED
  BY <1>1, <1>2, <1>3, <1>4, <1>5, <1>6 DEF BoundInv

(* rotateOldBundles, successful or not. *)
LEMMA RotateKeepsBound ==
    ASSUME BoundInv, NEW p \in Runs, Rotate(p)
    PROVE  BoundInv'
<1>1. /\ age \in Seq(Entries) /\ pc = [q \in Runs |-> pc[q]] /\ rotated \in [Runs -> BOOLEAN]
      /\ temps = [t \in DOMAIN temps |-> temps[t]]
      /\ pc[p] = "rotate" /\ pc' = [pc EXCEPT ![p] = "diagnose"]
  BY DEF BoundInv, Rotate, Goto
<1>2. ~rotated[p]
  BY <1>1 DEF BoundInv
<1>3. pc' = [q \in Runs |-> pc'[q]] /\ pc'[p] = "diagnose" /\ \A q \in Runs : q # p => pc'[q] = pc[q]
  BY <1>1
<1> DEFINE HasOwner(t) == \E q \in Runs : Name[q] = t /\ (pc[q] = "move" \/ (pc[q] = "done" /\ ~rotated[q]))
<1>4. \A t \in DOMAIN temps : HasOwner(t)
  BY DEF BoundInv
<1>5. CASE UNCHANGED <<parent, rotated>>
  <2>1. UNCHANGED <<age, temps, rotated>>
    BY <1>5 DEF parent
  <2>2. \A t \in DOMAIN temps' : HasOwner(t)'
    BY <1>1, <1>3, <1>4, <2>1
  <2>3. ~Passed(p)'
    BY <1>2, <1>3, <2>1 DEF Passed
  <2>4. \A q \in Runs : rotated'[q] => pc'[q] \in {"diagnose", "done"}
    BY <1>3, <2>1 DEF BoundInv
  <2> HIDE DEF HasOwner
  <2>5. temps' = [t \in DOMAIN temps' |-> temps'[t]]
    BY <1>1, <2>1
  <2> QED
    BY <1>1, <1>3, <2>1, <2>2, <2>3, <2>4, <2>5 DEF BoundInv, HasOwner
<1>6. CASE RotateBeyond(p, Limit)
  <2> DEFINE old == {age[k] : k \in (Limit + 1)..Len(age)}
  <2>1. age' = Dropped(age, old) /\ rotated' = [rotated EXCEPT ![p] = TRUE]
        /\ temps' = [t \in {m \in DOMAIN temps : Temp(m) \notin old} |-> temps[t]]
    BY <1>6 DEF RotateBeyond
  <2>2. Len(age') <= Limit
    BY <1>1, <2>1, RotationBounds
  <2>3. age' \in Seq(Entries)
    BY <1>1, <2>1, EntriesKept, OwnEntries
  <2> HIDE DEF old
  <2>4. temps' = [t \in DOMAIN temps' |-> temps'[t]] /\ DOMAIN temps' \subseteq DOMAIN temps
    BY <2>1
  <2>5. rotated' \in [Runs -> BOOLEAN] /\ \A q \in Runs : q # p => rotated'[q] = rotated[q]
    BY <1>1, <2>1
  <2>6. \A t \in DOMAIN temps' : HasOwner(t)'
    BY <1>1, <1>3, <1>4, <2>4, <2>5, ZenonT(60)
  <2>7. \A q \in Runs : rotated'[q] => pc'[q] \in {"diagnose", "done"}
    BY <1>3, <2>5 DEF BoundInv
  <2> QED
    BY <1>3, <2>2, <2>3, <2>4, <2>5, <2>6, <2>7 DEF BoundInv
<1> QED
  BY <1>5, <1>6 DEF Rotate

(* The last step writes nothing to the parent directory. *)
LEMMA DiagnoseKeepsBound ==
    ASSUME BoundInv, NEW p \in Runs, Diagnose(p)
    PROVE  BoundInv'
<1>1. /\ pc = [q \in Runs |-> pc[q]] /\ UNCHANGED <<rotated, age, temps>>
      /\ pc[p] = "diagnose" /\ pc' = [pc EXCEPT ![p] = "done"]
  BY DEF BoundInv, Diagnose, End, Goto, parent
<1>2. pc' = [q \in Runs |-> pc'[q]] /\ pc'[p] = "done" /\ \A q \in Runs : q # p => pc'[q] = pc[q]
  BY <1>1
<1>3. \A q \in Runs : Passed(q)' <=> Passed(q)
  BY <1>1, <1>2 DEF Passed
<1>4. \A t \in DOMAIN temps' : \E q \in Runs : Name[q] = t /\ (pc'[q] = "move" \/ (pc'[q] = "done" /\ ~rotated'[q]))
  BY <1>1, <1>2 DEF BoundInv
<1>5. \A q \in Runs : rotated'[q] => pc'[q] \in {"diagnose", "done"}
  BY <1>1, <1>2 DEF BoundInv
<1> QED
  BY <1>1, <1>2, <1>3, <1>4, <1>5 DEF BoundInv

(* No run has rotated, and there is no zip. *)
LEMMA BoundInvInit == LogInit => BoundInv
<1> SUFFICES ASSUME LogInit PROVE BoundInv
  OBVIOUS
<1>1. age = [k \in 1..Len(Old) |-> Dir(Old[k])] /\ DOMAIN Old = 1..Len(Old) /\ Len(Old) \in Nat
  BY RotationAssumption DEF LogInit, BundlesInit
<1>2. \A k \in 1..Len(Old) : Dir(Old[k]) \in Entries
  BY <1>1 DEF Entries
<1>3. age \in Seq(Entries)
  BY <1>1, <1>2
<1>4. temps = [t \in {} |-> None] /\ rotated = [p \in Runs |-> FALSE] /\ pc = [p \in Runs |-> "idle"]
  BY DEF LogInit, BundlesInit, NoFunction
<1>5. rotated \in [Runs -> BOOLEAN] /\ pc = [p \in Runs |-> pc[p]] /\ temps = [t \in DOMAIN temps |-> temps[t]]
  BY <1>4
<1> QED
  BY <1>3, <1>4, <1>5 DEF BoundInv

(* Every step of the log collection and of the commands beside it. *)
LEMMA BoundInvNext == BoundInv /\ [LogNext]_logVars => BoundInv'
<1> SUFFICES ASSUME BoundInv, [LogNext]_logVars PROVE BoundInv'
  OBVIOUS
<1>1. ASSUME NEW p \in Runs, Launch(p) \/ BundleStep(p) PROVE BoundInv'
  BY <1>1, WorkKeepsBound, RotateKeepsBound, DiagnoseKeepsBound DEF BundleStep
<1>2. ASSUME UNCHANGED <<pc, rotated, age, temps>> PROVE BoundInv'
  BY <1>2 DEF BoundInv, Passed
<1>3. CASE \E m \in Messages : Collect(m)
  <2>1. PICK m \in Messages : Collect(m)
    BY <1>3
  <2>2. m \in Runs
    BY LogAssumption
  <2>3. Launch(m) \/ BundleStep(m) \/ UNCHANGED bundles
    BY <2>1 DEF Collect
  <2> QED
    BY <1>1, <1>2, <2>2, <2>3 DEF bundles, parent
<1>4. CASE \E p \in Commands : Command(p)
  <2>1. PICK p \in Commands : Command(p)
    BY <1>4
  <2>2. p \in Runs
    BY LogAssumption
  <2> QED
    BY <1>1, <2>1, <2>2 DEF Command
<1>5. CASE Restart
  <2>1. /\ UNCHANGED <<rotated, age, temps>>
        /\ pc' = [p \in Runs |-> IF p \in Messages /\ pc[p] # "idle" THEN "done" ELSE pc[p]]
    BY <1>5 DEF Restart, parent
  <2>2. \A q \in Runs : (pc'[q] = "idle" <=> pc[q] = "idle") /\ (pc'[q] = pc[q] \/ pc'[q] = "done")
    BY <2>1
  <2>3. pc' = [q \in Runs |-> pc'[q]]
    BY <2>1
  <2>4. \A q \in Runs : rotated[q] => pc[q] \in {"diagnose", "done"}
    BY DEF BoundInv
  <2>5. \A q \in Runs : rotated'[q] => pc'[q] \in {"diagnose", "done"}
    BY <2>1, <2>2, <2>4
  <2>6. \A q \in Runs : Passed(q)' => Passed(q)
    BY <2>1, <2>2, <2>4 DEF Passed
  <2>7. \A t \in DOMAIN temps' : \E q \in Runs : Name[q] = t /\ (pc'[q] = "move" \/ (pc'[q] = "done" /\ ~rotated'[q]))
    <3> TAKE t \in DOMAIN temps'
    <3>1. PICK q \in Runs : Name[q] = t /\ (pc[q] = "move" \/ (pc[q] = "done" /\ ~rotated[q]))
      BY <2>1 DEF BoundInv
    <3>2. ~rotated[q]
      BY <2>4, <3>1
    <3> QED
      BY <2>1, <2>2, <3>1, <3>2
  <2> QED
    BY <2>1, <2>3, <2>5, <2>6, <2>7 DEF BoundInv
<1>6. CASE Listen \/ UNCHANGED logVars
  BY <1>2, <1>6 DEF Listen, logVars, bundles, parent
<1>7. CASE \E m \in Messages : Deliver(m) \/ Receive(m) \/ Publish(m)
  BY <1>2, <1>7 DEF Deliver, Receive, Publish, bundles, parent
<1> QED
  BY <1>3, <1>4, <1>5, <1>6, <1>7 DEF LogNext

(* Old bundles do not pile up, however many runs overlap, whatever fails in them and
   wherever the daemon stops: when no run is at work and each came to rotate, no more than
   the limit is left and no temporary zip. *)
THEOREM BundlesStayBounded == LogSpec => []BundlesAreBounded
<1>1. BoundInv => BundlesAreBounded
  <2> SUFFICES ASSUME BoundInv, \E p \in Runs : rotated[p],
                      \A p \in Runs : pc[p] = "idle" \/ (pc[p] = "done" /\ rotated[p])
               PROVE  Len(age) <= Limit /\ temps = NoFunction
    BY DEF BundlesAreBounded
  <2>1. Len(age) <= Limit
    BY DEF BoundInv, Passed
  <2>2. DOMAIN temps = {}
    BY DEF BoundInv
  <2>3. temps = [t \in DOMAIN temps |-> temps[t]]
    BY DEF BoundInv
  <2>4. temps = NoFunction
    BY <2>2, <2>3 DEF NoFunction
  <2> QED
    BY <2>1, <2>4
<1> QED
  BY <1>1, BoundInvInit, BoundInvNext, PTL DEF LogSpec

------------------------------------------------------------------------------------
(* DiskSelection: what passes the checks of the disk commands. *)

(* The disks that match the volume of the data. *)
Matched == {d \in Range(dsMachine.attached) : DiskMatches(d)}

FoundDisks == {"striping", "groupName", "named", "backedUp"}
Restoring == {"keys", "dirs", "mapping", "attached", "kms", "snapshots", "cg", "names", "ready"}
Mapped == {"attached", "kms", "snapshots", "cg", "names", "ready"}
Chosen == Mapped \ {"attached"}
Examined == {"cg", "names", "ready"}

(* What was given, and the machine in any state others leave it in. *)
GivenInv ==
    /\ dsCall \in Invocations /\ IsMachine(dsMachine) /\ dsMoves \in Nat
    /\ \E mach \in Machines : dsMachine.dataPVs = mach.dataPVs /\ dsMachine.whole = mach.whole

(* The disks a backup has found so far. *)
BackupInv ==
    /\ dsStep \in {"backup", "dataDir", "topology", "scaleup", "scaleout"} => dsDisks = <<>> /\ ~dsGroup
    /\ dsStep \in {"dataDir", "topology", "scaleup", "scaleout"} => dsDisk = dsCall.disk
    /\ dsStep = "striping" => ~dsGroup /\ dsCall.disk = ""
    /\ dsStep \in FoundDisks /\ dsCall.disk = "" /\ dsCall.disks = <<>> => Range(dsDisks) = Matched
    /\ dsStep \in FoundDisks /\ dsGroup => BelongToCG(IF dsDisks = <<>> THEN dsCall.disks ELSE dsDisks, dsCg)
    /\ dsStep \in FoundDisks /\ dsCall.disk # "" => dsDisk = dsCall.disk

(* What a restore that hanachangedisktype goes on with is told. *)
ChangeInv ==
    dsCall.kind = "change" =>
        /\ dsStep \notin {"backup", "usage", "failed"} => dsCall.disk # ""
        /\ dsStep \in {"restore"} \cup Restoring =>
             \A s \in dsMachine.snapshots : s.name = dsCall.snapshot => s.disk = dsCall.disk
        /\ dsStep \in Examined => dsItems[1].disk = dsCall.disk

(* The disks a restore has found so far. *)
RestoreInv ==
    /\ dsStep = "restore" /\ dsCall.disk = "" => dsDisks = <<>>
    /\ dsStep \in Restoring => (dsGroup => dsCall.group # "") /\ (dsCall.disk = "" /\ ~dsGroup => dsDisks = <<>>)
    /\ dsStep \in {"keys", "dirs", "mapping"} => dsDisk = dsCall.disk
    /\ dsStep \in Mapped \cup {"mapping"} => PhysicalPath(dsMachine.dataPVs) \cap PhysicalPath(dsMachine.logPVs) = {}
    /\ dsStep \in Mapped => /\ dsGroup \/ dsCall.disk # "" => dsDisk = dsCall.disk
                            /\ ~dsGroup /\ ~(dsCall.disk # "" /\ dsCall.zone) => dsDisk \in Matched
    /\ dsStep = "attached" /\ dsGroup => dsDisks \in Seq(DOMAIN dsMachine.disks) /\ Range(dsDisks) = Matched
    /\ dsStep \in Chosen /\ dsGroup =>
         /\ dsCall.disks = <<>> => Range(dsDisks) = Matched
         /\ dsMachine.instances > 1 => Matched \subseteq Range(dsDisks) /\ Range(dsDisks) = Range(dsCall.disks)

(* The snapshots, keys and names for the disks. *)
SnapshotsInv ==
    /\ dsStep \in Restoring \ {"keys"} /\ dsMoves = 0 => dsKeys \in {EncryptionKeys, {}}
    /\ dsStep \in Examined =>
         /\ dsGroup => Len(dsItems) = Len(dsDisks)
         /\ \A i \in DOMAIN dsItems : ~dsGroup \/ ~UseSnapshotGroupWorkflow \/ i = 1 => CMEKLocationFits(dsItems[i])
         /\ ~dsGroup => dsCall.snapshot # ""
         /\ dsMoves = 0 => {dsItems[i] : i \in DOMAIN dsItems} =
              {s \in dsMachine.snapshots : IF dsGroup THEN s.group = dsCall.group ELSE s.name = dsCall.snapshot}
    /\ dsStep = "ready" /\ dsGroup /\ dsNames # <<>> => Len(dsNames) = Len(dsDisks)

SelectionInv == GivenInv /\ BackupInv /\ ChangeInv /\ RestoreInv /\ SnapshotsInv

(* A command that has ended without success promises nothing. *)
LEMMA EndedInvariant == ASSUME GivenInv', dsStep' \in {"failed", "usage"} PROVE SelectionInv'
<1>1. BackupInv'
  BY Zenon DEF BackupInv, FoundDisks
<1>2. ChangeInv'
  BY Zenon DEF ChangeInv, Restoring, Examined
<1>3. RestoreInv'
  BY Zenon DEF RestoreInv, Restoring, Mapped, Chosen
<1>4. SnapshotsInv'
  BY Zenon DEF SnapshotsInv, Restoring, Examined
<1> QED BY <1>1, <1>2, <1>3, <1>4, Zenon DEF SelectionInv

(* What depends on the machine and the flags only. *)
LEMMA SelectionFrame ==
    ASSUME UNCHANGED <<dsMachine, dsCall>>
    PROVE  /\ Matched' = Matched /\ EncryptionKeys' = EncryptionKeys
           /\ (UseSnapshotGroupWorkflow' <=> UseSnapshotGroupWorkflow)
           /\ PhysicalPath(dsMachine.dataPVs)' = PhysicalPath(dsMachine.dataPVs)
           /\ PhysicalPath(dsMachine.logPVs)' = PhysicalPath(dsMachine.logPVs)
           /\ \A s : CMEKLocationFits(s)' <=> CMEKLocationFits(s)
           /\ \A n, c : BelongToCG(n, c)' = BelongToCG(n, c)
<1>1. dsMachine' = dsMachine /\ dsCall' = dsCall
  OBVIOUS
<1>2. /\ PhysicalPath(dsMachine.dataPVs)' = PhysicalPath(dsMachine.dataPVs)
      /\ PhysicalPath(dsMachine.logPVs)' = PhysicalPath(dsMachine.logPVs)
  BY <1>1 DEF PhysicalPath, WithDevices
<1>3. Matched' = Matched
  BY <1>1 DEF Matched, DiskMatches, ReadMapping, PhysicalPath, WithDevices
<1>4. EncryptionKeys' = EncryptionKeys
  BY <1>1 DEF EncryptionKeys, Targeted
<1>5. (UseSnapshotGroupWorkflow' <=> UseSnapshotGroupWorkflow)
  BY <1>1 DEF UseSnapshotGroupWorkflow, OlderThan, M2AgentVersion
<1>6. \A s : CMEKLocationFits(s)' <=> CMEKLocationFits(s)
  BY <1>1 DEF CMEKLocationFits, Targeted
<1>7. \A n, c : BelongToCG(n, c)' = BelongToCG(n, c)
  BY <1>1 DEF BelongToCG, Exists
<1> QED BY <1>2, <1>3, <1>4, <1>5, <1>6, <1>7

(* A check that passes and finds nothing new. *)
LEMMA BackupProceeds ==
    ASSUME SelectionInv, UNCHANGED <<dsMachine, dsCall, dsMoves, dsDisk, dsDisks, dsGroup, dsCg, dsItems, dsNames, dsKeys>>,
           \/ dsStep = "dataDir" /\ dsStep' = "topology"
           \/ dsStep = "topology" /\ dsStep' = "scaleup"
           \/ dsStep = "topology" /\ dsStep' = "scaleout"
           \/ dsStep = "scaleup" /\ dsStep' = "groupName" /\ dsDisk # ""
           \/ dsStep = "groupName" /\ dsStep' = "named"
           \/ dsStep = "named" /\ dsStep' = "backedUp"
    PROVE  SelectionInv'
<1>1. GivenInv'
  BY Zenon DEF SelectionInv, GivenInv
<1>2. BackupInv'
  BY SelectionFrame, Zenon DEF SelectionInv, BackupInv, FoundDisks
<1>3. ChangeInv'
  BY Zenon DEF SelectionInv, ChangeInv, Restoring, Examined
<1>4. RestoreInv'
  BY Zenon DEF RestoreInv, Restoring, Mapped, Chosen
<1>5. SnapshotsInv'
  BY Zenon DEF SnapshotsInv, Restoring, Examined
<1> QED BY <1>1, <1>2, <1>3, <1>4, <1>5, Zenon DEF SelectionInv

(* The restore goes on to the disks, and to the snapshots. *)
LEMMA RestoreProceeds ==
    ASSUME SelectionInv, UNCHANGED <<dsMachine, dsCall, dsMoves, dsDisk, dsDisks, dsGroup, dsCg, dsItems, dsNames, dsKeys>>,
           \/ /\ dsStep = "dirs" /\ dsStep' = IF dsGroup \/ dsDisk = "" \/ ~dsCall.zone THEN "mapping" ELSE "attached"
              /\ PhysicalPath(dsMachine.dataPVs) \cap PhysicalPath(dsMachine.logPVs) = {}
           \/ dsStep = "kms" /\ dsStep' = "snapshots"
    PROVE  SelectionInv'
<1>1. GivenInv'
  BY Zenon DEF SelectionInv, GivenInv
<1>2. dsStep' \in {"mapping", "attached", "snapshots"}
  BY Zenon
<1>3. BackupInv'
  BY <1>2, Zenon DEF BackupInv, FoundDisks
<1>4. ChangeInv'
  BY <1>2, Zenon DEF SelectionInv, ChangeInv, Restoring, Examined
<1>5. RestoreInv'
  <2>1. CASE dsStep = "kms"
    BY <2>1, SelectionFrame, Zenon DEF SelectionInv, RestoreInv, Restoring, Mapped, Chosen
  <2>2. CASE dsStep = "dirs" /\ (dsGroup \/ dsDisk = "" \/ ~dsCall.zone)
    <3>1. dsStep' = "mapping"
      BY <2>2, Zenon
    <3> QED BY <2>2, <3>1, SelectionFrame, Zenon DEF SelectionInv, RestoreInv, Restoring, Mapped, Chosen
  <2>3. CASE dsStep = "dirs" /\ ~dsGroup /\ dsDisk # "" /\ dsCall.zone
    <3>1. dsStep' = "attached" /\ dsDisk = dsCall.disk
      BY <2>3, Zenon DEF SelectionInv, RestoreInv
    <3> QED BY <2>3, <3>1, SelectionFrame, Zenon DEF SelectionInv, RestoreInv, Restoring, Mapped, Chosen
  <2> QED BY <2>1, <2>2, <2>3, Zenon
<1>6. SnapshotsInv'
  BY <1>2, SelectionFrame, Zenon DEF SelectionInv, SnapshotsInv, Restoring, Examined
<1> QED BY <1>1, <1>3, <1>4, <1>5, <1>6, Zenon DEF SelectionInv

(* The disk that was named is the one to work on. *)
LEMMA ValidateBackupKeeps ==
    ASSUME SelectionInv, ValidateBackup, UNCHANGED <<dsMachine, dsCall, dsMoves>> PROVE SelectionInv'
<1>1. GivenInv'
  BY Zenon DEF SelectionInv, GivenInv
<1>2. CASE BackupParameters /\ (dsCall.kind = "change" => ChangeParameters)
  <2>1. /\ dsStep = "backup" /\ dsStep' = "dataDir" /\ dsDisk' = dsCall.disk /\ (dsCall.kind = "change" => dsCall.disk # "")
        /\ UNCHANGED <<dsDisks, dsGroup, dsCg, dsItems, dsNames, dsKeys>>
    BY <1>2, Zenon DEF ValidateBackup, ChangeParameters
  <2>2. BackupInv'
    BY <2>1, SelectionFrame, Zenon DEF SelectionInv, BackupInv, FoundDisks
  <2>3. ChangeInv'
    BY <2>1, Zenon DEF SelectionInv, ChangeInv, Restoring, Examined
  <2>4. RestoreInv'
    BY <2>1, Zenon DEF RestoreInv, Restoring, Mapped, Chosen
  <2>5. SnapshotsInv'
    BY <2>1, Zenon DEF SnapshotsInv, Restoring, Examined
  <2> QED BY <1>1, <2>2, <2>3, <2>4, <2>5, Zenon DEF SelectionInv
<1>3. CASE ~(BackupParameters /\ (dsCall.kind = "change" => ChangeParameters))
  <2>1. dsStep' = "usage"
    BY <1>3, Zenon DEF ValidateBackup
  <2> QED BY <1>1, <2>1, EndedInvariant, Zenon
<1> QED BY <1>2, <1>3

(* The disks belong to one group, or the command fails. *)
LEMMA GroupOrFailure ==
    ASSUME NEW names, NEW next, SameGroup(names, next)
    PROVE  \/ dsStep' = "failed"
           \/ dsStep' = next /\ names # <<>> /\ BelongToCG(names, dsCg')
           \/ dsStep' = next /\ names = <<>> /\ dsCg' = dsCg
  BY Zenon DEF SameGroup

(* The disks that were given of all hosts are of one group. *)
LEMMA ScaleoutDisksKeeps ==
    ASSUME SelectionInv, ScaleoutDisks, UNCHANGED <<dsMachine, dsCall, dsMoves>> PROVE SelectionInv'
<1>1. GivenInv'
  BY Zenon DEF SelectionInv, GivenInv
<1>2. CASE dsStep' = "failed"
  BY <1>1, <1>2, EndedInvariant, Zenon
<1>3. CASE dsStep' # "failed"
  <2>1. /\ dsStep = "scaleout" /\ dsCall.disks # <<>> /\ SameGroup(dsCall.disks, "groupName")
        /\ UNCHANGED <<dsDisk, dsDisks, dsItems, dsNames, dsKeys>>
    BY <1>3, Zenon DEF ScaleoutDisks
  <2>2. dsStep' = "groupName" /\ BelongToCG(dsCall.disks, dsCg')
    BY <1>3, <2>1, GroupOrFailure, Zenon
  <2>3. dsDisks' = <<>> /\ dsDisk' = dsCall.disk
    BY <2>1, Zenon DEF SelectionInv, BackupInv
  <2>4. BackupInv'
    BY <2>1, <2>2, <2>3, SelectionFrame, Zenon DEF BackupInv, FoundDisks
  <2>5. ChangeInv'
    BY <2>1, <2>2, Zenon DEF SelectionInv, ChangeInv, Restoring, Examined
  <2>6. RestoreInv'
    BY <2>2, Zenon DEF RestoreInv, Restoring, Mapped, Chosen
  <2>7. SnapshotsInv'
    BY <2>2, Zenon DEF SnapshotsInv, Restoring, Examined
  <2> QED BY <1>1, <2>4, <2>5, <2>6, <2>7, Zenon DEF SelectionInv
<1> QED BY <1>2, <1>3

(* The disks that were given of this host. *)
LEMMA SourceDisksKeeps ==
    ASSUME SelectionInv, SourceDisks, UNCHANGED <<dsMachine, dsCall, dsMoves>> PROVE SelectionInv'
<1>1. GivenInv'
  BY Zenon DEF SelectionInv, GivenInv
<1>2. CASE dsStep' = "failed"
  BY <1>1, <1>2, EndedInvariant, Zenon
<1>3. CASE dsStep' # "failed"
  <2>1. /\ dsStep = "scaleup" /\ dsDisk = "" /\ dsCall.disks # <<>> /\ dsStep' = "striping"
        /\ UNCHANGED <<dsDisk, dsGroup, dsCg, dsItems, dsNames, dsKeys>>
    BY <1>3, Zenon DEF SourceDisks
  <2>4. BackupInv'
    BY <2>1, SelectionFrame, Zenon DEF SelectionInv, BackupInv, FoundDisks
  <2>5. ChangeInv'
    BY <2>1, Zenon DEF SelectionInv, ChangeInv, Restoring, Examined
  <2>6. RestoreInv'
    BY <2>1, Zenon DEF RestoreInv, Restoring, Mapped, Chosen
  <2>7. SnapshotsInv'
    BY <2>1, Zenon DEF SnapshotsInv, Restoring, Examined
  <2> QED BY <1>1, <2>4, <2>5, <2>6, <2>7, Zenon DEF SelectionInv
<1> QED BY <1>2, <1>3

(* The elements that a loop keeps. *)
LEMMA KeptRange ==
    ASSUME NEW R, NEW s \in Seq(R), NEW S
    PROVE  /\ Kept(s, S) \in Seq(R) /\ DOMAIN Kept(s, S) = 1..Len(Kept(s, S))
           /\ Range(Kept(s, S)) = Range(s) \cap S
<1> DEFINE q == Kept(s, S)
<1>1. /\ q \in Seq(R)
      /\ \A k \in 1..Len(q) : q[k] \in S /\ \E i \in 1..Len(s) : s[i] = q[k]
      /\ \A i \in 1..Len(s) : s[i] \in S => \E k \in 1..Len(q) : q[k] = s[i]
  BY KeptElements
<1> HIDE DEF q
<1>2. DOMAIN q = 1..Len(q) /\ DOMAIN s = 1..Len(s)
  BY <1>1
<1>3. Range(q) = Range(s) \cap S
  <2>1. ASSUME NEW x \in Range(q) PROVE x \in Range(s) /\ x \in S
    <3>1. PICK k \in 1..Len(q) : x = q[k]
      BY <1>2 DEF Range
    <3>2. PICK i \in 1..Len(s) : s[i] = q[k]
      BY <1>1
    <3> QED BY <1>1, <1>2, <3>1, <3>2 DEF Range
  <2>2. ASSUME NEW x \in Range(s), x \in S PROVE x \in Range(q)
    <3>1. PICK i \in 1..Len(s) : x = s[i]
      BY <1>2 DEF Range
    <3>2. PICK k \in 1..Len(q) : q[k] = s[i]
      BY <1>1, <2>2, <3>1
    <3> QED BY <1>2, <3>1, <3>2 DEF Range
  <2> QED BY <2>1, <2>2, Zenon
<1> QED BY <1>1, <1>2, <1>3, Zenon DEF q

(* The disks that match are those of the loop over the attached ones. *)
LEMMA MatchingElements ==
    ASSUME GivenInv
    PROVE  Matching \in Seq(DOMAIN dsMachine.disks) /\ Range(Matching) = Matched /\ DOMAIN Matching = 1..Len(Matching)
<1> DEFINE S == {disk \in Range(dsMachine.attached) : DiskMatches(disk)}
<1>1. dsMachine.attached \in Seq(DOMAIN dsMachine.disks)
  BY DEF GivenInv, IsMachine
<1>2. Matching = Kept(dsMachine.attached, S) /\ Matched = S /\ Range(dsMachine.attached) \cap S = S
  BY Zenon DEF Matching, Matched
<1> HIDE DEF S
<1> QED BY <1>1, <1>2, KeptRange, Zenon

(* The disks that match are taken, all of them. *)
LEMMA DiscoverDisksKeeps ==
    ASSUME SelectionInv, DiscoverDisks, UNCHANGED <<dsMachine, dsCall, dsMoves>> PROVE SelectionInv'
<1>1. GivenInv'
  BY Zenon DEF SelectionInv, GivenInv
<1>2. CASE dsStep' = "failed"
  BY <1>1, <1>2, EndedInvariant, Zenon
<1>3. CASE dsStep' # "failed"
  <2>1. /\ dsStep = "scaleup" /\ dsDisk = "" /\ dsCall.disks = <<>> /\ dsStep' = "striping" /\ dsDisks' = Matching
        /\ UNCHANGED <<dsGroup, dsCg, dsItems, dsNames, dsKeys>>
    BY <1>3, Zenon DEF DiscoverDisks
  <2>2. Range(dsDisks') = Matched'
    BY <2>1, MatchingElements, SelectionFrame, Zenon DEF SelectionInv
  <2>3. dsCall.disk = "" /\ ~dsGroup'
    BY <2>1, Zenon DEF SelectionInv, BackupInv
  <2>4. BackupInv'
    BY <2>1, <2>2, <2>3, Zenon DEF BackupInv, FoundDisks
  <2>5. ChangeInv'
    BY <2>1, Zenon DEF SelectionInv, ChangeInv, Restoring, Examined
  <2>6. RestoreInv'
    BY <2>1, Zenon DEF RestoreInv, Restoring, Mapped, Chosen
  <2>7. SnapshotsInv'
    BY <2>1, Zenon DEF SnapshotsInv, Restoring, Examined
  <2> QED BY <1>1, <2>4, <2>5, <2>6, <2>7, Zenon DEF SelectionInv
<1> QED BY <1>2, <1>3

(* Several disks are of one group. *)
LEMMA VerifyStripingKeeps ==
    ASSUME SelectionInv, VerifyStriping, UNCHANGED <<dsMachine, dsCall, dsMoves>> PROVE SelectionInv'
<1>1. GivenInv'
  BY Zenon DEF SelectionInv, GivenInv
<1>2. CASE dsStep' = "failed"
  BY <1>1, <1>2, EndedInvariant, Zenon
<1>3. CASE dsStep' # "failed"
  <2> DEFINE several == Len(dsDisks) > 1
  <2>1. /\ dsStep = "striping" /\ (dsGroup' => several)
        /\ (~several /\ dsStep' = "groupName") \/ SameGroup(dsDisks, "groupName")
        /\ UNCHANGED <<dsDisk, dsDisks, dsItems, dsNames, dsKeys>>
    BY <1>3, Zenon DEF VerifyStriping
  <2>2. several => dsDisks # <<>>
    OBVIOUS
  <2> HIDE DEF several
  <2>3. dsStep' = "groupName" /\ (several => dsDisks # <<>> /\ BelongToCG(dsDisks, dsCg'))
    BY <1>3, <2>1, <2>2, GroupOrFailure, Zenon
  <2>4. BackupInv'
    BY <2>1, <2>3, SelectionFrame, Zenon DEF SelectionInv, BackupInv, FoundDisks
  <2>5. ChangeInv'
    BY <2>1, <2>3, Zenon DEF SelectionInv, ChangeInv, Restoring, Examined
  <2>6. RestoreInv'
    BY <2>3, Zenon DEF RestoreInv, Restoring, Mapped, Chosen
  <2>7. SnapshotsInv'
    BY <2>3, Zenon DEF SnapshotsInv, Restoring, Examined
  <2> QED BY <1>1, <2>4, <2>5, <2>6, <2>7, Zenon DEF SelectionInv
<1> QED BY <1>2, <1>3

(* A restore begins with the flags alone. *)
LEMMA ValidateRestoreKeeps ==
    ASSUME SelectionInv, ValidateRestore, UNCHANGED <<dsMachine, dsCall, dsMoves>> PROVE SelectionInv'
<1>1. GivenInv'
  BY Zenon DEF SelectionInv, GivenInv
<1>2. CASE RestoreParameters
  <2>1. /\ dsStep = "restore" /\ dsStep' = "keys" /\ dsDisk' = dsCall.disk /\ (dsGroup' => dsCall.group # "")
        /\ UNCHANGED <<dsDisks, dsCg, dsItems, dsKeys>>
    BY <1>2, Zenon DEF ValidateRestore, OfGroup
  <2>2. BackupInv'
    BY <2>1, Zenon DEF BackupInv, FoundDisks
  <2>3. ChangeInv'
    BY <2>1, Zenon DEF SelectionInv, ChangeInv, Restoring, Examined
  <2>4. RestoreInv'
    BY <2>1, Zenon DEF SelectionInv, RestoreInv, Restoring, Mapped, Chosen
  <2>5. SnapshotsInv'
    BY <2>1, Zenon DEF SnapshotsInv, Restoring, Examined
  <2> QED BY <1>1, <2>2, <2>3, <2>4, <2>5, Zenon DEF SelectionInv
<1>3. CASE ~RestoreParameters
  <2>1. dsStep' = "usage"
    BY <1>3, Zenon DEF ValidateRestore
  <2> QED BY <1>1, <2>1, EndedInvariant, Zenon
<1> QED BY <1>2, <1>3

(* The keys that are verified, unless the listing fails. *)
LEMMA ValidateEncryptionKeysKeeps ==
    ASSUME SelectionInv, ValidateEncryptionKeys, UNCHANGED <<dsMachine, dsCall, dsMoves>> PROVE SelectionInv'
<1>1. GivenInv'
  BY Zenon DEF SelectionInv, GivenInv
<1>2. /\ dsStep = "keys" /\ dsStep' = "dirs" /\ dsKeys' \in {EncryptionKeys, {}}
      /\ UNCHANGED <<dsDisk, dsDisks, dsGroup, dsCg, dsItems, dsNames>>
  BY Zenon DEF ValidateEncryptionKeys
<1>3. BackupInv'
  BY <1>2, Zenon DEF BackupInv, FoundDisks
<1>4. ChangeInv'
  BY <1>2, Zenon DEF SelectionInv, ChangeInv, Restoring, Examined
<1>5. RestoreInv'
  BY <1>2, Zenon DEF SelectionInv, RestoreInv, Restoring, Mapped, Chosen
<1>6. SnapshotsInv'
  BY <1>2, SelectionFrame, Zenon DEF SnapshotsInv, Restoring, Examined
<1> QED BY <1>1, <1>3, <1>4, <1>5, <1>6, Zenon DEF SelectionInv

(* A group is all disks that match, a single disk one of them. *)
LEMMA MapDataDisksKeeps ==
    ASSUME SelectionInv, MapDataDisks, UNCHANGED <<dsMachine, dsCall, dsMoves>> PROVE SelectionInv'
<1>1. GivenInv'
  BY Zenon DEF SelectionInv, GivenInv
<1>2. CASE dsStep' = "failed"
  BY <1>1, <1>2, EndedInvariant, Zenon
<1>3. CASE dsStep' # "failed"
  <2>1. dsStep = "mapping" /\ dsStep' = "attached" /\ UNCHANGED <<dsGroup, dsCg, dsItems, dsNames, dsKeys>>
    BY <1>3, Zenon DEF MapDataDisks, Check
  <2>2. ASSUME dsGroup
        PROVE  dsDisks' = Matching /\ dsDisk' = dsDisk
    BY <2>2, Zenon DEF MapDataDisks
  <2>3. ASSUME ~dsGroup
        PROVE  dsDisks' = dsDisks /\ dsDisk' \in Matched /\ (dsDisk # "" => dsDisk' = dsDisk)
    <3> DEFINE S == {disk \in Range(Matching) : dsDisk \in {"", disk}}
               single == Kept(Matching, S)
    <3>1. dsDisks' = dsDisks /\ single # <<>> /\ dsDisk' = Head(single)
      BY <1>3, <2>3, Zenon DEF MapDataDisks, Check
    <3>2. Matching \in Seq(DOMAIN dsMachine.disks) /\ Range(Matching) = Matched
      BY MatchingElements, Zenon DEF SelectionInv
    <3>3. S \subseteq Matched /\ \A x \in S : dsDisk = "" \/ dsDisk = x
      BY <3>2, Zenon
    <3> HIDE DEF S
    <3>4. /\ single \in Seq(DOMAIN dsMachine.disks)
          /\ Range(single) = Range(Matching) \cap S
      BY <3>2, KeptRange, Zenon
    <3> HIDE DEF single
    <3>5. Head(single) \in Range(single)
      BY <3>1, <3>4 DEF Range
    <3> QED BY <3>1, <3>3, <3>4, <3>5, Zenon
  <2>4. BackupInv'
    BY <2>1, Zenon DEF BackupInv, FoundDisks
  <2>5. ChangeInv'
    BY <2>1, Zenon DEF SelectionInv, ChangeInv, Restoring, Examined
  <2>6. RestoreInv'
    <3>1. /\ PhysicalPath(dsMachine.dataPVs) \cap PhysicalPath(dsMachine.logPVs) = {}
          /\ dsDisk = dsCall.disk /\ (dsGroup => dsCall.group # "") /\ (dsCall.disk = "" /\ ~dsGroup => dsDisks = <<>>)
      BY <2>1, Zenon DEF SelectionInv, RestoreInv, Restoring, Mapped
    <3>2. dsGroup => dsDisks' \in Seq(DOMAIN dsMachine'.disks) /\ Range(dsDisks') = Matched'
      BY <2>2, MatchingElements, SelectionFrame, Zenon DEF SelectionInv
    <3>3. ~dsGroup' /\ ~(dsCall'.disk # "" /\ dsCall'.zone) => dsDisk' \in Matched'
      BY <2>1, <2>3, SelectionFrame, Zenon
    <3>4. dsGroup' \/ dsCall'.disk # "" => dsDisk' = dsCall'.disk
      BY <2>1, <2>2, <2>3, <3>1, Zenon
    <3>5. dsCall'.disk = "" /\ ~dsGroup' => dsDisks' = <<>>
      BY <2>1, <2>3, <3>1, Zenon
    <3> QED BY <2>1, <3>1, <3>2, <3>3, <3>4, <3>5, SelectionFrame, Zenon DEF RestoreInv, Restoring, Mapped, Chosen
  <2>7. SnapshotsInv'
    BY <2>1, SelectionFrame, Zenon DEF SelectionInv, SnapshotsInv, Restoring, Examined
  <2> QED BY <1>1, <2>4, <2>5, <2>6, <2>7, Zenon DEF SelectionInv
<1> QED BY <1>2, <1>3

(* A scale-out restore takes the disks of this host and those of others, each that was
   given and no other. *)
LEMMA OthersAreGiven ==
    ASSUME NEW D, dsDisks \in Seq(D), dsCall.disks \in Seq(STRING), Range(dsDisks) \subseteq Range(dsCall.disks)
    PROVE  Range(dsDisks \o OfOthers) = Range(dsCall.disks)
<1> DEFINE given == dsCall.disks
           own == dsDisks
           again(i) == given[i] \in Range(own) => \E j \in 1..(i - 1) : given[j] = given[i]
           places == [i \in DOMAIN given |-> i]
           S == {i \in DOMAIN given : again(i)}
           indices == Kept(places, S)
           others == [i \in DOMAIN indices |-> given[indices[i]]]
<1>1. OfOthers = others
  BY Zenon DEF OfOthers
<1>2. \A i \in DOMAIN given : given[i] \in Range(own) \/ i \in S
  BY Zenon
<1>3. S \subseteq DOMAIN given /\ DOMAIN given = 1..Len(given) /\ Len(given) \in Nat /\ Len(own) \in Nat /\ DOMAIN own = 1..Len(own)
  BY Zenon, SMT
<1>4. own \in Seq(D) /\ given \in Seq(STRING) /\ Range(own) \subseteq Range(given)
  OBVIOUS
<1> HIDE DEF S, again, given, own
<1>5. places \in Seq(Nat) /\ Range(places) = DOMAIN given
  <2>1. DOMAIN places = 1..Len(given) /\ \A i \in 1..Len(given) : places[i] = i
    BY <1>3
  <2>2. places \in Seq(Nat)
    BY <1>3
  <2> HIDE DEF places
  <2> QED BY <1>3, <2>1, <2>2 DEF Range
<1> HIDE DEF places
<1>6. indices \in Seq(Nat) /\ DOMAIN indices = 1..Len(indices) /\ Range(indices) = S
  <2>1. Range(places) \cap S = S
    BY <1>3, <1>5, Zenon
  <2>2. places \in Seq(Nat)
    BY <1>5
  <2>3. /\ Kept(places, S) \in Seq(Nat) /\ DOMAIN Kept(places, S) = 1..Len(Kept(places, S))
        /\ Range(Kept(places, S)) = Range(places) \cap S
    BY <2>2, KeptRange, Zenon
  <2> QED BY <2>1, <2>3, Zenon
<1>7. Len(indices) \in Nat
  BY <1>6
<1> HIDE DEF indices
<1>8. DOMAIN others = 1..Len(indices) /\ \A i \in 1..Len(indices) : others[i] = given[indices[i]] /\ indices[i] \in S
  BY <1>6 DEF Range
<1>9. others \in Seq(STRING) /\ Len(others) = Len(indices)
  BY <1>3, <1>4, <1>7, <1>8
<1>10. \A i \in S : \E k \in 1..Len(others) : others[k] = given[i]
  BY <1>6, <1>8, <1>9 DEF Range
<1> HIDE DEF others
<1> DEFINE all == own \o others
<1>11. /\ DOMAIN all = 1..(Len(own) + Len(others))
       /\ \A i \in 1..Len(own) : i \in DOMAIN all /\ all[i] = own[i]
       /\ \A i \in 1..Len(others) : Len(own) + i \in DOMAIN all /\ all[Len(own) + i] = others[i]
       /\ \A i \in DOMAIN all : i \in 1..Len(own) \/ i - Len(own) \in 1..Len(others)
  <2> DEFINE E == D \cup STRING
  <2>1. own \in Seq(E) /\ others \in Seq(E)
    BY <1>4, <1>9
  <2> HIDE DEF E
  <2>2. all \in Seq(E) /\ Len(all) = Len(own) + Len(others)
    BY <2>1
  <2>3. \A i \in 1..(Len(own) + Len(others)) : all[i] = IF i <= Len(own) THEN own[i] ELSE others[i - Len(own)]
    BY <2>1
  <2>4. DOMAIN all = 1..(Len(own) + Len(others))
    BY <2>2
  <2> HIDE DEF all
  <2>5. \A i \in 1..Len(own) : i \in DOMAIN all /\ all[i] = own[i]
    BY <1>3, <1>7, <1>9, <2>3, <2>4
  <2>6. \A i \in 1..Len(others) : Len(own) + i \in DOMAIN all /\ all[Len(own) + i] = others[i]
    <3>1. \A i \in 1..Len(others) : /\ Len(own) + i \in 1..(Len(own) + Len(others))
                                    /\ ~(Len(own) + i <= Len(own)) /\ (Len(own) + i) - Len(own) = i
      BY <1>3, <1>7, <1>9
    <3> QED BY <2>3, <2>4, <3>1, Zenon
  <2>7. \A i \in DOMAIN all : i \in 1..Len(own) \/ i - Len(own) \in 1..Len(others)
    BY <1>3, <1>7, <1>9, <2>4
  <2> QED BY <2>4, <2>5, <2>6, <2>7, Zenon
<1>12. \A i \in DOMAIN all : i \in 1..Len(own) \/ \E j \in 1..Len(others) : all[i] = others[j]
  BY <1>3, <1>7, <1>9, <1>11
<1> HIDE DEF all
<1>13. ASSUME NEW x \in Range(all) PROVE x \in Range(given)
  <2>1. PICK i \in DOMAIN all : x = all[i]
    BY Zenon DEF Range
  <2>2. CASE i \in 1..Len(own)
    BY <1>3, <1>4, <1>11, <2>1, <2>2 DEF Range
  <2>3. CASE \E j \in 1..Len(others) : all[i] = others[j]
    BY <1>3, <1>8, <1>9, <2>1, <2>3 DEF Range
  <2> QED BY <1>12, <2>1, <2>2, <2>3
<1>14. ASSUME NEW x \in Range(given) PROVE x \in Range(all)
  <2>1. PICK i \in DOMAIN given : x = given[i]
    BY Zenon DEF Range
  <2>2. CASE x \in Range(own)
    BY <1>3, <1>11, <2>2 DEF Range
  <2>3. CASE i \in S
    BY <1>10, <1>11, <2>1, <2>3 DEF Range
  <2> QED BY <1>2, <2>1, <2>2, <2>3
<1>15. Range(all) = Range(given)
  BY <1>13, <1>14, Zenon
<1> QED BY <1>1, <1>15, Zenon DEF all, given, own

(* The disks of a group that were given name those of this host. *)
LEMMA DisksAttachedKeeps ==
    ASSUME SelectionInv, DisksAttached, UNCHANGED <<dsMachine, dsCall, dsMoves>> PROVE SelectionInv'
<1>1. GivenInv'
  BY Zenon DEF SelectionInv, GivenInv
<1>2. CASE dsStep' = "failed"
  BY <1>1, <1>2, EndedInvariant, Zenon
<1>3. CASE dsStep' # "failed"
  <2> DEFINE given == dsCall.disks
  <2>1. dsStep = "attached" /\ UNCHANGED <<dsDisk, dsGroup, dsCg, dsItems, dsNames, dsKeys>>
    BY Zenon DEF DisksAttached
  <2>2. ASSUME ~dsGroup
        PROVE  dsStep' = "kms" /\ dsDisks' = dsDisks
    BY <1>3, <2>2, Zenon DEF DisksAttached, Check
  <2>3. ASSUME dsGroup
        PROVE  /\ dsStep' = "kms"
               /\ given = <<>> => dsDisks' = dsDisks
               /\ dsMachine.instances > 1 => Matched \subseteq Range(dsDisks') /\ Range(dsDisks') = Range(given)
    <3>1. dsMachine.instances \in Nat /\ given \in Seq(STRING)
      BY SelectionAssumption, Zenon DEF SelectionInv, GivenInv, IsMachine
    <3>2. \/ dsMachine.instances = 0 /\ ~(dsMachine.instances = 1) /\ ~(dsMachine.instances > 1)
          \/ ~(dsMachine.instances = 0) /\ dsMachine.instances = 1 /\ ~(dsMachine.instances > 1)
          \/ ~(dsMachine.instances = 0) /\ ~(dsMachine.instances = 1) /\ dsMachine.instances > 1
      BY <3>1
    <3>3. CASE ~(dsMachine.instances = 0) /\ dsMachine.instances = 1 /\ ~(dsMachine.instances > 1)
      BY <1>3, <2>3, <3>3, Zenon DEF DisksAttached, Check
    <3>4. CASE ~(dsMachine.instances = 0) /\ ~(dsMachine.instances = 1) /\ dsMachine.instances > 1
      <4>1. dsStep' = "kms" /\ ScaleoutAttached /\ dsDisks' = dsDisks \o OfOthers
        BY <1>3, <2>3, <3>4, Zenon DEF DisksAttached, Check
      <4>2. dsDisks \in Seq(DOMAIN dsMachine.disks) /\ Range(dsDisks) = Matched
        BY <2>1, <2>3, Zenon DEF SelectionInv, RestoreInv
      <4>3. given # <<>> /\ Range(dsDisks) \subseteq Range(given)
        BY <4>1, Zenon DEF ScaleoutAttached
      <4>4. Range(dsDisks \o OfOthers) = Range(given)
        BY <3>1, <4>2, <4>3, OthersAreGiven, Zenon
      <4> QED BY <4>1, <4>2, <4>3, <4>4, Zenon
    <3>5. CASE dsMachine.instances = 0 /\ ~(dsMachine.instances = 1) /\ ~(dsMachine.instances > 1)
      BY <1>3, <2>3, <3>5, Zenon DEF DisksAttached
    <3> QED BY <3>2, <3>3, <3>4, <3>5, Zenon
  <2>4. dsStep' = "kms"
    BY <2>2, <2>3
  <2>5. BackupInv'
    BY <2>4, Zenon DEF BackupInv, FoundDisks
  <2>6. ChangeInv'
    BY <2>1, <2>4, Zenon DEF SelectionInv, ChangeInv, Restoring, Examined
  <2>7. RestoreInv'
    <3>1. /\ PhysicalPath(dsMachine.dataPVs) \cap PhysicalPath(dsMachine.logPVs) = {}
          /\ (dsGroup => dsCall.group # "") /\ (dsCall.disk = "" /\ ~dsGroup => dsDisks = <<>>)
          /\ dsGroup \/ dsCall.disk # "" => dsDisk = dsCall.disk
          /\ ~dsGroup /\ ~(dsCall.disk # "" /\ dsCall.zone) => dsDisk \in Matched
          /\ dsGroup => Range(dsDisks) = Matched
      BY <2>1, Zenon DEF SelectionInv, RestoreInv, Restoring, Mapped
    <3>2. dsGroup' => /\ dsCall'.disks = <<>> => Range(dsDisks') = Matched'
                      /\ dsMachine'.instances > 1 => Matched' \subseteq Range(dsDisks') /\ Range(dsDisks') = Range(dsCall'.disks)
      BY <2>1, <2>3, <3>1, SelectionFrame, Zenon
    <3>3. dsCall'.disk = "" /\ ~dsGroup' => dsDisks' = <<>>
      BY <2>1, <2>2, <3>1, Zenon
    <3> QED BY <2>1, <2>4, <3>1, <3>2, <3>3, SelectionFrame, Zenon DEF RestoreInv, Restoring, Mapped, Chosen
  <2>8. SnapshotsInv'
    BY <2>1, <2>4, SelectionFrame, Zenon DEF SelectionInv, SnapshotsInv, Restoring, Examined
  <2> QED BY <1>1, <2>5, <2>6, <2>7, <2>8, Zenon DEF SelectionInv
<1> QED BY <1>2, <1>3

(* A listing of a set has each of its elements. *)
LEMMA ListingIsWhole ==
    ASSUME NEW S, IsFiniteSet(S), NEW items \in SetToSeqs(S)
    PROVE  {items[i] : i \in DOMAIN items} = S
<1>1. Cardinality(S) \in Nat
  BY FS_CardinalityType
<1>2. /\ items \in [1..Cardinality(S) -> S]
      /\ \A i, j \in 1..Cardinality(S) : i # j => items[i] # items[j]
  BY DEF SetToSeqs
<1>3. items \in Injection(1..Cardinality(S), S)
  BY <1>2 DEF Injection, IsInjective
<1>4. IsFiniteSet(1..Cardinality(S)) /\ Cardinality(1..Cardinality(S)) = Cardinality(S)
  BY <1>1, PlacesAreFinite
<1>5. items \in Surjection(1..Cardinality(S), S)
  BY <1>3, <1>4, FS_Injection
<1> QED BY <1>2, <1>5 DEF Surjection

(* The snapshots that are examined are those that were named. *)
LEMMA VerifySnapshotsKeeps ==
    ASSUME SelectionInv, VerifySnapshots, UNCHANGED <<dsMachine, dsCall, dsMoves>> PROVE SelectionInv'
<1>1. GivenInv'
  BY Zenon DEF SelectionInv, GivenInv
<1>2. CASE dsStep' = "failed"
  BY <1>1, <1>2, EndedInvariant, Zenon
<1>3. CASE dsStep' # "failed"
  <2> DEFINE single == {s \in dsMachine.snapshots : s.name = dsCall.snapshot}
             listed == {s \in dsMachine.snapshots : s.group = dsCall.group}
  <2>1. dsStep = "snapshots" /\ UNCHANGED <<dsDisk, dsDisks, dsGroup, dsCg, dsNames, dsKeys>>
    BY Zenon DEF VerifySnapshots
  <2>2. ASSUME ~dsGroup
        PROVE  \E s \in single : dsStep' = "cg" /\ dsItems' = <<s>> /\ CMEKLocationFits(s)
    BY <1>3, <2>2, Zenon DEF VerifySnapshots, Check
  <2>3. ASSUME dsGroup
        PROVE  /\ dsStep' = "cg" /\ dsItems' \in SetToSeqs(listed) /\ Len(dsItems') = Len(dsDisks)
               /\ \A i \in DOMAIN dsItems' : ~UseSnapshotGroupWorkflow \/ i = 1 => CMEKLocationFits(dsItems'[i])
    BY <1>3, <2>3, Zenon DEF VerifySnapshots, Check
  <2>4. dsStep' = "cg"
    BY <2>2, <2>3
  <2>5. BackupInv'
    BY <2>4, Zenon DEF BackupInv, FoundDisks
  <2>6. RestoreInv'
    BY <2>1, <2>4, SelectionFrame, Zenon DEF SelectionInv, RestoreInv, Restoring, Mapped, Chosen
  <2>7. IsFiniteSet(dsMachine.snapshots) /\ \A s, t \in dsMachine.snapshots : s.name # "" /\ (s.name = t.name => s = t)
    BY Zenon DEF SelectionInv, GivenInv, IsMachine
  <2>8. ~dsGroup => dsItems'[1] \in single /\ DOMAIN dsItems' = {1}
    BY <2>2
  <2>9. ~dsGroup => dsCall.snapshot # "" /\ CMEKLocationFits(dsItems'[1]) /\ {dsItems'[i] : i \in DOMAIN dsItems'} = single
    <3>1. SUFFICES ASSUME ~dsGroup
                   PROVE  dsCall.snapshot # "" /\ CMEKLocationFits(dsItems'[1]) /\ {dsItems'[i] : i \in DOMAIN dsItems'} = single
      OBVIOUS
    <3>2. PICK s \in single : dsItems' = <<s>> /\ CMEKLocationFits(s)
      BY <2>2, <3>1
    <3>3. single = {s} /\ dsCall.snapshot # ""
      BY <2>7, Zenon
    <3>4. dsItems'[1] = s /\ {dsItems'[i] : i \in DOMAIN dsItems'} = {s}
      BY <3>2
    <3> QED BY <3>2, <3>3, <3>4, Zenon
  <2>10. dsGroup => {dsItems'[i] : i \in DOMAIN dsItems'} = listed
    <3>1. IsFiniteSet(listed)
      BY <2>7, FS_Subset
    <3> HIDE DEF listed
    <3> QED BY <2>3, <3>1, ListingIsWhole
  <2>11. ChangeInv'
    <3>1. ASSUME dsCall.kind = "change"
          PROVE  /\ dsCall.disk # "" /\ ~dsGroup
                 /\ \A s \in dsMachine.snapshots : s.name = dsCall.snapshot => s.disk = dsCall.disk
      <4>1. dsCall.group = ""
        BY <3>1, SelectionAssumption, Zenon DEF SelectionInv, GivenInv
      <4> QED BY <2>1, <3>1, <4>1, Zenon DEF SelectionInv, ChangeInv, RestoreInv, Restoring
    <3>2. dsCall.kind = "change" => dsItems'[1].disk = dsCall.disk
      BY <2>8, <3>1, Zenon
    <3> QED BY <2>4, <3>1, <3>2, Zenon DEF ChangeInv, Restoring, Examined
  <2>12. SnapshotsInv'
    <3>1. dsMoves' = 0 => dsKeys' \in {EncryptionKeys', {}}
      BY <2>1, SelectionFrame, Zenon DEF SelectionInv, SnapshotsInv, Restoring
    <3>2. dsGroup' => Len(dsItems') = Len(dsDisks')
      BY <2>1, <2>3, Zenon
    <3>3. \A i \in DOMAIN dsItems' : ~dsGroup' \/ ~UseSnapshotGroupWorkflow' \/ i = 1 => CMEKLocationFits(dsItems'[i])
      <4>1. ~dsGroup => \A i \in DOMAIN dsItems' : CMEKLocationFits(dsItems'[i])
        BY <2>8, <2>9, Zenon
      <4> QED BY <2>1, <2>3, <4>1, SelectionFrame, Zenon
    <3>4. ~dsGroup' => dsCall'.snapshot # ""
      BY <2>1, <2>9, Zenon
    <3>5. {dsItems'[i] : i \in DOMAIN dsItems'} =
            {s \in dsMachine'.snapshots : IF dsGroup' THEN s.group = dsCall'.group ELSE s.name = dsCall'.snapshot}
      <4>1. dsGroup => {s \in dsMachine.snapshots : IF dsGroup THEN s.group = dsCall.group ELSE s.name = dsCall.snapshot} = listed
        BY Zenon
      <4>2. ~dsGroup => {s \in dsMachine.snapshots : IF dsGroup THEN s.group = dsCall.group ELSE s.name = dsCall.snapshot} = single
        BY Zenon
      <4> QED BY <2>1, <2>9, <2>10, <4>1, <4>2, Zenon
    <3>6. \A i \in DOMAIN dsItems' : (~dsGroup \/ ~UseSnapshotGroupWorkflow \/ i = 1 => CMEKLocationFits(dsItems[i]))'
      BY <3>3, SelectionFrame, Zenon
    <3> QED BY <2>4, <3>1, <3>2, <3>4, <3>5, <3>6, Zenon DEF SnapshotsInv, Restoring, Examined
  <2> QED BY <1>1, <2>5, <2>6, <2>11, <2>12, Zenon DEF SelectionInv
<1> QED BY <1>2, <1>3

(* The group of the disks changes nothing else. *)
LEMMA CheckGroupKeeps ==
    ASSUME SelectionInv, CheckGroup, UNCHANGED <<dsMachine, dsCall, dsMoves>> PROVE SelectionInv'
<1>1. GivenInv'
  BY Zenon DEF SelectionInv, GivenInv
<1>2. CASE dsStep' = "failed"
  BY <1>1, <1>2, EndedInvariant, Zenon
<1>3. CASE dsStep' # "failed"
  <2>1. dsStep = "cg" /\ SameGroup(dsDisks, "names") /\ UNCHANGED <<dsDisk, dsDisks, dsGroup, dsItems, dsNames, dsKeys>>
    BY <1>3, Zenon DEF CheckGroup
  <2>2. dsStep' = "names"
    BY <1>3, <2>1, GroupOrFailure, Zenon
  <2>3. BackupInv'
    BY <2>2, Zenon DEF BackupInv, FoundDisks
  <2>4. ChangeInv'
    BY <2>1, <2>2, Zenon DEF SelectionInv, ChangeInv, Restoring, Examined
  <2>5. RestoreInv'
    BY <2>1, <2>2, SelectionFrame, Zenon DEF SelectionInv, RestoreInv, Restoring, Mapped, Chosen
  <2>6. SnapshotsInv'
    BY <2>1, <2>2, SelectionFrame, Zenon DEF SelectionInv, SnapshotsInv, Restoring, Examined
  <2> QED BY <1>1, <2>3, <2>4, <2>5, <2>6, Zenon DEF SelectionInv
<1> QED BY <1>2, <1>3

(* The names are as many as the disks. *)
LEMMA CheckNamesKeeps ==
    ASSUME SelectionInv, CheckNames, UNCHANGED <<dsMachine, dsCall, dsMoves>> PROVE SelectionInv'
<1>1. GivenInv'
  BY Zenon DEF SelectionInv, GivenInv
<1>2. CASE dsStep' = "failed"
  BY <1>1, <1>2, EndedInvariant, Zenon
<1>3. CASE dsStep' # "failed"
  <2>1. /\ dsStep = "names" /\ dsStep' = "ready" /\ (dsNames' # <<>> => Len(dsNames') = Len(dsDisks))
        /\ UNCHANGED <<dsDisk, dsDisks, dsGroup, dsCg, dsItems, dsKeys>>
    BY <1>3, Zenon DEF CheckNames, Check
  <2>3. BackupInv'
    BY <2>1, Zenon DEF BackupInv, FoundDisks
  <2>4. ChangeInv'
    BY <2>1, Zenon DEF SelectionInv, ChangeInv, Restoring, Examined
  <2>5. RestoreInv'
    BY <2>1, SelectionFrame, Zenon DEF SelectionInv, RestoreInv, Restoring, Mapped, Chosen
  <2>6. SnapshotsInv'
    BY <2>1, SelectionFrame, Zenon DEF SelectionInv, SnapshotsInv, Restoring, Examined
  <2> QED BY <1>1, <2>3, <2>4, <2>5, <2>6, Zenon DEF SelectionInv
<1> QED BY <1>2, <1>3

(* The snapshot of hanachangedisktype is of its disk, and its name is new. *)
LEMMA TakeSnapshotsKeeps == ASSUME SelectionInv, TakeSnapshots PROVE SelectionInv'
<1>1. /\ dsStep = "named" /\ dsStep' \in {"failed", "backedUp", "restore"}
      /\ UNCHANGED <<dsCall, dsMoves, dsDisk, dsDisks, dsGroup, dsCg, dsItems, dsNames, dsKeys>>
  BY Zenon DEF TakeSnapshots, Check, dsFound
<1>2. CASE ~(dsCall.kind = "change" /\ dsStep' = "restore")
  <2>1. dsMachine' = dsMachine /\ dsStep' \in {"failed", "backedUp"}
    BY <1>2, Zenon DEF TakeSnapshots, Check
  <2>2. CASE dsStep' = "failed"
    <3>1. GivenInv'
      BY <1>1, <2>1, Zenon DEF SelectionInv, GivenInv
    <3> QED BY <2>2, <3>1, EndedInvariant, Zenon
  <2>3. CASE dsStep' = "backedUp"
    BY <1>1, <2>1, <2>3, BackupProceeds, Zenon
  <2> QED BY <2>1, <2>2, <2>3, Zenon
<1>3. CASE dsCall.kind = "change" /\ dsStep' = "restore"
  <2> DEFINE taken == [name |-> dsCall.snapshot, group |-> "", disk |-> dsDisk, key |-> ""]
  <2>1. dsMachine' = [dsMachine EXCEPT !.snapshots = @ \cup {taken}]
    BY <1>3, Zenon DEF TakeSnapshots
  <2>2. \A s \in dsMachine.snapshots : s.name # dsCall.snapshot
    BY <1>3, Zenon DEF TakeSnapshots, Check
  <2>3. taken.name = dsCall.snapshot /\ taken.disk = dsDisk
    BY Zenon
  <2> HIDE DEF taken
  <2>4. IsMachine(dsMachine) /\ dsCall.snapshot # ""
    BY <1>3, SelectionAssumption, Zenon DEF SelectionInv, GivenInv
  <2>5. /\ DOMAIN dsMachine' = DOMAIN dsMachine /\ dsMachine'.snapshots = dsMachine.snapshots \cup {taken}
        /\ dsMachine'.disks = dsMachine.disks /\ dsMachine'.attached = dsMachine.attached
        /\ dsMachine'.instances = dsMachine.instances /\ dsMachine'.dataPVs = dsMachine.dataPVs /\ dsMachine'.whole = dsMachine.whole
    <3>1. "snapshots" \in DOMAIN dsMachine
      BY <2>4 DEF IsMachine
    <3> QED BY <2>1, <3>1
  <2>6. IsMachine(dsMachine')
    <3>1. IsFiniteSet(dsMachine'.snapshots)
      <4>1. IsFiniteSet(dsMachine.snapshots)
        BY <2>4, Zenon DEF IsMachine
      <4>2. IsFiniteSet(dsMachine.snapshots \cup {taken})
        BY <4>1, FS_AddElement
      <4> QED BY <2>5, <4>2, Zenon
    <3>2. \A s, t \in dsMachine'.snapshots : s.name # "" /\ (s.name = t.name => s = t)
      BY <2>2, <2>3, <2>4, <2>5, Zenon DEF IsMachine
    <3> QED BY <2>4, <2>5, <3>1, <3>2, Zenon DEF IsMachine
  <2>7. GivenInv'
    BY <1>1, <2>5, <2>6, Zenon DEF SelectionInv, GivenInv
  <2>8. dsCall.disk # "" /\ dsDisk = dsCall.disk
    BY <1>1, <1>3, Zenon DEF SelectionInv, ChangeInv, BackupInv, FoundDisks
  <2>9. \A s \in dsMachine'.snapshots : s.name = dsCall.snapshot => s.disk = dsCall.disk
    BY <2>2, <2>3, <2>5, <2>8, Zenon
  <2>10. ChangeInv'
    BY <1>1, <1>3, <2>8, <2>9, Zenon DEF ChangeInv, Restoring, Examined
  <2>11. BackupInv'
    BY <1>3, Zenon DEF BackupInv, FoundDisks
  <2>12. RestoreInv'
    BY <1>1, <1>3, <2>8, Zenon DEF RestoreInv, Restoring, Mapped, Chosen
  <2>13. SnapshotsInv'
    BY <1>3, Zenon DEF SnapshotsInv, Restoring, Examined
  <2> QED BY <2>7, <2>10, <2>11, <2>12, <2>13, Zenon DEF SelectionInv
<1> QED BY <1>2, <1>3

(* A disk that is detached or attached leaves the others where they are. *)
LEMMA OneDetached ==
    ASSUME NEW D, NEW s \in Seq(D), NEW i \in DOMAIN s
    PROVE  /\ RemoveAt(s, i) \in Seq(D) /\ Range(RemoveAt(s, i)) \subseteq Range(s)
           /\ \A x \in Range(s) : x # s[i] => x \in Range(RemoveAt(s, i))
<1> DEFINE a == SubSeq(s, 1, i - 1)
           b == SubSeq(s, i + 1, Len(s))
           r == a \o b
<1>1. i \in 1..Len(s) /\ Len(s) \in Nat /\ i \in Nat
  OBVIOUS
<1>2. /\ a \in Seq(D) /\ Len(a) = i - 1
      /\ \A k \in 1..(i - 1) : a[k] = s[k]
  BY <1>1
<1>3. /\ b \in Seq(D) /\ Len(b) = Len(s) - i
      /\ \A k \in 1..(Len(s) - i) : b[k] = s[k + i]
  BY <1>1
<1> HIDE DEF a, b
<1>4. /\ r \in Seq(D) /\ Len(r) = Len(s) - 1 /\ DOMAIN r = 1..(Len(s) - 1)
      /\ \A k \in 1..(Len(s) - 1) : r[k] = IF k <= i - 1 THEN a[k] ELSE b[k - (i - 1)]
  BY <1>1, <1>2, <1>3, SMTT(30)
<1>5. RemoveAt(s, i) = r
  BY Zenon DEF RemoveAt, a, b
<1> HIDE DEF r
<1>6. \A k \in 1..(Len(s) - 1) : r[k] = IF k < i THEN s[k] ELSE s[k + 1]
  <2> SUFFICES ASSUME NEW k \in 1..(Len(s) - 1) PROVE r[k] = IF k < i THEN s[k] ELSE s[k + 1]
    OBVIOUS
  <2>1. CASE k < i
    BY <1>1, <1>2, <1>4, <2>1
  <2>2. CASE ~(k < i)
    <3>1. k - (i - 1) \in 1..(Len(s) - i) /\ (k - (i - 1)) + i = k + 1 /\ ~(k <= i - 1)
      BY <1>1, <2>2
    <3> QED BY <1>3, <1>4, <2>2, <3>1
  <2> QED BY <2>1, <2>2
<1>7. Range(r) \subseteq Range(s)
  BY <1>1, <1>4, <1>6 DEF Range
<1>8. ASSUME NEW x \in Range(s), x # s[i] PROVE x \in Range(r)
  <2>1. PICK j \in 1..Len(s) : x = s[j]
    BY DEF Range
  <2>2. CASE j < i
    <3>1. j \in DOMAIN r /\ r[j] = x
      BY <1>1, <1>4, <1>6, <2>1, <2>2
    <3> QED BY <3>1 DEF Range
  <2>3. CASE j > i
    <3>1. j - 1 \in DOMAIN r /\ r[j - 1] = x
      BY <1>1, <1>4, <1>6, <2>1, <2>3
    <3> QED BY <3>1 DEF Range
  <2> QED BY <1>1, <1>8, <2>1, <2>2, <2>3
<1> QED BY <1>4, <1>5, <1>7, <1>8

(* A disk that is attached comes last. *)
LEMMA OneAttached ==
    ASSUME NEW D, NEW s \in Seq(D), NEW d \in D
    PROVE  Append(s, d) \in Seq(D) /\ Range(Append(s, d)) = Range(s) \cup {d}
<1> DEFINE r == Append(s, d)
<1>1. /\ r \in Seq(D) /\ DOMAIN r = 1..(Len(s) + 1) /\ r[Len(s) + 1] = d /\ Len(s) \in Nat
      /\ \A k \in 1..Len(s) : r[k] = s[k]
  OBVIOUS
<1>2. DOMAIN s = 1..Len(s)
  OBVIOUS
<1> HIDE DEF r
<1>3. ASSUME NEW x \in Range(r) PROVE x \in Range(s) \cup {d}
  <2>1. PICK k \in 1..(Len(s) + 1) : x = r[k]
    BY <1>1 DEF Range
  <2>2. k \in 1..Len(s) \/ k = Len(s) + 1
    BY <1>1
  <2> QED BY <1>1, <1>2, <2>1, <2>2 DEF Range
<1>4. ASSUME NEW x \in Range(s) PROVE x \in Range(r)
  <2>1. PICK k \in 1..Len(s) : x = s[k]
    BY <1>2 DEF Range
  <2>2. k \in DOMAIN r
    BY <1>1
  <2> QED BY <1>1, <2>1, <2>2 DEF Range
<1>5. d \in Range(r)
  <2>1. Len(s) + 1 \in DOMAIN r
    BY <1>1
  <2> QED BY <1>1, <2>1, Zenon DEF Range
<1> QED BY <1>1, <1>3, <1>4, <1>5, Zenon DEF r

(* A disk that matches is one of the volume. *)
LEMMA MatchingIsOfVolume ==
    ASSUME GivenInv, NEW d, DiskMatches(d)
    PROVE  /\ dsMachine.disks[d].linked /\ dsMachine.disks[d].device \in PhysicalPath(dsMachine.dataPVs)
           /\ dsMachine.disks[d].device \in WithDevices(dsMachine.dataPVs) /\ OfVolume(d)
<1>1. PhysicalPath(dsMachine.dataPVs) \subseteq WithDevices(dsMachine.dataPVs)
  BY DEF PhysicalPath, WithDevices
<1>2. "unknown" \notin WithDevices(dsMachine.dataPVs)
  BY Zenon DEF GivenInv, IsMachine, WithDevices
<1>3. WithDevices(dsMachine.dataPVs) \subseteq WithDevices(dsMachine.dataPVs \cup dsMachine.logPVs)
  BY DEF WithDevices
<1>4. ReadMapping(d) \in PhysicalPath(dsMachine.dataPVs)
  BY Zenon DEF DiskMatches
<1>5. dsMachine.disks[d].linked /\ ReadMapping(d) = dsMachine.disks[d].device
  BY <1>1, <1>2, <1>4, Zenon DEF ReadMapping
<1> QED BY <1>1, <1>3, <1>4, <1>5, Zenon DEF OfVolume

(* What others do leaves the disks of the volumes, and brings no snapshot. *)
LEMMA OthersLeaveTheVolume ==
    ASSUME GivenInv, OthersMove
    PROVE  /\ IsMachine(dsMachine') /\ dsMachine'.snapshots \subseteq dsMachine.snapshots
           /\ dsMachine'.dataPVs = dsMachine.dataPVs /\ dsMachine'.logPVs = dsMachine.logPVs
           /\ dsMachine'.whole = dsMachine.whole /\ dsMachine'.instances = dsMachine.instances
           /\ DOMAIN dsMachine'.disks = DOMAIN dsMachine.disks
           /\ \A d \in DOMAIN dsMachine.disks : /\ dsMachine'.disks[d].device = dsMachine.disks[d].device
                                                /\ dsMachine'.disks[d].linked = dsMachine.disks[d].linked
                                                /\ dsMachine'.disks[d].cg = dsMachine.disks[d].cg
           /\ Range(dsMachine'.attached) \subseteq DOMAIN dsMachine.disks
           /\ \A d : OfVolume(d) => (d \in Range(dsMachine'.attached) <=> d \in Range(dsMachine.attached))
<1> DEFINE fields == {"df", "findmnt", "whole", "striped", "dataPVs", "logPVs", "instances", "attached", "disks", "snapshots"}
           Disk == [device : STRING, linked : BOOLEAN, cg : STRING, used : BOOLEAN]
           Names == DOMAIN dsMachine.disks
<1>1. IsMachine(dsMachine)
  BY Zenon DEF GivenInv
<1>2. DOMAIN dsMachine = fields /\ dsMachine.disks \in [Names -> Disk] /\ dsMachine.attached \in Seq(Names)
  BY <1>1, Zenon DEF IsMachine
<1>3. ASSUME NEW d \in Names, NEW u \in BOOLEAN, NEW a \in Seq(Names),
             dsMachine' = [dsMachine EXCEPT !.attached = a, !.disks[d].used = u]
      PROVE  /\ IsMachine(dsMachine') /\ dsMachine'.snapshots = dsMachine.snapshots
             /\ dsMachine'.dataPVs = dsMachine.dataPVs /\ dsMachine'.logPVs = dsMachine.logPVs
             /\ dsMachine'.whole = dsMachine.whole /\ dsMachine'.instances = dsMachine.instances
             /\ dsMachine'.attached = a /\ DOMAIN dsMachine'.disks = Names
             /\ \A x \in Names : /\ dsMachine'.disks[x].device = dsMachine.disks[x].device
                                 /\ dsMachine'.disks[x].linked = dsMachine.disks[x].linked
                                 /\ dsMachine'.disks[x].cg = dsMachine.disks[x].cg
  <2> DEFINE disks == [dsMachine.disks EXCEPT ![d].used = u]
  <2>1. /\ DOMAIN dsMachine' = fields /\ dsMachine'.attached = a /\ dsMachine'.disks = disks
        /\ dsMachine'.snapshots = dsMachine.snapshots
        /\ dsMachine'.dataPVs = dsMachine.dataPVs /\ dsMachine'.logPVs = dsMachine.logPVs
        /\ dsMachine'.whole = dsMachine.whole /\ dsMachine'.instances = dsMachine.instances
    <3> HIDE DEF Disk, Names
    <3> QED BY <1>2, <1>3
  <2>2. disks \in [Names -> Disk]
    <3> HIDE DEF Names
    <3> QED BY <1>2
  <2>3. \A x \in Names : disks[x].device = dsMachine.disks[x].device /\ disks[x].linked = dsMachine.disks[x].linked
                         /\ disks[x].cg = dsMachine.disks[x].cg
    <3> HIDE DEF Names
    <3> QED BY <1>2
  <2>4. DOMAIN disks = Names
    BY <2>2
  <2> HIDE DEF disks, Names, Disk
  <2>5. DOMAIN disks \in SUBSET (STRING \ {""}) /\ disks \in [DOMAIN disks -> Disk] /\ a \in Seq(DOMAIN disks)
    BY <1>1, <2>2, <2>4, Zenon DEF IsMachine, Names
  <2>6. IsMachine(dsMachine')
    BY <1>1, <2>1, <2>5, Zenon DEF IsMachine, Disk
  <2> QED BY <2>1, <2>3, <2>4, <2>6, Zenon
<1>4. ASSUME NEW i \in DOMAIN dsMachine.attached, ~OfVolume(dsMachine.attached[i]),
             dsMachine' = [dsMachine EXCEPT !.attached = RemoveAt(@, i), !.disks[dsMachine.attached[i]].used = FALSE]
      PROVE  \E d \in Names, u \in BOOLEAN, a \in Seq(Names) :
                /\ ~OfVolume(d) /\ dsMachine' = [dsMachine EXCEPT !.attached = a, !.disks[d].used = u]
                /\ \A x : x # d => (x \in Range(a) <=> x \in Range(dsMachine.attached))
  <2>1. PICK s \in Seq(Names) : s = dsMachine.attached
    BY <1>2, Zenon
  <2>2. s[i] \in Names /\ i \in DOMAIN s
    BY <2>1
  <2>3. /\ RemoveAt(s, i) \in Seq(Names) /\ Range(RemoveAt(s, i)) \subseteq Range(s)
        /\ \A x \in Range(s) : x # s[i] => x \in Range(RemoveAt(s, i))
    BY <2>2, OneDetached
  <2>4. FALSE \in BOOLEAN /\ dsMachine' = [dsMachine EXCEPT !.attached = RemoveAt(s, i), !.disks[s[i]].used = FALSE]
    BY <1>4, <2>1
  <2> HIDE DEF Names
  <2> QED BY <1>4, <2>1, <2>2, <2>3, <2>4, Zenon
<1>5. ASSUME NEW d \in Names, ~OfVolume(d),
             dsMachine' = [dsMachine EXCEPT !.attached = Append(@, d), !.disks[d].used = TRUE]
      PROVE  \E u \in BOOLEAN, a \in Seq(Names) :
                /\ dsMachine' = [dsMachine EXCEPT !.attached = a, !.disks[d].used = u]
                /\ \A x : x # d => (x \in Range(a) <=> x \in Range(dsMachine.attached))
  <2>1. PICK s \in Seq(Names) : s = dsMachine.attached
    BY <1>2, Zenon
  <2>3. Append(s, d) \in Seq(Names) /\ Range(Append(s, d)) = Range(s) \cup {d}
    BY OneAttached
  <2>4. TRUE \in BOOLEAN /\ dsMachine' = [dsMachine EXCEPT !.attached = Append(s, d), !.disks[d].used = TRUE]
    BY <1>5, <2>1
  <2> HIDE DEF Names
  <2> QED BY <2>1, <2>3, <2>4, Zenon
<1>6. ASSUME NEW s \in dsMachine.snapshots, dsMachine' = [dsMachine EXCEPT !.snapshots = @ \ {s}]
      PROVE  /\ IsMachine(dsMachine') /\ dsMachine'.snapshots \subseteq dsMachine.snapshots
             /\ dsMachine'.dataPVs = dsMachine.dataPVs /\ dsMachine'.logPVs = dsMachine.logPVs
             /\ dsMachine'.whole = dsMachine.whole /\ dsMachine'.instances = dsMachine.instances
             /\ dsMachine'.disks = dsMachine.disks /\ dsMachine'.attached = dsMachine.attached
  <2>1. /\ DOMAIN dsMachine' = fields /\ dsMachine'.snapshots = dsMachine.snapshots \ {s}
        /\ dsMachine'.dataPVs = dsMachine.dataPVs /\ dsMachine'.logPVs = dsMachine.logPVs
        /\ dsMachine'.whole = dsMachine.whole /\ dsMachine'.instances = dsMachine.instances
        /\ dsMachine'.disks = dsMachine.disks /\ dsMachine'.attached = dsMachine.attached
    BY <1>2, <1>6
  <2>2. IsFiniteSet(dsMachine'.snapshots)
    <3>1. IsFiniteSet(dsMachine.snapshots)
      BY <1>1, Zenon DEF IsMachine
    <3>2. IsFiniteSet(dsMachine.snapshots \ {s})
      BY <3>1, FS_Difference
    <3> QED BY <2>1, <3>2, Zenon
  <2>3. IsMachine(dsMachine')
    BY <1>1, <2>1, <2>2, Zenon DEF IsMachine
  <2> QED BY <2>1, <2>3, Zenon
<1>7. CASE \E d \in Names, u \in BOOLEAN, a \in Seq(Names) :
                /\ ~OfVolume(d) /\ dsMachine' = [dsMachine EXCEPT !.attached = a, !.disks[d].used = u]
                /\ \A x : x # d => (x \in Range(a) <=> x \in Range(dsMachine.attached))
  <2>1. PICK d \in Names, u \in BOOLEAN, a \in Seq(Names) :
                /\ ~OfVolume(d) /\ dsMachine' = [dsMachine EXCEPT !.attached = a, !.disks[d].used = u]
                /\ \A x : x # d => (x \in Range(a) <=> x \in Range(dsMachine.attached))
    BY <1>7, Zenon
  <2>2. Range(a) \subseteq Names
    BY DEF Range
  <2> HIDE DEF Names
  <2> QED BY <1>3, <2>1, <2>2, Zenon DEF Names
<1>8. CASE \E s \in dsMachine.snapshots : dsMachine' = [dsMachine EXCEPT !.snapshots = @ \ {s}]
  <2>1. Range(dsMachine.attached) \subseteq Names
    <3> HIDE DEF Names
    <3> QED BY <1>2 DEF Range
  <2> QED BY <1>6, <1>8, <2>1, Zenon
<1> QED BY <1>4, <1>5, <1>7, <1>8, Zenon DEF OthersMove

(* Others change nothing that the command has relied on. *)
LEMMA OthersMoveKeeps == ASSUME SelectionInv, OthersMove PROVE SelectionInv'
<1>1. dsMoves' = dsMoves + 1 /\ UNCHANGED <<dsCall, dsStep, dsDisk, dsDisks, dsGroup, dsCg, dsItems, dsNames, dsKeys>>
  BY Zenon DEF OthersMove, dsFound
<1>2. GivenInv
  BY Zenon DEF SelectionInv
<1>3. /\ IsMachine(dsMachine') /\ dsMachine'.snapshots \subseteq dsMachine.snapshots
      /\ dsMachine'.dataPVs = dsMachine.dataPVs /\ dsMachine'.logPVs = dsMachine.logPVs
      /\ dsMachine'.whole = dsMachine.whole /\ dsMachine'.instances = dsMachine.instances
      /\ DOMAIN dsMachine'.disks = DOMAIN dsMachine.disks
      /\ \A d \in DOMAIN dsMachine.disks : /\ dsMachine'.disks[d].device = dsMachine.disks[d].device
                                           /\ dsMachine'.disks[d].linked = dsMachine.disks[d].linked
                                           /\ dsMachine'.disks[d].cg = dsMachine.disks[d].cg
      /\ Range(dsMachine'.attached) \subseteq DOMAIN dsMachine.disks
      /\ \A d : OfVolume(d) => (d \in Range(dsMachine'.attached) <=> d \in Range(dsMachine.attached))
  BY <1>2, OthersLeaveTheVolume, Zenon
<1>4. dsMoves' \in Nat /\ dsMoves' # 0
  BY <1>1, <1>2 DEF GivenInv
<1>5. GivenInv'
  BY <1>1, <1>2, <1>3, <1>4, Zenon DEF GivenInv
<1>6. /\ PhysicalPath(dsMachine.dataPVs)' = PhysicalPath(dsMachine.dataPVs)
      /\ PhysicalPath(dsMachine.logPVs)' = PhysicalPath(dsMachine.logPVs)
  BY <1>1, <1>3 DEF PhysicalPath, WithDevices
<1>7. \A d \in DOMAIN dsMachine.disks : DiskMatches(d)' <=> DiskMatches(d)
  BY <1>1, <1>3, <1>6, Zenon DEF DiskMatches, ReadMapping
<1>8. Range(dsMachine.attached) \subseteq DOMAIN dsMachine.disks
  <2>1. PICK D : D = DOMAIN dsMachine.disks
    OBVIOUS
  <2>2. dsMachine.attached \in Seq(D)
    BY <1>2, <2>1, Zenon DEF GivenInv, IsMachine
  <2> QED BY <2>1, <2>2 DEF Range
<1>9. Matched' = Matched
  <2>1. \A d : d \in Matched' => d \in Matched
    BY <1>2, <1>3, <1>7, MatchingIsOfVolume, Zenon DEF Matched
  <2>2. \A d : d \in Matched => d \in Matched'
    BY <1>2, <1>3, <1>7, <1>8, MatchingIsOfVolume, Zenon DEF Matched
  <2> QED BY <2>1, <2>2, Zenon
<1>10. \A n, c : BelongToCG(n, c) => BelongToCG(n, c)'
  BY <1>3, Zenon DEF BelongToCG, Exists
<1>11. /\ (UseSnapshotGroupWorkflow' <=> UseSnapshotGroupWorkflow)
       /\ \A s : CMEKLocationFits(s)' <=> CMEKLocationFits(s)
  BY <1>1 DEF UseSnapshotGroupWorkflow, OlderThan, M2AgentVersion, CMEKLocationFits, Targeted
<1>12. BackupInv'
  BY <1>1, <1>9, <1>10, Zenon DEF SelectionInv, BackupInv, FoundDisks
<1>13. ChangeInv'
  BY <1>1, <1>3, Zenon DEF SelectionInv, ChangeInv, Restoring, Examined
<1>14. RestoreInv'
  BY <1>1, <1>3, <1>6, <1>9, Zenon DEF SelectionInv, RestoreInv, Restoring, Mapped, Chosen
<1>15. SnapshotsInv'
  BY <1>1, <1>4, <1>11, Zenon DEF SelectionInv, SnapshotsInv, Restoring, Examined
<1> QED BY <1>5, <1>12, <1>13, <1>14, <1>15, Zenon DEF SelectionInv

(* A command begins with nothing found. *)
LEMMA SelectionBegins == SelectionInit => SelectionInv
<1> SUFFICES ASSUME SelectionInit PROVE SelectionInv
  OBVIOUS
<1>1. /\ dsMachine \in Machines /\ dsCall \in Invocations /\ dsMoves = 0
      /\ dsDisks = <<>> /\ ~dsGroup /\ dsStep \in {"restore", "backup"} /\ (dsCall.kind = "change" => dsStep = "backup")
  BY Zenon DEF SelectionInit
<1>2. 0 \in Nat
  OBVIOUS
<1>3. GivenInv
  BY <1>1, <1>2, SelectionAssumption, Zenon DEF GivenInv
<1>4. BackupInv
  BY <1>1, Zenon DEF BackupInv, FoundDisks
<1>5. ChangeInv
  BY <1>1, Zenon DEF ChangeInv, Restoring, Examined
<1>6. RestoreInv
  BY <1>1, Zenon DEF RestoreInv, Restoring, Mapped, Chosen
<1>7. SnapshotsInv
  BY <1>1, Zenon DEF SnapshotsInv, Restoring, Examined
<1> QED BY <1>3, <1>4, <1>5, <1>6, <1>7, Zenon DEF SelectionInv

(* Every step of the command keeps the invariant. *)
LEMMA SelectionStepKeeps ==
    ASSUME SelectionInv, SelectionStep, UNCHANGED <<dsMachine, dsCall, dsMoves>> PROVE SelectionInv'
<1>1. GivenInv'
  BY Zenon DEF SelectionInv, GivenInv
<1>2. CASE dsStep' = "failed"
  BY <1>1, <1>2, EndedInvariant, Zenon
<1>3. CASE dsStep' # "failed"
  <2>1. CASE CheckDataDir
    BY <1>3, <2>1, BackupProceeds, Zenon DEF CheckDataDir, Check, dsFound
  <2>2. CASE CheckTopology
    BY <1>3, <2>2, BackupProceeds, Zenon DEF CheckTopology, dsFound
  <2>3. CASE SourceDisk
    BY <2>3, BackupProceeds, Zenon DEF SourceDisk, dsFound
  <2>4. CASE CheckGroupName
    BY <1>3, <2>4, BackupProceeds, Zenon DEF CheckGroupName, Check, dsFound
  <2>5. CASE CheckDirs
    BY <1>3, <2>5, RestoreProceeds, Zenon DEF CheckDirs, Check, dsFound
  <2>6. CASE CheckTargetKey
    BY <1>3, <2>6, RestoreProceeds, Zenon DEF CheckTargetKey, Check, dsFound
  <2>7. CASE CallFails
    BY <1>3, <2>7, Zenon DEF CallFails
  <2> QED
    BY <2>1, <2>2, <2>3, <2>4, <2>5, <2>6, <2>7, ValidateBackupKeeps, ScaleoutDisksKeeps, SourceDisksKeeps, DiscoverDisksKeeps,
       VerifyStripingKeeps, ValidateRestoreKeeps, ValidateEncryptionKeysKeeps, MapDataDisksKeeps, DisksAttachedKeeps,
       VerifySnapshotsKeeps, CheckGroupKeeps, CheckNamesKeeps, Zenon DEF SelectionStep
<1> QED BY <1>2, <1>3

(* Every step keeps the invariant. *)
LEMMA SelectionNextKeeps == SelectionInv /\ [SelectionNext]_dsVars => SelectionInv'
<1> SUFFICES ASSUME SelectionInv, [SelectionNext]_dsVars PROVE SelectionInv'
  OBVIOUS
<1>1. CASE UNCHANGED dsVars
  <2>1. UNCHANGED <<dsMachine, dsCall, dsStep, dsDisk, dsDisks, dsGroup, dsCg, dsItems, dsNames, dsKeys, dsMoves>>
    BY <1>1 DEF dsVars
  <2>2. GivenInv' /\ ChangeInv'
    BY <2>1, Zenon DEF SelectionInv, GivenInv, ChangeInv
  <2>3. BackupInv'
    BY <2>1, SelectionFrame, Zenon DEF SelectionInv, BackupInv
  <2>4. RestoreInv'
    BY <2>1, SelectionFrame, Zenon DEF SelectionInv, RestoreInv
  <2>5. SnapshotsInv'
    BY <2>1, SelectionFrame, Zenon DEF SelectionInv, SnapshotsInv
  <2> QED BY <2>2, <2>3, <2>4, <2>5, Zenon DEF SelectionInv
<1>2. CASE SelectionNext
  BY <1>2, SelectionStepKeeps, TakeSnapshotsKeeps, OthersMoveKeeps, Zenon DEF SelectionNext
<1> QED BY <1>1, <1>2

(* lvdisplay lists partitions, not the devices they are on, so root finds the disks of
   volumes on whole devices only (ParsePhysicalPath). *)
WholeDevices ==
    \A mach \in Machines, flags \in Invocations : flags.user = "root" => mach.dataPVs \cap DOMAIN mach.whole = {}

(* The disks that match are those of the volume. *)
LEMMA MatchedAreDataDisks ==
    ASSUME GivenInv, WholeDevices
    PROVE  Matched \subseteq DataDisks /\ (AllLinked => Matched = DataDisks)
<1>1. PhysicalPath(dsMachine.dataPVs) = WithDevices(dsMachine.dataPVs)
  <2>1. CASE dsCall.user = "root"
    <3>1. dsMachine.dataPVs \cap DOMAIN dsMachine.whole = {}
      BY <2>1, Zenon DEF GivenInv, WholeDevices
    <3> QED BY <2>1, <3>1 DEF PhysicalPath, WithDevices
  <2>2. CASE dsCall.user # "root"
    BY <2>2, Zenon DEF PhysicalPath
  <2> QED BY <2>1, <2>2
<1>2. Matched \subseteq DataDisks
  BY MatchingIsOfVolume, Zenon DEF Matched, DataDisks
<1>3. ASSUME AllLinked PROVE DataDisks \subseteq Matched
  <2>1. \A d \in Range(dsMachine.attached) : dsMachine.disks[d].linked
    BY <1>3, Zenon DEF AllLinked, Range
  <2> QED BY <1>1, <2>1, Zenon DEF Matched, DataDisks, DiskMatches, ReadMapping
<1> QED BY <1>2, <1>3, Zenon

(* Data and log may not share a device. *)
LEMMA NoLogDiskMatches ==
    ASSUME GivenInv, PhysicalPath(dsMachine.dataPVs) \cap PhysicalPath(dsMachine.logPVs) = {}
    PROVE  Matched \cap LogDisks = {}
<1>1. PhysicalPath(dsMachine.dataPVs) \cap WithDevices(dsMachine.logPVs) = {}
  <2>1. CASE dsCall.user = "root"
    <3>1. \A p \in DOMAIN dsMachine.whole : dsMachine.whole[p] \notin dsMachine.dataPVs
      BY Zenon DEF GivenInv, IsMachine
    <3> QED BY <2>1, <3>1 DEF PhysicalPath, WithDevices
  <2>2. CASE dsCall.user # "root"
    BY <2>2, Zenon DEF PhysicalPath
  <2> QED BY <2>1, <2>2
<1> QED BY <1>1, MatchingIsOfVolume, Zenon DEF Matched, LogDisks

(* The invariant implies what is promised of a backup. *)
LEMMA BackupIsOfTheVolume == ASSUME SelectionInv, WholeDevices PROVE BackupTakesTheVolume
  BY MatchedAreDataDisks, Zenon DEF SelectionInv, BackupInv, FoundDisks, BackupTakesTheVolume

(* The invariant implies what is promised of a restore. *)
LEMMA RestoreIsOfTheVolume == ASSUME SelectionInv, WholeDevices PROVE RestoreReplacesTheVolume
<1> SUFFICES ASSUME dsStep = "ready", AllLinked
             PROVE  /\ dsGroup /\ dsCall.disks = <<>> => Range(dsDisks) = DataDisks
                    /\ dsGroup /\ dsMachine.instances > 1 => DataDisks \subseteq Range(dsDisks) /\ Range(dsDisks) = Range(dsCall.disks)
                    /\ ~dsGroup /\ ~(dsCall.disk # "" /\ dsCall.zone) => dsDisk \in DataDisks
                    /\ dsCall.disks = <<>> /\ dsCall.disk = "" => (Range(dsDisks) \cup {dsDisk}) \cap LogDisks = {}
  BY Zenon DEF RestoreReplacesTheVolume
<1>1. /\ (dsCall.disk = "" /\ ~dsGroup => dsDisks = <<>>)
      /\ PhysicalPath(dsMachine.dataPVs) \cap PhysicalPath(dsMachine.logPVs) = {}
      /\ dsGroup \/ dsCall.disk # "" => dsDisk = dsCall.disk
      /\ ~dsGroup /\ ~(dsCall.disk # "" /\ dsCall.zone) => dsDisk \in Matched
      /\ dsGroup /\ dsCall.disks = <<>> => Range(dsDisks) = Matched
      /\ dsGroup /\ dsMachine.instances > 1 => Matched \subseteq Range(dsDisks) /\ Range(dsDisks) = Range(dsCall.disks)
  BY Zenon DEF SelectionInv, RestoreInv, Restoring, Mapped, Chosen
<1>2. Matched = DataDisks /\ Matched \cap LogDisks = {} /\ GivenInv
  BY <1>1, MatchedAreDataDisks, NoLogDiskMatches, Zenon DEF SelectionInv
<1>3. "" \notin LogDisks
  <2>1. PICK D : D = DOMAIN dsMachine.disks /\ D \in SUBSET (STRING \ {""}) /\ dsMachine.attached \in Seq(D)
    BY <1>2, Zenon DEF GivenInv, IsMachine
  <2>2. Range(dsMachine.attached) \subseteq D
    <3>1. dsMachine.attached \in Seq(D)
      BY <2>1, Zenon
    <3> QED BY <3>1 DEF Range
  <2>3. "" \notin D
    BY <2>1, Zenon
  <2> QED BY <2>2, <2>3, Zenon DEF LogDisks
<1>4. dsDisks = <<>> => Range(dsDisks) = {}
  BY DEF Range
<1>5. ASSUME dsCall.disks = <<>>, dsCall.disk = "" PROVE (Range(dsDisks) \cup {dsDisk}) \cap LogDisks = {}
  <2>1. CASE dsGroup
    BY <1>1, <1>2, <1>3, <1>5, <2>1, Zenon
  <2>2. CASE ~dsGroup
    BY <1>1, <1>2, <1>4, <1>5, <2>2, Zenon
  <2> QED BY <2>1, <2>2
<1> QED BY <1>1, <1>2, <1>5, Zenon

(* The invariant implies what is promised of the snapshots. *)
LEMMA SnapshotsServe == ASSUME SelectionInv PROVE SnapshotsServeTheDisks
  BY Zenon DEF SelectionInv, SnapshotsInv, Examined, SnapshotsServeTheDisks

(* The invariant implies what is promised of the keys. *)
LEMMA KeysServe == ASSUME SelectionInv PROVE KeysAreThoseInUse
<1> SUFFICES ASSUME dsStep = "ready", dsMoves = 0, dsKeys # {}, dsGroup => dsCall.snapshot = ""
             PROVE  dsKeys = IF Targeted THEN {dsCall.targetKey} ELSE {dsItems[i].key : i \in DOMAIN dsItems} \ {""}
  BY Zenon DEF KeysAreThoseInUse
<1> DEFINE examined == {s \in dsMachine.snapshots : IF dsGroup THEN s.group = dsCall.group ELSE s.name = dsCall.snapshot}
           keyed == {t \in dsMachine.snapshots : IF dsCall.snapshot # "" THEN t.name = dsCall.snapshot
                                                    ELSE dsCall.group # "" /\ t.group = dsCall.group}
<1>1. /\ dsKeys = EncryptionKeys /\ (~dsGroup => dsCall.snapshot # "") /\ (dsGroup => dsCall.group # "")
      /\ {dsItems[i] : i \in DOMAIN dsItems} = examined
  BY Zenon DEF SelectionInv, SnapshotsInv, RestoreInv, Restoring, Examined
<1>2. examined = keyed
  BY <1>1, Zenon
<1>3. EncryptionKeys = IF Targeted THEN {dsCall.targetKey} ELSE {s.key : s \in keyed} \ {""}
  BY Zenon DEF EncryptionKeys
<1> HIDE DEF examined, keyed
<1>4. {s.key : s \in keyed} = {dsItems[i].key : i \in DOMAIN dsItems}
  BY <1>1, <1>2
<1> QED BY <1>1, <1>3, <1>4, Zenon

(* The invariant implies what is promised of hanachangedisktype. *)
LEMMA ChangeServes == ASSUME SelectionInv PROVE ChangeRestoresItsDisk
  BY Zenon DEF SelectionInv, ChangeInv, RestoreInv, Examined, Mapped, ChangeRestoresItsDisk

(* The invariant is preserved by every step. *)
THEOREM SelectionInvariant == SelectionSpec => []SelectionInv
  BY SelectionBegins, SelectionNextKeeps, PTL DEF SelectionSpec

(* For any machines and flags, and whatever others do meanwhile: what passes the checks
   of hanadiskbackup, hanadiskrestore and hanachangedisktype is right. *)
THEOREM SelectionsAreSound == WholeDevices => (SelectionSpec => []SelectionIsSound)
<1>1. SelectionInv /\ WholeDevices => SelectionIsSound
  BY BackupIsOfTheVolume, RestoreIsOfTheVolume, SnapshotsServe, KeysServe, ChangeServes, Zenon DEF SelectionIsSound
<1>2. WholeDevices => [](WholeDevices)
  OBVIOUS
<1> QED BY <1>1, <1>2, SelectionInvariant, PTL
====================================================================================
