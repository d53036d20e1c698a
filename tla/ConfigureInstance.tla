--------------------------- MODULE ConfigureInstance ---------------------------
(***************************************************************************)
(* configureinstance (internal/onetime/configureinstance): it compares the *)
(* settings of the operating system with what the machine series wants     *)
(* and, with -apply, rewrites the files, regenerates what is made from     *)
(* them, and starts and configures the tuning service.  Each call may      *)
(* fail, and then the command ends and may be run again.                   *)
(***************************************************************************)
EXTENDS Naturals

CONSTANTS
    MachineSeries,  \* the machine series that are tried: "x4", "x5"
    Distributions,        \* the operating systems that are tried: "SLES", "RHEL", "other"
    MaxRuns         \* bound on the invocations

VARIABLES
    series, os, \* the machine, and its /etc/os-release
    call,       \* the invocation: [mode, threads, where], of mode "none" before it
    step,       \* where it is
    outcome,    \* "none", "success" or "failure"
    reboot,     \* the parts that were out of date
    file,       \* [file -> "ok" or "stale"]
    nosmt,      \* where nosmt stands in the line of the kernel in /etc/default/grub
    grubLine,   \* whether that line is "active", or all there is of it is a "comment"
    made,       \* what dracut and grub2-mkconfig made: from "ok" or "stale" files
    madeNosmt,  \* whether the boot configuration has nosmt
    service,    \* [service -> "running", "stopped" or "absent"]
    tuning,     \* what the tuning service has: [solution, note] are "ok" or "stale"
    wanted,     \* grubLinuxDefault of the daemon's process has nosmt
    runs

machine == <<file, nosmt, grubLine, made, madeNosmt, service, tuning>>
ciVars == <<series, os, call, step, outcome, reboot, machine, wanted, runs>>

NoCall == [mode |-> "none", threads |-> "on", where |-> "command"]

Files == {"system.conf", "logind.conf", "modprobe", "grub", "profile"}

(* nosmt is not in the line, is its "first" value, right behind the opening quote, or
   a "later" one, behind a blank. *)
NosmtPlaces == {"absent", "first", "later"}
BootsNosmt == grubLine = "active" /\ nosmt # "absent"

ConfigureInit ==
    /\ series \in MachineSeries /\ os \in Distributions
    /\ call = NoCall /\ step = "idle" /\ outcome = "none" /\ reboot = {}
    /\ file \in [Files -> {"stale"}] /\ nosmt \in NosmtPlaces /\ grubLine \in {"active", "comment"}
    /\ made = [f \in {"modprobe", "grub"} |-> "stale"] /\ madeNosmt = BootsNosmt
    /\ service \in {[sapconf |-> s, tuner |-> t] : s \in {"running", "stopped"},
                                                  t \in {"running", "stopped", "absent"}}
    /\ tuning = [t \in {"solution", "note"} |-> "stale"]
    /\ wanted = FALSE /\ runs = 0

Applies == call.mode = "apply"
Fails == step' = "ended" /\ outcome' = "failure"
Goes(s) == step' = s /\ UNCHANGED outcome

(* Execute and Run: exactly one mode; describe only reads. *)
Invoke ==
    /\ step \in {"idle", "ended"} /\ runs < MaxRuns
    /\ \E mode \in {"check", "apply", "describe"}, threads \in {"on", "off"},
          where \in {"command", "daemon"} :
         /\ call' = [mode |-> mode, threads |-> threads, where |-> where]
         /\ step' = IF mode = "describe" THEN "describe" ELSE "systemd"
         /\ outcome' = "none"
    /\ reboot' = {} /\ runs' = runs + 1
    /\ UNCHANGED <<series, os, machine, wanted>>

(* What is wanted beside what is found; a value that cannot be read is reported
   as one that is not there. *)
DescribeX4 ==
    /\ step = "describe" /\ series = "x4" /\ step' = "ended" /\ outcome' = "success"
    /\ UNCHANGED <<series, os, call, reboot, machine, wanted, runs>>

DescribeX5 ==
    /\ step = "describe" /\ series = "x5" /\ step' = "ended" /\ outcome' = "success"
    /\ UNCHANGED <<series, os, call, reboot, machine, wanted, runs>>

(* checkAndRegenerateFile, checkAndRegenerateLines, removeLines: a file that is
   out of date is a reason to reboot, and is rewritten with -apply.  An error of
   reading or writing ends the command. *)
Regenerate(f, onward) ==
    IF file[f] = "ok" THEN Goes(onward) /\ UNCHANGED <<file, reboot>>
      ELSE \/ /\ Goes(onward) /\ reboot' = reboot \cup {f}
              /\ file' = IF Applies THEN [file EXCEPT ![f] = "ok"] ELSE file
           \/ Fails /\ UNCHANGED <<file, reboot>>

Systemd ==
    /\ \/ step = "systemd" /\ Regenerate("system.conf", "login")
       \/ step = "login" /\ Regenerate("logind.conf", "modprobe")
       \/ step = "modprobe" /\ Regenerate("modprobe", "dracut")
    /\ UNCHANGED <<series, os, call, nosmt, grubLine, made, madeNosmt, service, tuning, wanted, runs>>

(* dracut runs when this invocation has rewritten its file. *)
Dracut ==
    /\ step = "dracut"
    /\ IF Applies /\ "modprobe" \in reboot
         THEN \/ Goes("grub") /\ made' = [made EXCEPT !["modprobe"] = file["modprobe"]]
              \/ Fails /\ UNCHANGED made
         ELSE Goes("grub") /\ UNCHANGED made
    /\ UNCHANGED <<series, os, call, reboot, file, nosmt, grubLine, madeNosmt, service, tuning, wanted, runs>>

(* The line of the kernel in /etc/default/grub: values that are missing are
   added, nosmt among them with hyperThreading off, which stays in the variable
   of the process for its later invocations.  A line that is commented out is taken
   for the setting, and stays a comment. *)
Wanted == (call.where = "daemon" /\ wanted) \/ (Applies /\ call.threads = "off")
GrubLine ==
    /\ step = "grub"
    /\ wanted' = (wanted \/ (call.where = "daemon" /\ Wanted))
    /\ IF file["grub"] = "ok" /\ (Wanted => nosmt # "absent")
         THEN Goes("grubNosmt") /\ UNCHANGED <<file, nosmt, reboot>>
         ELSE \/ /\ Goes("grubNosmt") /\ reboot' = reboot \cup {"grub"}
                 /\ IF Applies
                      THEN /\ file' = [file EXCEPT !["grub"] = "ok"]
                           /\ nosmt' = IF Wanted /\ nosmt = "absent" THEN "later" ELSE nosmt
                      ELSE UNCHANGED <<file, nosmt>>
              \/ Fails /\ UNCHANGED <<file, nosmt, reboot>>
    /\ UNCHANGED <<series, os, call, grubLine, made, madeNosmt, service, tuning, runs>>

(* Mutant: nosmt stays where it is. *)
GrubNosmtStays ==
    /\ step = "grubNosmt" /\ Goes("mkconfig")
    /\ UNCHANGED <<series, os, call, nosmt, grubLine, reboot, file, made, madeNosmt, service, tuning, wanted, runs>>

(* removeValues: hyperThreading on removes nosmt again, where it stands behind a blank;
   behind the quote it stays, and the file is written all the same. *)
GrubNosmt ==
    /\ step = "grubNosmt"
    /\ IF Applies /\ call.threads = "on" /\ nosmt # "absent"
         THEN \/ /\ Goes("mkconfig") /\ reboot' = reboot \cup {"grub"}
                 /\ nosmt' = IF nosmt = "later" THEN "absent" ELSE nosmt
              \/ Fails /\ UNCHANGED <<nosmt, reboot>>
         ELSE Goes("mkconfig") /\ UNCHANGED <<nosmt, reboot>>
    /\ UNCHANGED <<series, os, call, grubLine, file, made, madeNosmt, service, tuning, wanted, runs>>

(* grub2-mkconfig, when this invocation has changed the line. *)
MkConfig ==
    /\ step = "mkconfig"
    /\ IF Applies /\ "grub" \in reboot
         THEN \/ /\ Goes("service") /\ madeNosmt' = BootsNosmt
                 /\ made' = [made EXCEPT !["grub"] = IF grubLine = "active" THEN file["grub"] ELSE "stale"]
              \/ Fails /\ UNCHANGED <<made, madeNosmt>>
         ELSE Goes("service") /\ UNCHANGED <<made, madeNosmt>>
    /\ UNCHANGED <<series, os, call, reboot, file, nosmt, grubLine, service, tuning, wanted, runs>>

(* The tuning service must be installed, and run; a check does not start it. *)
TunerRuns ==
    \/ service["tuner"] = "running" /\ Goes("profile") /\ UNCHANGED service
    \/ /\ service["tuner"] = "stopped" /\ Applies
       /\ \/ Goes("profile") /\ service' = [service EXCEPT !["tuner"] = "running"]
          \/ Fails /\ UNCHANGED service
    \/ /\ service["tuner"] = "absent" \/ (service["tuner"] = "stopped" /\ ~Applies)
       /\ Fails /\ UNCHANGED service

(* saptuneService: sapconf must give way to saptune first, and a check waits for
   nobody while saptune applies its changes after a reboot. *)
SaptuneService ==
    \/ ~Applies /\ Fails /\ UNCHANGED service
    \/ service["sapconf"] = "stopped" /\ TunerRuns
    \/ /\ service["sapconf"] = "running" /\ Applies
       /\ \/ Goes("service") /\ service' = [service EXCEPT !["sapconf"] = "stopped"]
          \/ Fails /\ UNCHANGED service

(* tunedService. *)
TunedService == TunerRuns

ServiceX4 == step = "service" /\ IF os = "SLES" THEN SaptuneService ELSE TunedService
ServiceX5 == step = "service" /\ IF os = "SLES" THEN SaptuneService ELSE TunedService

(* The file of the saptune note, or of the tuned profile. *)
Profile ==
    /\ step = "profile" /\ Regenerate("profile", "reapply")
    /\ UNCHANGED <<series, os, call, nosmt, grubLine, made, madeNosmt, service, tuning, wanted, runs>>

(* saptuneSolutions and saptuneReapply: the solution is changed, the note
   reverted and applied anew; between the two it is not applied at all. *)
SaptuneReapply ==
    LET solution == tuning["solution"] # "ok"
        note == tuning["note"] # "ok" \/ "profile" \in reboot
    IN /\ reboot' = reboot \cup {t \in {"solution", "note"} :
                        (t = "solution" /\ solution) \/ (t = "note" /\ note)}
       /\ IF ~Applies THEN Goes("verify") /\ UNCHANGED tuning
            ELSE \/ Goes("verify") /\ tuning' = [t \in {"solution", "note"} |-> "ok"]
                 \/ solution /\ Fails /\ UNCHANGED tuning
                 \/ note /\ Fails /\ tuning' = [solution |-> "ok", note |-> tuning["note"]]
                 \/ note /\ Fails /\ tuning' = [solution |-> "ok", note |-> "stale"]

(* tunedReapply and the restart of tuned; a check that would have to activate
   the profile fails. *)
TunedReapply ==
    LET note == tuning["note"] # "ok" \/ "profile" \in reboot
    IN /\ reboot' = reboot \cup (IF note THEN {"note"} ELSE {})
       /\ IF note
            THEN IF Applies
                   THEN \/ Goes("verify") /\ tuning' = [tuning EXCEPT !["note"] = "ok"]
                        \/ Fails /\ UNCHANGED tuning
                        \/ Fails /\ tuning' = [tuning EXCEPT !["note"] = "ok"]
                   ELSE Fails /\ UNCHANGED tuning
            ELSE /\ UNCHANGED tuning
                 /\ Goes("verify") \/ (Applies /\ Fails)

ReapplyX4 == step = "reapply" /\ IF os = "SLES" THEN SaptuneReapply ELSE TunedReapply
ReapplyX5 == step = "reapply" /\ IF os = "SLES" THEN SaptuneReapply ELSE TunedReapply

(* saptuneVerify, tuned-adm verify: settings that are not in effect end the
   command, in whatever mode. *)
Verify ==
    /\ step = "verify"
    /\ IF tuning["note"] = "ok" /\ (os = "SLES" => tuning["solution"] = "ok")
         THEN Goes("finish") \/ Fails ELSE Fails
    /\ UNCHANGED <<series, os, call, reboot, machine, wanted, runs>>

(* An unknown system has no part of its own. *)
ConfigureX4 ==
    /\ series = "x4"
    /\ IF os = "other" THEN step = "service" /\ Goes("finish") /\ UNCHANGED <<service, reboot, tuning>>
         ELSE \/ ServiceX4 /\ UNCHANGED <<reboot, tuning>>
              \/ ReapplyX4 /\ UNCHANGED service
    /\ UNCHANGED <<series, os, call, file, nosmt, grubLine, made, madeNosmt, wanted, runs>>

ConfigureX5 ==
    /\ series = "x5"
    /\ IF os = "other" THEN step = "service" /\ Goes("finish") /\ UNCHANGED <<service, reboot, tuning>>
         ELSE \/ ServiceX5 /\ UNCHANGED <<reboot, tuning>>
              \/ ReapplyX5 /\ UNCHANGED service
    /\ UNCHANGED <<series, os, call, file, nosmt, grubLine, made, madeNosmt, wanted, runs>>

(* configureInstanceHandler: a check that found anything fails. *)
Finish ==
    /\ step = "finish" /\ step' = "ended"
    /\ outcome' = IF ~Applies /\ reboot # {} THEN "failure" ELSE "success"
    /\ UNCHANGED <<series, os, call, reboot, machine, wanted, runs>>

(* Someone edits a file, or another command changes the tuning. *)
Drift ==
    /\ step \in {"idle", "ended"} /\ call' = NoCall /\ step' = "idle" /\ outcome' = "none"
    /\ \/ \E f \in Files : file[f] = "ok" /\ file' = [file EXCEPT ![f] = "stale"] /\ UNCHANGED <<tuning, nosmt>>
       \/ tuning' = [tuning EXCEPT !["solution"] = "stale"] /\ UNCHANGED <<file, nosmt>>
       \/ nosmt' \in NosmtPlaces /\ UNCHANGED <<file, tuning>>
    /\ UNCHANGED <<series, os, reboot, grubLine, made, madeNosmt, service, wanted, runs>>

ConfigureNext ==
    \/ Invoke \/ Systemd \/ Dracut \/ GrubLine \/ GrubNosmt \/ MkConfig
    \/ Profile \/ Verify \/ Finish \/ Drift
    \/ ConfigureX4 \/ ConfigureX5 \/ DescribeX4 \/ DescribeX5

ConfigureSpec == ConfigureInit /\ [][ConfigureNext]_ciVars

------------------------------------------------------------------------------
Ended(mode) == step = "ended" /\ call.mode = mode

(* What check compares: every file as wanted, the tuning service with it. *)
Compliant ==
    /\ \A f \in Files \ {"profile"} : file[f] = "ok"
    /\ os # "other" => service["tuner"] = "running" /\ file["profile"] = "ok" /\ tuning["note"] = "ok"
    /\ os = "SLES" => service["sapconf"] = "stopped" /\ tuning["solution"] = "ok"

(* What the machine boots with was made from the files this invocation has changed. *)
MadeOfFiles ==
    /\ "modprobe" \in reboot => made["modprobe"] = "ok"
    /\ "grub" \in reboot => /\ made["grub"] = (IF grubLine = "active" THEN "ok" ELSE "stale")
                            /\ madeNosmt = BootsNosmt

(* -apply that reports success leaves a compliant machine, whatever failed in the
   invocations before: with hyper threading off nosmt is in the line of the kernel,
   with it on it is gone, unless it stands right behind the quote, where removeValues
   leaves it; and what the machine boots with is made of what was changed, which
   leaves a line that is commented out without effect.  A check reports success of a
   compliant machine only. *)
SuccessIsCompliant ==
    /\ Ended("apply") /\ outcome = "success" =>
         /\ Compliant /\ MadeOfFiles
         /\ IF call.threads = "off" THEN nosmt # "absent" ELSE nosmt # "later"
    /\ Ended("check") /\ outcome = "success" => Compliant
==============================================================================
