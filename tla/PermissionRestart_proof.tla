------------------------ MODULE PermissionRestart_proof ------------------------
(***************************************************************************)
(* The permission banner's restarts, for any number of runs, builds and    *)
(* environments: no restart loop, no promise of a restart that never       *)
(* comes, and a grant that outlives a rebuild.                             *)
(***************************************************************************)
EXTENDS PermissionRestart, TLAPS

-----------------------------------------------------------------------------
(* The inductive invariant.                                                *)

\* The one restart by itself is either scheduled or what this run came from, and
\* then its marker forbids another.
LoopInv ==
    autos # 0 =>
        /\ autos = 1
        /\ \/ proc \in {"closing", "gone"} /\ successor = "apply"
           \/ proc \in {"starting", "running", "clearing"} /\ marker = "apply"

\* A restart is pending only in a run that is on its way out.
PendingInv == pending => proc \in {"closing", "gone"}

\* What a build that came to its end leaves, and all it depends on.
Environments == Interpreters \X Places \X SiteLists
Bundle(e) == {Executable(e), Boot, Plist(e)}
Sealed == {Signature(Bundle(e), e) : e \in Environments}

\* A build that is under way has written these files so far, for the environment
\* it began with; only a finished one is signed, and nothing is added to it, only
\* taken from it.
BuildInv ==
    /\ env \in Environments
    /\ stage \in {"idle", "remove", "copy", "boot", "plist", "sign"}
    /\ stage \notin {"idle", "remove"} => sealed = Unsigned
    /\ stage = "copy" => contents = {}
    /\ stage = "boot" => contents = {Executable(env)}
    /\ stage = "plist" => contents = {Executable(env), Boot}
    /\ stage = "sign" => contents = Bundle(env)
    /\ sealed # Unsigned => sealed \in Sealed /\ contents \subseteq sealed.files

\* An entry was made for a finished build, for an unsigned one, or there is none.
EntryInv == entry \in Sealed \cup {None, Unsigned}

\* A run was started from a whole bundle, and none is built before it ends.
WholeInv == bundled /\ proc # "off" => contents = sealed.files

RestartInv == TypeOK /\ LoopInv /\ PendingInv /\ NoEmptyPromise
BundleInv == BuildInv /\ EntryInv /\ WholeInv

-----------------------------------------------------------------------------
(* A refresh of the banner.                                                *)

\* A reading answers for each of the permissions.
LEMMA Readings ==
    ASSUME startPost \in Answer, startListen \in Answer, NEW a \in BOOLEAN
    PROVE  Reading(a) \in Status
  BY DEF Reading, Status, Answer, Answered

\* The banner and the remedy speak of a restart only when one is pending.
LEMMA Announced ==
    ASSUME NEW s \in Status, NEW b \in BOOLEAN, NEW p \in BOOLEAN
    PROVE  /\ PermissionMessage(s, p) = "restarting" => p
           /\ DescribePermissionRemedy(s, b, p) = "sit tight" => p
  BY DEF PermissionMessage, DescribePermissionRemedy

\* What a refresh leaves behind: it restarts only a run whose marker permits it.
LEMMA Refreshed ==
    ASSUME RestartInv, proc \in {"starting", "running", "clearing"}, NEW n \in {0, autos}, Refresh(n),
           access' \in BOOLEAN, UNCHANGED <<bundled, startPost, startListen>>
    PROVE  /\ {seenAccess', attempted', pending', polling'} \subseteq BOOLEAN
           /\ Now' \in Status /\ Seen' \in Status
           /\ marker' \in Marker /\ successor' \in Marker /\ autos' \in Nat
           /\ proc' \in {"running", "closing"}
           /\ proc' \in {"closing", "gone"} <=> successor' # "none"
           /\ LoopInv' /\ PendingInv' /\ NoEmptyPromise'
<1>1. /\ startPost \in Answer /\ startListen \in Answer /\ bundled \in BOOLEAN
      /\ successor = "none" /\ marker \in Marker /\ attempted \in BOOLEAN /\ pending = FALSE
      /\ autos \in Nat /\ n \in Nat
  BY DEF RestartInv, TypeOK, PendingInv, Status, Now, Reading
<1>2. Now' \in Status /\ Seen' \in Status
  <2>1. \A a \in BOOLEAN : [accessibility |-> Answered(a), postEvents |-> startPost,
                            inputMonitoring |-> startListen] \in Status
    BY <1>1, Readings DEF Reading
  <2> QED
    BY <2>1 DEF Refresh, Now, Seen, Reading
<1>3. /\ proc' \in {"running", "closing"} /\ pending' \in BOOLEAN /\ attempted' \in BOOLEAN
      /\ successor' \in {"none", "apply"}
      /\ proc' = "closing" <=> successor' = "apply"
      /\ pending' => proc' = "closing"
      /\ proc' = "closing" => marker # "apply"
  BY <1>1 DEF Refresh, Relaunch, MayRestartAgain
<1>4. /\ banner' = "restarting" => pending'
      /\ remedy' = "sit tight" => pending'
  BY <1>1, <1>2, <1>3, Announced DEF Refresh
<1>5. marker' \in {marker, "none"} /\ seenAccess' \in BOOLEAN /\ polling' \in BOOLEAN
  BY DEF Refresh
<1>6. autos' \in Nat /\ LoopInv'
  <2>1. CASE CanType(Now') # "denied"
    BY <2>1 DEF Refresh, LoopInv
  <2>2. CASE CanType(Now') = "denied" /\ proc' = "closing"
    <3>1. n = 0
      BY <1>3, <2>2 DEF RestartInv, LoopInv
    <3> QED
      BY <1>3, <2>2, <3>1 DEF Refresh, LoopInv
  <2>3. CASE CanType(Now') = "denied" /\ proc' # "closing"
    <3>1. autos' = n /\ marker' = marker /\ proc' = "running"
      BY <1>3, <2>3 DEF Refresh
    <3> QED
      BY <1>1, <3>1 DEF RestartInv, LoopInv
  <2> QED
    BY <2>1, <2>2, <2>3
<1> QED
  BY <1>1, <1>2, <1>3, <1>4, <1>5, <1>6 DEF PendingInv, NoEmptyPromise, Marker

\* The restart a button asked for, or the refresh where it failed.
LEMMA Restarted ==
    ASSUME RestartInv, proc \in {"running", "clearing"}, NEW r \in {"apply", "reset"}, Restart(r),
           access' \in BOOLEAN, UNCHANGED <<bundled, startPost, startListen>>
    PROVE  /\ {seenAccess', attempted', pending', polling'} \subseteq BOOLEAN
           /\ Now' \in Status /\ Seen' \in Status
           /\ marker' \in Marker /\ successor' \in Marker /\ autos' \in Nat
           /\ proc' \in {"running", "closing"}
           /\ proc' \in {"closing", "gone"} <=> successor' # "none"
           /\ LoopInv' /\ PendingInv' /\ NoEmptyPromise'
<1>1. CASE Refresh(0)
  BY <1>1, Refreshed
<1>2. CASE /\ proc' = "closing" /\ pending' = TRUE /\ successor' = r /\ autos' = 0
           /\ UNCHANGED <<marker, attempted, shown>>
  <2>1. Now' \in Status /\ Seen' \in Status
    <3>1. startPost \in Answer /\ startListen \in Answer /\ seenAccess \in BOOLEAN
      BY DEF RestartInv, TypeOK, Status, Now, Reading
    <3>2. \A a \in BOOLEAN : [accessibility |-> Answered(a), postEvents |-> startPost,
                              inputMonitoring |-> startListen] \in Status
      BY <3>1, Readings DEF Reading
    <3> QED
      BY <1>2, <3>1, <3>2 DEF Now, Seen, Reading, shown
  <2> QED
    BY <1>2, <2>1 DEF RestartInv, TypeOK, LoopInv, PendingInv, NoEmptyPromise, Marker, shown
<1> QED
  BY <1>1, <1>2 DEF Restart

-----------------------------------------------------------------------------
(* The steps.                                                              *)

\* The services still to be cleared are the last of them.
LEMMA ServicesLeft ==
    /\ TCC_SERVICES \in {SubSeq(TCC_SERVICES, n, 3) : n \in 1..3}
    /\ \A s \in {SubSeq(TCC_SERVICES, n, 3) : n \in 1..3} :
         Tail(s) \in {<<>>} \cup {SubSeq(TCC_SERVICES, n, 3) : n \in 1..3}
<1>1. /\ TCC_SERVICES = SubSeq(TCC_SERVICES, 1, 3)
      /\ Tail(SubSeq(TCC_SERVICES, 1, 3)) = SubSeq(TCC_SERVICES, 2, 3)
      /\ Tail(SubSeq(TCC_SERVICES, 2, 3)) = SubSeq(TCC_SERVICES, 3, 3)
      /\ Tail(SubSeq(TCC_SERVICES, 3, 3)) = <<>>
  BY DEF TCC_SERVICES
<1>2. 1..3 = {1, 2, 3}
  OBVIOUS
<1> QED
  BY <1>1, <1>2

\* A new process is given answers, and takes the reason it was started for.
LEMMA Started ==
    ASSUME TypeOK, NEW r \in Marker, Starts(r), UNCHANGED settings,
           successor' = "none", autos' = autos,
           autos # 0 => autos = 1 /\ r = "apply"
    PROVE  RestartInv'
<1>1. /\ proc' = "starting" /\ marker' = r /\ pending' = FALSE /\ banner' = "hidden"
      /\ remedy' = "nothing about typing"
  BY DEF Starts
<1>2. startPost' \in Answer /\ startListen' \in Answer
  BY DEF Starts, Preflight, Answered, Answer
<1>3. Now' \in Status /\ Seen' \in Status
  <2>1. access \in BOOLEAN /\ seenAccess' = access
    BY DEF Starts, TypeOK, settings
  <2> QED
    BY <1>2, <2>1 DEF Now, Seen, Reading, Status, Answered, Answer, settings
<1>4. TypeOK'
  BY <1>1, <1>3 DEF Starts, TypeOK, machine, settings, Marker
<1> QED
  BY <1>1, <1>4 DEF RestartInv, LoopInv, PendingInv, NoEmptyPromise

\* A step that leaves the process what it has in memory.
LEMMA RunKept ==
    ASSUME RestartInv, UNCHANGED <<machine, process, marker, overlay, successor>>,
           access' \in BOOLEAN, listen' \in BOOLEAN, autos' \in {0, autos},
           \/ UNCHANGED run
           \/ proc = "running" /\ proc' = "clearing" /\ autos' = 0 /\ toClear' = TCC_SERVICES
           \/ proc = "clearing" /\ proc' = "clearing"
              /\ toClear # <<>> /\ toClear' = Tail(toClear)
           \/ proc = "closing" /\ proc' = "gone" /\ toClear' = toClear
    PROVE  RestartInv'
<1>1. Now' \in Status /\ Seen' = Seen
  <2>1. startPost \in Answer /\ startListen \in Answer
    BY DEF RestartInv, TypeOK, Status, Now, Reading
  <2>2. \A a \in BOOLEAN : [accessibility |-> Answered(a), postEvents |-> startPost,
                            inputMonitoring |-> startListen] \in Status
    BY <2>1, Readings DEF Reading
  <2> QED
    BY <2>2 DEF Now, Seen, Reading, process, overlay, shown
<1>2. /\ toClear' \in {<<>>} \cup {SubSeq(TCC_SERVICES, n, 3) : n \in 1..3}
      /\ proc' # "clearing" => toClear' = <<>>
  <2>1. /\ toClear \in {<<>>} \cup {SubSeq(TCC_SERVICES, n, 3) : n \in 1..3}
        /\ proc # "clearing" => toClear = <<>>
    BY DEF RestartInv, TypeOK
  <2> QED
    BY <2>1, ServicesLeft DEF run
<1>3. TypeOK'
  BY <1>1, <1>2 DEF RestartInv, TypeOK, machine, overlay, shown, run
<1>4. LoopInv' /\ PendingInv' /\ NoEmptyPromise'
  BY DEF RestartInv, TypeOK, LoopInv, PendingInv, NoEmptyPromise, overlay, shown, run
<1> QED
  BY <1>3, <1>4 DEF RestartInv

\* Every step keeps the runs' part of the invariant ...
LEMMA RestartStep ==
    ASSUME RestartInv, [Next]_vars
    PROVE  RestartInv'
<1> DEFINE Gives == /\ {seenAccess', attempted', pending', polling'} \subseteq BOOLEAN
                    /\ Now' \in Status /\ Seen' \in Status
                    /\ marker' \in Marker /\ successor' \in Marker /\ autos' \in Nat
                    /\ proc' \in {"running", "closing"}
                    /\ proc' \in {"closing", "gone"} <=> successor' # "none"
                    /\ LoopInv' /\ PendingInv' /\ NoEmptyPromise'
                    /\ toClear' = <<>>
<1>1. /\ access \in BOOLEAN /\ listen \in BOOLEAN /\ bundled \in BOOLEAN
      /\ preflight \in BOOLEAN /\ promptSpent \in BOOLEAN /\ prompted \in BOOLEAN
      /\ launching \in BOOLEAN
  BY DEF RestartInv, TypeOK
<1>2. proc # "clearing" => toClear = <<>>
  BY DEF RestartInv, TypeOK
<1>3. ASSUME Gives, {access', listen', promptSpent', prompted', launching'} \subseteq BOOLEAN,
             UNCHANGED machine
      PROVE  RestartInv'
  BY <1>1, <1>3 DEF RestartInv, TypeOK, machine
<1>4. CASE ClearEntry
  <2>1. /\ UNCHANGED <<machine, process, marker, overlay, successor, proc>>
        /\ autos' = autos
        /\ proc = "clearing" /\ toClear # <<>> /\ toClear' = Tail(toClear)
    BY <1>4 DEF ClearEntry
  <2>2. access' \in BOOLEAN /\ listen' \in BOOLEAN
    BY <1>1, <1>4 DEF ClearEntry
  <2> QED
    BY <2>1, <2>2, RunKept
<1>5. CASE FlipAccess \/ FlipListen \/ RenewEntry \/ Make \/ Exit \/ UNCHANGED vars
  <2>1. /\ UNCHANGED <<machine, process, marker, overlay, successor>>
        /\ access' \in BOOLEAN /\ listen' \in BOOLEAN /\ autos' \in {0, autos}
        /\ \/ UNCHANGED run
           \/ proc = "closing" /\ proc' = "gone" /\ toClear' = toClear
    BY <1>1, <1>5 DEF FlipAccess, FlipListen, RenewEntry, Make, Exit, vars, settings, run
  <2> QED
    BY <2>1, RunKept
<1>6. CASE Quit
  <2>1. /\ proc' = "off" /\ toClear' = <<>> /\ marker' = "none" /\ autos' = 0
        /\ attempted' = FALSE /\ promptSpent' = FALSE /\ prompted' = FALSE
        /\ launching' = TRUE /\ seenAccess' = FALSE /\ polling' = FALSE
        /\ pending' = FALSE /\ banner' = "hidden" /\ remedy' = "nothing about typing"
        /\ UNCHANGED <<access, listen, bundled, preflight>> /\ successor' = "none"
    BY <1>6 DEF Quit, settings, machine, RestartInv, TypeOK
  <2>2. Now' \in Status /\ Seen' \in Status
    BY <1>1, <1>6, <2>1 DEF Quit, Now, Seen, Reading, Status, Answered, Answer
  <2> QED
    BY <1>1, <2>1, <2>2 DEF RestartInv, TypeOK, LoopInv, PendingInv, NoEmptyPromise, Marker
<1>7. CASE Open
  <2>1. successor = "none" /\ autos = 0
    BY <1>7 DEF Open, RestartInv, TypeOK, LoopInv
  <2> QED
    BY <1>7, <2>1, Started DEF Open, RestartInv, Marker
<1>8. CASE Successor
  <2>1. successor \in Marker /\ (autos # 0 => autos = 1 /\ successor = "apply")
    BY <1>8 DEF Successor, RestartInv, TypeOK, LoopInv
  <2> QED
    BY <1>8, <2>1, Started DEF Successor, RestartInv
<1>9. CASE Construct \/ Poll
  <2>1. /\ Refresh(autos) /\ proc \in {"starting", "running"}
        /\ UNCHANGED <<access, listen, bundled, preflight, startPost, startListen,
                       promptSpent, prompted, launching>> /\ toClear' = <<>>
    BY <1>2, <1>9 DEF Construct, Poll, settings, machine, process
  <2>2. Gives
    BY <1>1, <2>1, Refreshed
  <2> QED
    BY <1>1, <1>3, <2>1, <2>2 DEF machine
<1>10. CASE RequestOnLaunch
  <2>1. /\ proc = "running" /\ launching' = FALSE
        /\ UNCHANGED <<access, listen, bundled, preflight, startPost, startListen>>
        /\ toClear' = <<>>
    BY <1>2, <1>10 DEF RequestOnLaunch, settings, machine, process
  <2>2. CASE CanType(Seen) = "denied"
    <3>1. Refresh(autos) /\ promptSpent' = TRUE /\ prompted' \in BOOLEAN
      BY <1>10, <2>2 DEF RequestOnLaunch, AskMacOSOnce, Shows
    <3>2. Gives
      BY <1>1, <2>1, <3>1, Refreshed
    <3> QED
      BY <1>1, <1>3, <2>1, <3>1, <3>2 DEF machine
  <2>3. CASE CanType(Seen) # "denied"
    <3>1. UNCHANGED <<attempted, promptSpent, prompted, pending, seenAccess, polling, banner,
                      remedy, proc, marker, successor, autos>>
      BY <1>10, <2>3 DEF RequestOnLaunch, shown
    <3>2. Gives
      <4>1. Now' = Now /\ Seen' = Seen
        BY <2>1, <3>1 DEF Now, Seen, Reading
      <4> QED
        BY <2>1, <3>1, <4>1 DEF RestartInv, TypeOK, LoopInv, PendingInv, NoEmptyPromise
    <3> QED
      BY <1>1, <1>3, <2>1, <3>1, <3>2 DEF machine
  <2> QED
    BY <2>2, <2>3
<1>11. CASE PressToApply
  <2>1. /\ Restart("apply") /\ proc = "running"
        /\ UNCHANGED <<access, listen, bundled, preflight, startPost, startListen,
                       promptSpent, prompted, launching>> /\ toClear' = <<>>
    BY <1>2, <1>11 DEF PressToApply, settings, machine, process
  <2>2. Gives
    BY <1>1, <2>1, Restarted
  <2> QED
    BY <1>1, <1>3, <2>1, <2>2 DEF machine
<1>12. CASE PressToAsk
  <2>1. /\ Refresh(0) /\ proc = "running" /\ promptSpent' = TRUE /\ prompted' \in BOOLEAN
        /\ UNCHANGED <<access, listen, bundled, preflight, startPost, startListen, launching>>
        /\ toClear' = <<>>
    BY <1>2, <1>12 DEF PressToAsk, AskMacOSOnce, Shows, settings, machine, process
  <2>2. Gives
    BY <1>1, <2>1, Refreshed
  <2> QED
    BY <1>1, <1>3, <2>1, <2>2 DEF machine
<1>13. CASE PressAgain
  <2>1. /\ proc = "running"
        /\ UNCHANGED <<access, listen, bundled, preflight, startPost, startListen, promptSpent,
                       prompted, launching>>
    BY <1>13 DEF PressAgain, settings, machine, process
  <2>2. CASE AnyGranted(Now)
    <3>1. Restart("apply") /\ toClear' = <<>>
      BY <1>13, <2>1, <2>2 DEF PressAgain, RestartInv, TypeOK
    <3>2. Gives
      BY <1>1, <2>1, <3>1, Restarted
    <3> QED
      BY <1>1, <1>3, <2>1, <3>2 DEF machine
  <2>3. CASE ~AnyGranted(Now)
    BY <1>1, <1>13, <2>3, RunKept DEF PressAgain, settings, overlay, shown
  <2> QED
    BY <2>2, <2>3
<1>14. CASE RestartCleared
  <2>1. /\ Restart("reset") /\ proc = "clearing" /\ toClear' = <<>>
        /\ UNCHANGED <<access, listen, bundled, preflight, startPost, startListen,
                       promptSpent, prompted, launching>>
    BY <1>14 DEF RestartCleared, settings, machine, process
  <2>2. Gives
    BY <1>1, <2>1, Restarted
  <2> QED
    BY <1>1, <1>3, <2>1, <2>2 DEF machine
<1> QED
  BY <1>4, <1>5, <1>6, <1>7, <1>8, <1>9, <1>10, <1>11, <1>12, <1>13, <1>14 DEF Next, User

\* ... which the first one finds.
LEMMA RestartInit == Init => RestartInv
<1> SUFFICES ASSUME Init
             PROVE  RestartInv
  OBVIOUS
<1>1. Now \in Status /\ Seen \in Status
  BY DEF Init, Now, Seen, Reading, Status, Answered, Answer
<1>2. {bundled, preflight, access, listen, pending} \subseteq BOOLEAN
      /\ {attempted, promptSpent, prompted, launching, seenAccess, polling} \subseteq BOOLEAN
  BY DEF Init
<1> QED
  BY <1>1, <1>2 DEF Init, RestartInv, TypeOK, LoopInv, PendingInv, NoEmptyPromise, Marker

-----------------------------------------------------------------------------
(* The bundle.                                                             *)

\* A build writes its files in order, and signs what it wrote.
LEMMA BuildStep ==
    ASSUME BuildInv, Build \/ Develop
    PROVE  BuildInv'
<1>1. /\ \A e : Executable(e).name = "TypingSimulator" /\ Plist(e).name = "Info.plist"
      /\ Boot.name = "sitecustomize.py"
  BY DEF Executable, Plist, Boot, File
<1>2. CASE RemoveOne /\ stage \in {"idle", "remove"}
  <2>1. contents' \subseteq contents /\ sealed' \in {sealed, Unsigned}
        /\ UNCHANGED <<env, stage>>
    BY <1>2 DEF RemoveOne
  <2> QED
    BY <1>2, <2>1 DEF BuildInv
<1>3. CASE BeginBuild \/ MakeDirectories \/ BuildFails \/ EditSource
  BY <1>3 DEF BeginBuild, MakeDirectories, BuildFails, EditSource, BuildInv
<1>4. CASE ChangeEnvironment
  <2>1. env' \in Environments
    BY <1>4 DEF ChangeEnvironment, BuildInv, Environments
  <2> QED
    BY <1>4, <2>1 DEF ChangeEnvironment, BuildInv
<1>5. CASE CopyInterpreter
  <2>1. contents' = {Executable(env)}
    BY <1>5 DEF CopyInterpreter, Write, BuildInv
  <2> QED
    BY <1>5, <2>1 DEF CopyInterpreter, Write, BuildInv
<1>6. CASE WriteBoot
  <2>1. contents = {Executable(env)}
    BY <1>6 DEF WriteBoot, Write, BuildInv
  <2>2. contents' = {f \in contents : f.name # "sitecustomize.py"} \cup {Boot}
    BY <1>1, <1>6 DEF WriteBoot, Write
  <2>3. contents' = {Executable(env), Boot}
    BY <1>1, <2>1, <2>2
  <2> QED
    BY <1>6, <2>3 DEF WriteBoot, Write, BuildInv
<1>7. CASE WritePlist
  <2>1. contents = {Executable(env), Boot}
    BY <1>7 DEF WritePlist, Write, BuildInv
  <2>2. contents' = {f \in contents : f.name # "Info.plist"} \cup {Plist(env)}
    BY <1>1, <1>7 DEF WritePlist, Write
  <2>3. contents' = Bundle(env)
    BY <1>1, <2>1, <2>2 DEF Bundle
  <2> QED
    BY <1>7, <2>3 DEF WritePlist, Write, BuildInv
<1>8. CASE Sign
  <2>1. contents = Bundle(env) /\ env \in Environments
    BY <1>8 DEF Sign, BuildInv
  <2>2. sealed' \in Sealed /\ contents' = sealed'.files
    BY <1>8, <2>1 DEF Sign, Sealed, Signature
  <2> QED
    BY <1>8, <2>1, <2>2 DEF Sign, BuildInv
<1> QED
  BY <1>2, <1>3, <1>4, <1>5, <1>6, <1>7, <1>8 DEF Build, Develop, Remove, Clean

\* What can be started is all of what was signed.
LEMMA StartedWhole ==
    ASSUME BuildInv, Startable
    PROVE  contents = sealed.files
<1>1. PICK e \in Environments : sealed = Signature(Bundle(e), e)
  BY DEF Startable, BuildInv, Sealed
<1>2. sealed.files = Bundle(e) /\ contents \subseteq Bundle(e)
  BY <1>1 DEF Startable, BuildInv, Signature
<1>3. /\ \E f \in contents : f.name = "TypingSimulator"
      /\ \E f \in contents : f.name = "sitecustomize.py"
      /\ \E f \in contents : f.name = "Info.plist"
  BY DEF Startable
<1>4. /\ Executable(e).name = "TypingSimulator" /\ Plist(e).name = "Info.plist"
      /\ Boot.name = "sitecustomize.py"
  BY DEF Executable, Plist, Boot, File
<1> QED
  BY <1>2, <1>3, <1>4 DEF Bundle

\* Every step keeps the bundle's part of the invariant: running it writes nothing.
LEMMA BundleStep ==
    ASSUME BundleInv, [Next]_vars
    PROVE  BundleInv'
<1>1. CASE Make
  BY <1>1, BuildStep DEF Make, BundleInv, EntryInv, WholeInv, settings, run
<1>2. ASSUME NEW r, Starts(r), UNCHANGED settings, bundled => contents = sealed.files
      PROVE  BundleInv'
  <2>1. UNCHANGED <<bundleVars, bundled, entry>>
    BY <1>2 DEF Starts, Written, bundleVars, machine, settings
  <2> QED
    BY <1>2, <2>1 DEF BundleInv, BuildInv, EntryInv, WholeInv, bundleVars
<1>3. CASE Open \/ Successor
  BY <1>2, <1>3, StartedWhole DEF Open, Successor, BundleInv, WholeInv
<1>4. ASSUME UNCHANGED <<bundleVars, bundled>>, entry' \in {entry, sealed, None},
             proc = "off" => proc' = "off"
      PROVE  BundleInv'
  <2>1. sealed \in Sealed \cup {Unsigned}
    BY DEF BundleInv, BuildInv
  <2> QED
    BY <1>4, <2>1 DEF BundleInv, BuildInv, EntryInv, WholeInv, bundleVars
<1>5. CASE User /\ ~Open
  BY <1>4, <1>5 DEF User, FlipAccess, FlipListen, RenewEntry, Quit, PressToApply, PressToAsk,
     PressAgain, settings, machine, run
<1>6. CASE Construct \/ Poll \/ RequestOnLaunch \/ ClearEntry \/ RestartCleared \/ Exit
           \/ UNCHANGED vars
  BY <1>4, <1>6 DEF Construct, Poll, RequestOnLaunch, ClearEntry, RestartCleared, Exit, vars,
     settings, machine, run
<1> QED
  BY <1>1, <1>3, <1>5, <1>6 DEF Next

\* Two finished bundles of one environment are the same.
LEMMA SameBundle ==
    ASSUME NEW a \in Sealed \cup {None, Unsigned}, NEW b \in Sealed, a.with = b.with
    PROVE  a.files = b.files
<1>1. \A e \in Environments : e # <<>>
  BY DEF Environments
<1>2. PICK e \in Environments : b = Signature(Bundle(e), e)
  BY DEF Sealed
<1>3. a.with # <<>>
  BY <1>1, <1>2 DEF Signature
<1>4. PICK d \in Environments : a = Signature(Bundle(d), d)
  BY <1>3 DEF Sealed, None, Unsigned, Signature
<1> QED
  BY <1>2, <1>4 DEF Signature

-----------------------------------------------------------------------------
(* The theorems.                                                           *)

\* Every run starts from and leaves behind values of their types.
THEOREM RestartTypeCorrect == Spec => []TypeOK
<1>1. RestartInv /\ [Next]_vars => RestartInv'
  BY RestartStep
<1>2. RestartInv => TypeOK
  BY DEF RestartInv
<1> QED
  BY <1>1, <1>2, RestartInit, PTL DEF Spec

\* The application never restarts by itself twice in a row, over any number of
\* runs (permissions.py:was_restarted_to_apply_permission).
THEOREM NoLoop == Spec => []NoRestartLoop
<1>1. RestartInv /\ [Next]_vars => RestartInv'
  BY RestartStep
<1>2. RestartInv => NoRestartLoop
  BY DEF RestartInv, TypeOK, LoopInv, NoRestartLoop
<1> QED
  BY <1>1, <1>2, RestartInit, PTL DEF Spec

\* No restart is announced that does not come (overlay_window.py:732).
THEOREM PromisesAreKept == Spec => []NoEmptyPromise
<1>1. RestartInv /\ [Next]_vars => RestartInv'
  BY RestartStep
<1>2. RestartInv => NoEmptyPromise
  BY DEF RestartInv
<1> QED
  BY <1>1, <1>2, RestartInit, PTL DEF Spec

\* A grant survives every rebuild in the same environment (dev_bundle.py:16).
THEOREM GrantOutlivesRebuild == Spec => []RebuildKeepsGrant
<1>1. Init => BundleInv
  BY DEF Init, BundleInit, BundleInv, BuildInv, EntryInv, WholeInv, Environments
<1>2. BundleInv /\ [Next]_vars => BundleInv'
  BY BundleStep
<1>3. BundleInv => RebuildKeepsGrant
  <2> SUFFICES ASSUME BundleInv, sealed # Unsigned, entry.with = sealed.with
               PROVE  entry.files = sealed.files
    BY DEF RebuildKeepsGrant, BundleInv, WholeInv
  <2>1. sealed \in Sealed /\ entry \in Sealed \cup {None, Unsigned}
    BY DEF BundleInv, BuildInv, EntryInv
  <2> QED
    BY <2>1, SameBundle
<1> QED
  BY <1>1, <1>2, <1>3, PTL DEF Spec
=============================================================================
