------------------------------ MODULE DevBundle ------------------------------
(***************************************************************************)
(* packaging/dev_bundle.py builds the development .app.  macOS knows a     *)
(* bundle by its signature, and an ad-hoc signature by everything it       *)
(* seals: what is in the bundle decides whether a grant still applies.     *)
(***************************************************************************)
EXTENDS Naturals

CONSTANTS
    Interpreters,   \* the interpreters a virtualenv may be on (sys.base_prefix)
    Places,         \* the directories the checkout may be in
    SiteLists       \* what site.getsitepackages may answer: sets of directories

VARIABLES
    env,            \* <<interpreter, place, site list>> as a build finds them
    source,         \* the source tree, outside the bundle
    contents,       \* files in the bundle, each with what it was made from
    sealed,         \* the signature: the files it covers, or Unsigned; history:
                    \* with what environment they were built
    stage           \* the next step of build(), or idle

bundleVars == <<env, source, contents, sealed, stage>>

File(name, from) == [name |-> name, from |-> from]
Signature(files, with) == [files |-> files, with |-> with]
Unsigned == Signature({}, <<>>)
Leftover == File("an earlier layout's file", <<>>)

Executable(e) == File("TypingSimulator", <<e[1]>>)
Boot == File("sitecustomize.py", <<"BOOT_SOURCE">>)
Plist(e) == File("Info.plist", e)

BundleInit ==
    /\ env \in Interpreters \X Places \X SiteLists /\ source = 1
    /\ contents \in {{}, {Leftover}} /\ sealed = Unsigned /\ stage = "idle"

\* build() removes what is there before it makes anything.
BeginBuild ==
    /\ stage = "idle" /\ stage' = "remove"
    /\ UNCHANGED <<env, source, contents, sealed>>

\* A file is gone, and the signature with the executable that carries it.
RemoveOne ==
    \E f \in contents :
        /\ contents' = contents \ {f}
        /\ sealed' = IF f.name = "TypingSimulator" THEN Unsigned ELSE sealed
        /\ UNCHANGED <<env, source, stage>>

\* rmtree, a file at a time: it may stop at any of them, and leave the rest.
Remove == stage = "remove" /\ RemoveOne

\* Mutant: the removal's errors are ignored.
MakeOverTheRest ==
    /\ stage = "remove" /\ stage' = "copy"
    /\ sealed' = Unsigned
    /\ UNCHANGED <<env, source, contents>>

\* mkdir, once the bundle is gone.
MakeDirectories ==
    /\ stage = "remove" /\ contents = {} /\ stage' = "copy"
    /\ sealed' = Unsigned
    /\ UNCHANGED <<env, source, contents>>

Write(here, next, file) ==
    /\ stage = here /\ stage' = next
    /\ contents' = {f \in contents : f.name # file.name} \cup {file}
    /\ UNCHANGED <<env, source, sealed>>

CopyInterpreter == Write("copy", "boot", Executable(env))
WriteBoot == Write("boot", "plist", Boot)

\* PYTHONHOME, and PYTHONPATH: the bundle's own and the checkout's directory, where
\* they are now, and the site packages, without which nothing is built.
WritePlist == env[3] # {} /\ Write("plist", "sign", Plist(env))

Sign ==
    /\ stage = "sign" /\ stage' = "idle"
    /\ sealed' = Signature(contents, env)
    /\ UNCHANGED <<env, source, contents>>

\* Any step may raise and end the build where it is.
BuildFails ==
    /\ stage # "idle" /\ stage' = "idle"
    /\ UNCHANGED <<env, source, contents, sealed>>

Build ==
    BeginBuild \/ Remove \/ MakeDirectories \/ CopyInterpreter \/ WriteBoot
    \/ WritePlist \/ Sign \/ BuildFails

-----------------------------------------------------------------------------
(* The developer, between two builds.                                      *)

EditSource ==
    /\ stage = "idle" /\ source' = 3 - source
    /\ UNCHANGED <<env, contents, sealed, stage>>

\* Another interpreter or other packages in the virtualenv, or the checkout, with
\* the bundle in it, moved elsewhere.
ChangeEnvironment ==
    /\ stage = "idle"
    /\ \/ \E i \in Interpreters : env' = [env EXCEPT ![1] = i]
       \/ \E p \in Places : env' = [env EXCEPT ![2] = p]
       \/ \E l \in SiteLists : env' = [env EXCEPT ![3] = l]
    /\ UNCHANGED <<source, contents, sealed, stage>>

\* make clean: rm -rf, which may stop on its way as well.
Clean == stage = "idle" /\ RemoveOne

Develop == EditSource \/ ChangeEnvironment \/ Clean

\* A bundle LaunchServices can start: signed, with every file in it that a start
\* needs and paths that still lead to the checkout.
Startable ==
    /\ stage = "idle" /\ sealed # Unsigned
    /\ {"TypingSimulator", "sitecustomize.py"} \subseteq {f.name : f \in contents}
    /\ \E f \in contents : f.name = "Info.plist" /\ f.from[2] = env[2]

\* What running the application leaves in its bundle: PYTHONDONTWRITEBYTECODE.
Written == {}
=============================================================================
