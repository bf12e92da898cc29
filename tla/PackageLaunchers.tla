--------------------------- MODULE PackageLaunchers ---------------------------
(***************************************************************************)
(* The `binboi` command as the npm, cargo and python packages install it:  *)
(* three launchers that answer `version` and `verify-install` themselves   *)
(* and hand everything else to a native binary, when there is one.  They   *)
(* come from one release each, run one at a time in any order, and share   *)
(* the file distribution-defaults.json of the user's configuration.  The   *)
(* npm and cargo launchers are the texts the distribution script writes.   *)
(***************************************************************************)
EXTENDS Naturals

CONSTANT
    MaxRelease      \* bound: the releases a package can be installed from

VARIABLES
    installed,      \* [launcher -> the release it comes from, 0: none]
    defaults,       \* the release that wrote the defaults, 0: no file
    machine,        \* what BINBOI_NATIVE_BIN names; is the home writable
    result          \* how the last run ended

launcherVars == <<installed, defaults, machine, result>>

Launchers == {"npm", "cargo", "python"}
Commands == {"version", "verify-install", "--post-install", "start"}

(* A "broken" binary is there and cannot be started.                       *)
Natives == {"unset", "missing", "broken", "binary"}
Machines == [native : Natives, writable : BOOLEAN]

(* What the shell sees: who spoke, how the native binary ended (if it ran) *)
(* and whether the exit code is zero.                                      *)
Results == [by : Launchers \cup {"nobody"},
            said : {"nothing", "version", "configured", "ready", "error", "native"},
            child : {"none", "succeeds", "fails", "killed"},
            zero : BOOLEAN]

LauncherInit ==
    /\ installed = [l \in Launchers |-> 0]
    /\ defaults = 0
    /\ machine \in Machines
    /\ result = [by |-> "nobody", said |-> "nothing", child |-> "none",
                 zero |-> TRUE]

---------------------------------------------------------------------------
(* persist_defaults(): a home that cannot be written leaves the file.      *)
persist_defaults(release) ==
    defaults' = IF machine.writable THEN release ELSE defaults

Ends(l, said, child, zero) ==
    result' = [by |-> l, said |-> said, child |-> child, zero |-> zero]

(* What follows persist_defaults when its failure is not caught.           *)
Configured(l) ==
    IF machine.writable THEN Ends(l, "configured", "none", TRUE)
    ELSE Ends(l, "error", "none", FALSE)

(* npm runs the postinstall script, and undoes the installation when it    *)
(* fails; cargo's build script only prints.                                *)
npmInstall(r) ==
    /\ persist_defaults(r) /\ Configured("npm")
    /\ installed' = IF machine.writable THEN [installed EXCEPT !["npm"] = r]
                    ELSE installed
    /\ UNCHANGED machine

cargoInstall(r) ==
    /\ installed' = [installed EXCEPT !["cargo"] = r]
    /\ UNCHANGED <<defaults, machine, result>>

(* VerifiedInstall runs when the wheel is built from source on this        *)
(* machine, and not when a built wheel is unpacked.                        *)
VerifiedInstall(r) ==
    /\ persist_defaults(r) /\ Configured("python")
    /\ installed' = IF machine.writable THEN [installed EXCEPT !["python"] = r]
                    ELSE installed
    /\ UNCHANGED machine

wheelInstall(r) ==
    /\ installed' = [installed EXCEPT !["python"] = r]
    /\ UNCHANGED <<defaults, machine, result>>

---------------------------------------------------------------------------
(* The commands that store the defaults.                                   *)
Configures(l, command) ==
    \/ command = "verify-install"
    \/ l = "python" /\ command = "--post-install"

version(l) ==
    /\ Ends(l, "version", "none", TRUE)
    /\ UNCHANGED defaults

verifyInstall(l) == persist_defaults(installed[l]) /\ Configured(l)

(* The child's exit code is handed on; a child that a signal ended has     *)
(* none, and npm and cargo make it 0.                                      *)
Handed(l, child) ==
    IF child = "killed" THEN l # "python" ELSE child = "succeeds"

nativeRun(l, child) ==
    /\ Ends(l, "native", child, Handed(l, child))
    /\ UNCHANGED defaults

(* npm looks whether the file is there, and a file that cannot be started  *)
(* ends with a null status, which it makes 0 without a word.               *)
npmMain ==
    CASE machine.native = "binary" ->
             \E child \in {"succeeds", "fails", "killed"} : nativeRun("npm", child)
      [] machine.native = "broken" ->
             Ends("npm", "nothing", "none", TRUE) /\ UNCHANGED defaults
      [] OTHER -> Ends("npm", "ready", "none", TRUE) /\ UNCHANGED defaults

(* cargo's try_delegate drops the error of a start that fails, and its     *)
(* fallback drops the error of the defaults.                               *)
cargoMain ==
    IF machine.native = "binary"
    THEN \E child \in {"succeeds", "fails", "killed"} : nativeRun("cargo", child)
    ELSE Ends("cargo", "ready", "none", TRUE) /\ persist_defaults(installed["cargo"])

(* python lets the exception of a start that fails, or of the defaults,    *)
(* end the program.                                                        *)
pythonMain ==
    CASE machine.native = "binary" ->
             \E child \in {"succeeds", "fails", "killed"} : nativeRun("python", child)
      [] machine.native = "unset" ->
             /\ persist_defaults(installed["python"])
             /\ IF machine.writable THEN Ends("python", "ready", "none", TRUE)
                ELSE Ends("python", "error", "none", FALSE)
      [] OTHER -> Ends("python", "error", "none", FALSE) /\ UNCHANGED defaults

main(l, command) ==
    /\ installed[l] > 0
    /\ CASE command = "version" -> version(l)
         [] Configures(l, command) -> verifyInstall(l)
         [] OTHER -> CASE l = "npm" -> npmMain
                       [] l = "cargo" -> cargoMain
                       [] l = "python" -> pythonMain
    /\ UNCHANGED <<installed, machine>>

(* The user sets the variable, or loses the home.                          *)
MachineChanges ==
    /\ machine' \in Machines
    /\ UNCHANGED <<installed, defaults, result>>

LauncherNext ==
    \/ \E r \in 1..MaxRelease :
        npmInstall(r) \/ cargoInstall(r) \/ VerifiedInstall(r) \/ wheelInstall(r)
    \/ \E l \in Launchers, command \in Commands : main(l, command)
    \/ MachineChanges

LauncherSpec == LauncherInit /\ [][LauncherNext]_launcherVars

---------------------------------------------------------------------------
(* The types, and the two things a script that calls the command can rely  *)
(* on: a native binary that fails is never reported as a success, and zero *)
(* after `configured` means that the defaults are there (the three mains). *)
LauncherTypeOK ==
    /\ installed \in [Launchers -> 0..MaxRelease]
    /\ defaults \in 0..MaxRelease
    /\ machine \in Machines
    /\ result \in Results
    /\ result.child = "fails" => ~result.zero
    /\ result.said = "configured" => result.zero /\ defaults > 0
===============================================================================
