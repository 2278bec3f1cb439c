------------------------------ MODULE Bootstrap ------------------------------
(***************************************************************************)
(* BootstrapConfig (bootstrap.go), the command `config init': it creates   *)
(* the operator's files where they are missing, replaces the generated     *)
(* ones when asked to, and fills .env.  It may be cut short at every step  *)
(* and run again, by another release, over whatever it left behind.        *)
(*                                                                         *)
(* A file is what its content came from: a template of a release, the      *)
(* operator ("own"), or the beginning of a template ("torn"); "special"    *)
(* stands for a symbolic link or a directory in its place.  Of .env the    *)
(* model keeps the API token and the runtime user.  The operator edits     *)
(* files between two inits, not during one.                                *)
(***************************************************************************)
EXTENDS Naturals, Sequences

CONSTANTS
  Managed,   \* the files of bootstrapFiles, in order
  Runtime,   \* the generated ones among them
  Users,     \* UID:GID values for the controller
  Tokens     \* API tokens newAPIToken can generate, each once

Files == {Managed[i] : i \in 1..Len(Managed)}

Example == ".env.example"

Releases == {"old", "new"}

ASSUME ManagedAssumption ==
  Managed \in Seq(Files) /\ Runtime \subseteq Files /\ Example \notin Files

VARIABLES
  release,  \* whose templates the command carries
  file,     \* the content of every file but .env
  env,      \* .env: absent, special, or the token and the user it names
  used,     \* the tokens generated so far
  init      \* the command: where it is, its options

bootVars == <<release, file, env, used, init>>

NoEnv == [kind |-> "absent", token |-> "none", user |-> "none"]

Idle == [pc |-> "idle", at |-> 0, refresh |-> FALSE, user |-> "none"]

BootInit ==
  /\ release = "old"
  /\ file = [f \in Files \cup {Example} |-> "absent"]
  /\ env = NoEnv /\ used = {} /\ init = Idle

-----------------------------------------------------------------------------
(***************************************************************************)
(* Around the command                                                      *)
(***************************************************************************)

\* The operator writes, deletes or replaces a file.
OperatorEdits(f, content) ==
  /\ init = Idle /\ file[f] # content
  /\ file' = [file EXCEPT ![f] = content]
  /\ UNCHANGED <<release, env, used, init>>

\* The operator deletes .env, puts something else there, or sets its own token.
OperatorEditsEnv ==
  /\ init = Idle
  /\ env' \in {NoEnv, [NoEnv EXCEPT !.kind = "special"]}
              \cup {[kind |-> "file", token |-> "own", user |-> u] : u \in Users}
  /\ UNCHANGED <<release, file, used, init>>

Upgrade ==
  /\ init = Idle /\ release = "old"
  /\ release' = "new"
  /\ UNCHANGED <<file, env, used, init>>

\* checkedBootstrapInput and createBootstrapDirectories pass; where they do not,
\* the command ends here.
Begin(refresh, user) ==
  /\ init = Idle
  /\ init' = [pc |-> "file", at |-> 1, refresh |-> refresh, user |-> user]
  /\ UNCHANGED <<release, file, env, used>>

\* The process ends, or BootstrapConfig returns the error of a failed call.
Aborts ==
  /\ init.pc \notin {"idle", "write", "writeEnv"}
  /\ init' = Idle
  /\ UNCHANGED <<release, file, env, used>>

-----------------------------------------------------------------------------
(***************************************************************************)
(* The files                                                               *)
(***************************************************************************)

\* The file the command is at: the managed ones, then .env.example.
Current == IF init.at <= Len(Managed) THEN Managed[init.at] ELSE Example

\* Mutant of Replaces: a template that is already there is kept.
CautiousReplaces ==
  Current = Example \/ (init.refresh /\ Current \in Runtime /\ file[Current] = "absent")

\* writeBootstrapFile: a generated file is replaced if that was asked for.
\* writeExampleFile always is.
Replaces == Current = Example \/ (init.refresh /\ Current \in Runtime)

Advance == init' = [init EXCEPT !.pc = IF Current = Example THEN ".env" ELSE "file",
                                !.at = @ + 1]

\* writeRefreshedFile: the temporary file is written and closed.
FillsTemp ==
  /\ init.pc = "file" /\ Replaces
  /\ file[Current] # "special"
  /\ init' = [init EXCEPT !.pc = "rename"]
  /\ UNCHANGED <<release, file, env, used>>

\* It takes the place of the file in one step.
Renames ==
  /\ init.pc = "rename"
  /\ file' = [file EXCEPT ![Current] = release]
  /\ Advance
  /\ UNCHANGED <<release, env, used>>

\* writeFileIfAbsent finds a regular file.
Preserves ==
  /\ init.pc = "file" /\ ~Replaces
  /\ file[Current] \notin {"absent", "special"}
  /\ Advance
  /\ UNCHANGED <<release, file, env, used>>

\* It finds none, and creates one, empty.
Creates ==
  /\ init.pc = "file" /\ ~Replaces
  /\ file[Current] = "absent"
  /\ file' = [file EXCEPT ![Current] = "torn"]
  /\ init' = [init EXCEPT !.pc = "write"]
  /\ UNCHANGED <<release, env, used>>

\* The template is written, in whole or in part.
Writes ==
  /\ init.pc = "write"
  /\ \/ file' = [file EXCEPT ![Current] = release] /\ Advance
     \/ init' = Idle /\ UNCHANGED file
  /\ UNCHANGED <<release, env, used>>

-----------------------------------------------------------------------------
(***************************************************************************)
(* .env                                                                    *)
(***************************************************************************)

CreatesEnv ==
  /\ init.pc = ".env" /\ env.kind = "absent"
  /\ env' = [NoEnv EXCEPT !.kind = "file"]
  /\ init' = [init EXCEPT !.pc = "writeEnv"]
  /\ UNCHANGED <<release, file, used>>

\* renderEnvFile is written: the user comes before the token.  A part of it may
\* end before the user, before the token or inside the token.
WritesEnv ==
  /\ init.pc = "writeEnv"
  /\ \E t \in Tokens \ used :
       /\ used' = used \cup {t}
       /\ \/ /\ env' = [env EXCEPT !.token = t, !.user = init.user]
             /\ init' = [init EXCEPT !.pc = "done"]
          \/ /\ env' \in {env, [env EXCEPT !.user = init.user],
                          [env EXCEPT !.token = "cut", !.user = init.user]}
             /\ init' = Idle
  /\ UNCHANGED <<release, file>>

\* upsertDotEnvValue reads the .env that is there; replaceDotEnvValue changes
\* nothing.
FindsUser ==
  /\ init.pc = ".env" /\ env.kind = "file" /\ env.user = init.user
  /\ init' = [init EXCEPT !.pc = "done"]
  /\ UNCHANGED <<release, file, env, used>>

\* Mutant of FillsEnvTemp: .env itself is truncated and written again.
TruncatesEnv ==
  /\ init.pc = ".env" /\ env.kind = "file" /\ env.user # init.user
  /\ env' = [NoEnv EXCEPT !.kind = "file"]
  /\ init' = [init EXCEPT !.pc = "renameEnv"]
  /\ UNCHANGED <<release, file, used>>

\* Another user, or none: the new contents go to a temporary file,
FillsEnvTemp ==
  /\ init.pc = ".env" /\ env.kind = "file" /\ env.user # init.user
  /\ init' = [init EXCEPT !.pc = "renameEnv"]
  /\ UNCHANGED <<release, file, env, used>>

\* which takes the place of .env.
RenamesEnv ==
  /\ init.pc = "renameEnv"
  /\ env' = [env EXCEPT !.user = init.user]
  /\ init' = [init EXCEPT !.pc = "done"]
  /\ UNCHANGED <<release, file, used>>

\* BootstrapConfig returns nil.
Returns ==
  /\ init.pc = "done" /\ init' = Idle
  /\ UNCHANGED <<release, file, env, used>>

BootNext ==
  \/ \E f \in Files, content \in {"absent", "own", "special"} : OperatorEdits(f, content)
  \/ OperatorEditsEnv \/ Upgrade
  \/ \E refresh \in BOOLEAN, user \in Users : Begin(refresh, user)
  \/ Aborts
  \/ FillsTemp \/ Renames \/ Preserves \/ Creates \/ Writes
  \/ CreatesEnv \/ WritesEnv \/ FindsUser \/ FillsEnvTemp \/ RenamesEnv \/ Returns

BootSpec == BootInit /\ [][BootNext]_bootVars

-----------------------------------------------------------------------------

\* Whatever step the command is cut short at, it changes no file that was whole
\* when it came, unless that is a generated file it was asked to refresh, and it
\* never takes away the token of .env: BootstrapConfig works "without replacing
\* operator files".
OperatorKept ==
  [][init.pc # "idle" =>
       /\ \A f \in Files : file[f] \in {"own", "special"} \cup Releases =>
            file'[f] = file[f] \/ (init.refresh /\ f \in Runtime)
       /\ env.token # "none" => env'.token = env.token]_bootVars

\* A command that succeeds has named the user it was given in .env, and has
\* replaced .env.example and, if asked to, every generated file, even where it
\* found the remains of one that was cut short.
InitDelivers ==
  init.pc = "done" =>
    /\ env.user = init.user
    /\ file[Example] = release
    /\ init.refresh => \A f \in Runtime : file[f] = release

=============================================================================
