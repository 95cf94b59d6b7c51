------------------------------ MODULE ShellCmd ------------------------------
(***************************************************************************)
(* The shell frontend: the command handlers generated for an instance      *)
(* (zephlet_shell_macros.h) and the printing of responses                  *)
(* (zephlet_shell_io.c).  A shell runs one line at a time on its thread;   *)
(* zlet_fmt may come from the thread of another backend at any moment, and *)
(* the form it sets is shared without a lock.                              *)
(*                                                                         *)
(* A line is a record: the instance and command it names, whether it has a *)
(* message (argc >= 2) and whether the message parses.                     *)
(***************************************************************************)
EXTENDS Dispatch

CONSTANTS
  shellThread,    \* the thread of the shell
  shapes,         \* per type, its commands by name: id, req, resp
  Lines,          \* lines that are typed
  ShellTimeout,   \* class of CONFIG_ZEPHLETS_SHELL_CMD_TIMEOUT_MS
  DefaultForm     \* ZLET_SHELL_FORM_DEFAULT

Forms == {"both", "pretty", "compact"}

ASSUME ShellAssumption ==
  shellThread \in Threads /\ DefaultForm \in Forms

VARIABLES
  selected,   \* zlet_shell_selected
  shell       \* the line in progress

ShellIdle ==
  [st |-> "idle", line |-> NULL, env |-> NULL, rc |-> "0",
   form |-> DefaultForm, changed |-> FALSE, shown |-> {}]

\* The row of the table that the line's subcommand was generated from.
Shape(line) == shapes[api[line.z]][line.cmd]

-----------------------------------------------------------------------------
(* ZLET_SHELL_DEFINE_METHOD_*: a request is parsed in place, zeroed first; *)
(* a parse that fails leaves part of it.                                   *)

Parsed(line) == line.argc >= 2 /\ line.parses

Usage(line) ==
  /\ shell.st = "idle"
  /\ Shape(line).req /\ ~Parsed(line)
  /\ shell' = [shell EXCEPT !.st = "done", !.line = line, !.rc = "EINVAL"]
  /\ UNCHANGED <<channels, selected>>

Request(line) == IF ~Shape(line).req THEN "none"
                 ELSE IF line.parses THEN "whole" ELSE "partial"

Call(line) ==
  /\ shell.st = "idle"
  /\ ~Shape(line).req \/ Parsed(line)
  /\ calls' = Push(shellThread, Envelope(line.z, Shape(line).id,
                                         Request(line), ShellTimeout))
  /\ shell' = [shell EXCEPT !.st = "called", !.line = line]
  /\ UNCHANGED <<holder, message, selected>>

\* The wrapper returns: its code is the line's, a response is printed.
Return ==
  LET env == Top(shellThread) IN
  /\ shell.st = "called"
  /\ Depth(shellThread) = 1 /\ At(shellThread, "ret")
  /\ shell' = [shell EXCEPT
       !.st = IF Result(env) = "0" /\ Shape(shell.line).resp THEN "block"
                                                             ELSE "done",
       !.rc = Result(env), !.env = env,
       !.form = selected, !.changed = FALSE]
  /\ calls' = Pop(shellThread)
  /\ UNCHANGED <<holder, message, selected>>

-----------------------------------------------------------------------------
(* zlet_shell_print_msg, which reads the form three times.                 *)

PrintBlockPretty ==
  /\ shell.st = "block"
  /\ shell' = [shell EXCEPT
       !.st = "which",
       !.shown = IF selected = "pretty" THEN @ \cup {"pretty"} ELSE @]
  /\ UNCHANGED <<channels, selected>>

PrintBlock ==
  /\ shell.st = "block"
  /\ shell' = [shell EXCEPT
       !.st = "which",
       !.shown = IF selected # "compact" THEN @ \cup {"pretty"} ELSE @]
  /\ UNCHANGED <<channels, selected>>

PrettyOnly ==
  /\ shell.st = "which" /\ selected = "pretty"
  /\ shell' = [shell EXCEPT !.st = "done"]
  /\ UNCHANGED <<channels, selected>>

NotPrettyOnly ==
  /\ shell.st = "which" /\ selected # "pretty"
  /\ shell' = [shell EXCEPT !.st = "line"]
  /\ UNCHANGED <<channels, selected>>

\* A blank line first if there are both forms, then the compact line.
PrintLine ==
  /\ shell.st = "line"
  /\ shell' = [shell EXCEPT
       !.st = "done",
       !.shown = @ \cup {"compact"}
                   \cup (IF selected = "both" THEN {"blank"} ELSE {})]
  /\ UNCHANGED <<channels, selected>>

\* zlet_fmt with the name of a form; any other argument changes nothing.
Fmt(form) ==
  /\ form # selected
  /\ selected' = form
  /\ shell' = [shell EXCEPT
       !.changed = shell.st \in {"block", "which", "line"} \/ @]
  /\ UNCHANGED channels

Prompt ==
  /\ shell.st = "done"
  /\ shell' = ShellIdle
  /\ UNCHANGED <<channels, selected>>

Shell ==
  \/ \E line \in Lines : Usage(line) \/ Call(line)
  \/ Return
  \/ PrintBlock \/ PrettyOnly \/ NotPrettyOnly \/ PrintLine
  \/ \E form \in Forms : Fmt(form)
  \/ Prompt
=============================================================================
