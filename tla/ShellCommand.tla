---------------------------- MODULE ShellCommand ----------------------------
(***************************************************************************)
(* What run_shell does to the text of a command before it runs it          *)
(* (commands/tool_commands/shell_tools.rs): commands that start ssh, scp   *)
(* or sftp are refused when they cannot be analysed, use a blocked option  *)
(* or would wait for a terminal, and get the options that keep them from   *)
(* asking anything.                                                        *)
(*                                                                         *)
(* A command is the record the regular expressions of the code make of it: *)
(*   ssh     how often a binary is started at a place they recognise       *)
(*   word    whether the name of a binary occurs anywhere                  *)
(*   nested  whether $(, a backquote, << or an assignment before ssh does  *)
(*   binary  the binary of the first start                                 *)
(*   args    the words after it, as tokens                                 *)
(*   inline  the credentials named by placeholders                         *)
(***************************************************************************)
EXTENDS Integers, Sequences, SequencesExt, FiniteSets

Word(w)      == [kind |-> "word", letters |-> <<>>, key |-> w]
Flags(s)     == [kind |-> "flags", letters |-> s, key |-> ""]
Option(k)    == [kind |-> "option", letters |-> <<>>, key |-> k]  \* -o key=value
EndOfOptions == [kind |-> "end", letters |-> <<>>, key |-> ""]
Token == [kind : {"word", "flags", "option", "end"}, letters : Seq(STRING), key : STRING]

FlagsWithArgs == {"B", "b", "c", "D", "E", "e", "F", "I", "i", "J", "L", "l",
                  "O", "o", "p", "Q", "R", "S", "W", "w"}
BlockedShortFlags == {"L", "R", "D", "A", "w", "W", "f", "M", "S", "O", "F", "G", "J", "E", "N"}
BlockedPresenceKeys ==
  {"proxycommand", "localcommand", "permitlocalcommand", "forwardagent", "include",
   "tunnel", "remoteforward", "localforward", "dynamicforward", "controlmaster",
   "controlpersist", "controlpath", "forkafterauthentication", "pkcs11provider",
   "securitykeyprovider", "knownhostscommand"}
SecurityOptions ==
  {"batchmode", "connecttimeout", "stricthostkeychecking", "serveraliveinterval",
   "serveralivecountmax"}

TokensOf(cmd, kind) == {t \in ToSet(cmd.args) : t.kind = kind}
KeysOf(cmd) == {t.key : t \in TokensOf(cmd, "option")}

\* is_complex_ssh_command; cmd.exe knows none of the nested forms.
IsComplex(cmd, isPosix) == cmd.ssh > 1 \/ (isPosix /\ cmd.nested)

Digits == {"0", "1", "2", "3", "4", "5", "6", "7", "8", "9"}

\* The letters of a cluster that check_ssh_blocked_options looks at: it stops
\* after the first that is not a letter; a cluster that starts with o or a digit
\* does not match.
Checked(t) ==
  IF t.letters[1] \in Digits \cup {"o"} THEN {}
  ELSE {t.letters[i] : i \in {j \in DOMAIN t.letters : \A k \in 1..j-1 : t.letters[k] \notin Digits}}
IsBlocked(cmd) ==
  \/ \E t \in TokensOf(cmd, "flags") : Checked(t) \cap BlockedShortFlags # {}
  \/ KeysOf(cmd) \cap BlockedPresenceKeys # {}

\* parse_ssh_args: the last flag of a cluster takes the next word as its value
\* when no earlier one has taken the rest of the cluster.
TakesNext(letters) ==
  LET n == Len(letters)
  IN /\ letters[n] \in FlagsWithArgs
     /\ \A i \in 1..n-1 : letters[i] \notin FlagsWithArgs \cup (Digits \ {"4", "6"})
NothingRead == [skip |-> FALSE, all |-> FALSE, n |-> 0]
ReadToken(s, t) ==
  IF s.skip THEN [s EXCEPT !.skip = FALSE]
  ELSE IF s.all THEN [s EXCEPT !.n = @ + 1]
  ELSE CASE t.kind = "end"    -> [s EXCEPT !.all = TRUE]
         [] t.kind = "word"   -> [s EXCEPT !.n = @ + 1]
         [] t.kind = "flags"  -> [s EXCEPT !.skip = TakesNext(t.letters)]
         [] t.kind = "option" -> s
ReadingOf(args) ==
  LET After[i \in 0..Len(args)] ==
        IF i = 0 THEN NothingRead ELSE ReadToken(After[i - 1], args[i])
  IN After
Positional(cmd) == ReadingOf(cmd.args)[Len(cmd.args)].n

\* check_remote_command: a session without a command would wait for a terminal.
HasRemoteCommand(cmd) ==
  CASE cmd.binary = "ssh"  -> Positional(cmd) >= 2
    [] cmd.binary = "sftp" -> Flags(<<"b">>) \in ToSet(cmd.args)
    [] OTHER               -> TRUE

\* inject_ssh_security_options: after the binary, the options it does not have.
Injected(cmd) == SecurityOptions \ KeysOf(cmd)

\* Mutant: a command with two starts is not refused.
RefusedOnce(cmd, isPosix) == cmd.ssh > 0 /\ (IsBlocked(cmd) \/ ~HasRemoteCommand(cmd))
IsRefused(cmd, isPosix) ==
  \/ cmd.word /\ IsComplex(cmd, isPosix)
  \/ cmd.ssh > 0 /\ (IsBlocked(cmd) \/ ~HasRemoteCommand(cmd))
Sanitized(cmd) == IF cmd.ssh = 0 THEN cmd.args
                  ELSE SetToSeq({Option(k) : k \in Injected(cmd)}) \o cmd.args
=============================================================================
