----------------------------- MODULE MCToolRun ------------------------------
(* ToolRun on a small instance: two credentials whose variables differ,    *)
(* files of every scope, plain and ssh commands.                           *)
EXTENDS ToolRun

On(t)  == [on |-> TRUE, tier |-> t]
Off(t) == [on |-> FALSE, tier |-> t]

MCNames   == {"write_file", "delete_file", "run_shell", "manage_schedule", "list_directory",
               "browser_type", "old_tool"}
MCEnvName == [c \in Creds |-> c]

Tools(w, s) == [n \in MCNames |-> CASE n = "write_file"  -> w
                                    [] n = "run_shell"   -> s
                                    [] n = "old_tool"    -> On("auto")
                                    [] n = "list_directory" -> On("auto")
                                    [] OTHER             -> None]
\* An old file without newer tools, and one a user has edited.
MCConfigs == {[version |-> 1, tools |-> Tools(On("auto"), None), allowed |-> None],
              [version |-> 2, tools |-> Tools(Off("confirm"), On("deny")), allowed |-> Creds]}

Plain == [ssh |-> 0, word |-> FALSE, nested |-> FALSE, binary |-> "", args |-> <<>>, inline |-> Creds]
Ssh(args, inline) ==
  [ssh |-> 1, word |-> TRUE, nested |-> FALSE, binary |-> "ssh", args |-> args, inline |-> inline]
Commands ==
  {Plain,
   Ssh(<<Flags(<<"v">>), Option("batchmode"), EndOfOptions, Word("host"), Word("ls")>>, {}),
   Ssh(<<Flags(<<"v", "A">>), Word("host"), Word("ls")>>, {}),
   Ssh(<<Option("tunnel"), Word("host"), Word("ls")>>, {}),
   Ssh(<<Flags(<<"v", "i">>), Word("key"), Word("host")>>, {}),
   [Ssh(<<Word("host"), Word("ls")>>, {}) EXCEPT !.ssh = 2],
   [Ssh(<<Word("host"), Word("ls")>>, {}) EXCEPT !.nested = TRUE]}
ShellCalls == {[tool |-> "run_shell", cmd |-> c, asked |-> IF c = Plain THEN 9 ELSE 0] : c \in Commands}

Path(b, n, l) == [bare |-> b, name |-> n, lands |-> l]
FileCalls ==
  {[tool |-> "write_file", scope |-> s, path |-> p] :
     s \in {"workspace", "vault"},
     p \in {Path(FALSE, "SOUL.md", "elsewhere"), Path(TRUE, "a.md", "workspace")}}
  \cup {[tool |-> "write_file", scope |-> "persona", path |-> Path(TRUE, n, "persona")] :
          n \in {"SOUL.md", "TOOL_CONFIG.json"}}
  \cup {[tool |-> "write_file", scope |-> "vault", path |-> Path(FALSE, "a.md", "category")]}
ListCalls ==
  {[tool |-> "list_directory", scope |-> "vault", path |-> Path(TRUE, ".", "vault")]}
OtherCalls ==
  {[tool |-> "manage_schedule", action |-> a, job |-> j] :
     a \in {"update", "delete"}, j \in {"mine", "theirs"}}
    \cup {[tool |-> "manage_schedule", action |-> "create"]}
    \cup {[tool |-> "browser_type", uses |-> u] : u \in {{}, Creds}}
    \cup {[tool |-> "web_search"], [tool |-> "report"]}
MCRequests == ShellCalls \cup FileCalls \cup ListCalls \cup OtherCalls
MCJobs == [j \in {"mine", "theirs", "next"} |->
             IF j = "next" THEN None ELSE [owner |-> j, on |-> TRUE]]
=============================================================================
