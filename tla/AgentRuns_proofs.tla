-------------------------- MODULE AgentRuns_proofs --------------------------
(***************************************************************************)
(* Proofs about what agents do when they are set to work: the calls of     *)
(* tools (ToolRun), for any configurations, credentials and requests and   *)
(* any number of calls, commands and failures, and the runs of a team      *)
(* (TeamRun), for any set of agents and any number of restarts.            *)
(***************************************************************************)
EXTENDS ToolRun, TeamRun, Functions, SequenceTheorems, FiniteSetTheorems,
        WellFoundedInduction, TLAPS

(***************************************************************************)
(* Part one: ToolRun.                                                      *)
(***************************************************************************)
-----------------------------------------------------------------------------
(* What the analysis of an ssh command says of it.                             *)

(* A set that has 0 and with each number the next has all of them: the least   *)
(* number outside would follow one inside.                                     *)
LEMMA FromZeroOn ==
  ASSUME NEW S, 0 \in S, \A n \in Nat : n \in S => n + 1 \in S
  PROVE  Nat \subseteq S
<1> DEFINE T == Nat \ S
<1>1. SUFFICES ASSUME T # {} PROVE FALSE
  OBVIOUS
<1>2. PICK x \in T : \A y \in T : ~(<<y, x>> \in OpToRel(<, Nat))
  BY <1>1, NatLessThanWellFounded, WFMin
<1>3. \A y \in T : ~(y < x)
  <2>1. \A y \in T : y \in Nat /\ x \in Nat /\ (y < x => <<y, x>> \in OpToRel(<, Nat))
    BY DEF OpToRel
  <2> QED
    BY <1>2, <2>1
<1> QED
  BY <1>3

(* The reading of the words is defined: it begins with nothing read, and each  *)
(* word is read in the state that the words before it left.                    *)
LEMMA ReadingIs ==
  ASSUME NEW args \in Seq(Token)
  PROVE  /\ ReadingOf(args)[0] = NothingRead
         /\ \A i \in 1..Len(args) :
              ReadingOf(args)[i] = ReadToken(ReadingOf(args)[i - 1], args[i])
<1> DEFINE n == Len(args)
<1> DEFINE P(k, f) == /\ DOMAIN f = 0..n /\ f[0] = NothingRead
                      /\ \A i \in 1..n : i <= k => f[i] = ReadToken(f[i - 1], args[i])
<1> DEFINE S == {k \in Nat : \E f : f = [i \in 0..n |-> f[i]] /\ P(k, f)}
<1>0. n \in Nat
  OBVIOUS
<1>1. 0 \in S
  <2> DEFINE f == [i \in 0..n |-> NothingRead]
  <2>1. f = [i \in 0..n |-> f[i]] /\ P(0, f)
    BY <1>0
  <2> QED
    BY <2>1
<1>2. ASSUME NEW k \in Nat, k \in S PROVE k + 1 \in S
  <2>1. PICK f : f = [i \in 0..n |-> f[i]] /\ P(k, f)
    BY <1>2
  <2> DEFINE g == [i \in 0..n |-> IF i = k + 1 THEN ReadToken(f[k], args[i]) ELSE f[i]]
  <2>3. g = [i \in 0..n |-> g[i]] /\ DOMAIN g = 0..n
    OBVIOUS
  <2>4. \A i \in 0..n : i # k + 1 => g[i] = f[i]
    OBVIOUS
  <2>5. k + 1 \in 0..n => g[k + 1] = ReadToken(f[k], args[k + 1])
    OBVIOUS
  <2> HIDE DEF g
  <2>6. g[0] = NothingRead
    BY <1>0, <2>1, <2>4
  <2>7. ASSUME NEW i \in 1..n, i <= k + 1
        PROVE  g[i] = ReadToken(g[i - 1], args[i])
    <3>1. CASE i = k + 1
      BY <1>0, <2>4, <2>5, <3>1
    <3>2. CASE i # k + 1
      <4>1. i <= k /\ i \in 0..n /\ i - 1 \in 0..n /\ i - 1 # k + 1
        BY <1>0, <2>7, <3>2
      <4>2. g[i] = f[i] /\ g[i - 1] = f[i - 1]
        BY <2>4, <3>2, <4>1
      <4>3. f[i] = ReadToken(f[i - 1], args[i])
        BY <2>1, <4>1
      <4> QED
        BY <4>2, <4>3
    <3> QED
      BY <3>1, <3>2
  <2>8. P(k + 1, g)
    BY <2>3, <2>6, <2>7
  <2> HIDE DEF P
  <2> QED
    BY <2>3, <2>8
<1>3. n \in S
  <2> HIDE DEF S
  <2> QED
    BY <1>0, <1>1, <1>2, FromZeroOn
<1>4. PICK f : f = [i \in 0..n |-> f[i]] /\ P(n, f)
  BY <1>3
<1>5. f = [i \in 0..n |-> IF i = 0 THEN NothingRead ELSE ReadToken(f[i - 1], args[i])]
  BY <1>0, <1>4
<1>6. ReadingOf(args)
        = [i \in 0..n |-> IF i = 0 THEN NothingRead
                          ELSE ReadToken(ReadingOf(args)[i - 1], args[i])]
  BY <1>5 DEF ReadingOf
<1> QED
  BY <1>0, <1>6

(* Two positional words are counted only if two are there.                     *)
LEMMA TwoArePositional ==
  ASSUME NEW args \in Seq(Token), ReadingOf(args)[Len(args)].n >= 2
  PROVE  \E i, j \in DOMAIN args : i < j /\ IsPositional(args, i) /\ IsPositional(args, j)
<1> DEFINE n == Len(args)
<1> DEFINE r == ReadingOf(args)
<1> DEFINE State == [skip : BOOLEAN, all : BOOLEAN, n : Nat]
<1> DEFINE P(k) ==
      /\ r[k] \in State
      /\ r[k].all => \E e \in 1..k : args[e].kind = "end"
      /\ r[k].n >= 1 => \E i \in 1..k : IsPositional(args, i)
      /\ r[k].n >= 2 => \E i, j \in 1..k : i < j /\ IsPositional(args, i) /\ IsPositional(args, j)
<1> DEFINE S == {k \in Nat : k <= n => P(k)}
<1>0. n \in Nat /\ DOMAIN args = 1..n
  OBVIOUS
<1>1. r[0] = NothingRead /\ \A i \in 1..n : r[i] = ReadToken(r[i - 1], args[i])
  BY ReadingIs
<1> HIDE DEF r, n
<1>2. 0 \in S
  <2>1. r[0] \in State /\ ~r[0].all /\ r[0].n = 0
    BY <1>1 DEF NothingRead
  <2>2. P(0)
    BY <2>1
  <2> QED
    BY <2>2
<1>3. ASSUME NEW k \in Nat, k \in S, k + 1 <= n PROVE P(k + 1)
  <2> DEFINE t == args[k + 1]
  <2>1. P(k)
    BY <1>0, <1>3
  <2>2. k + 1 \in 1..n /\ r[k + 1] = ReadToken(r[k], t)
    <3>1. k + 1 \in 1..n /\ (k + 1) - 1 = k
      BY <1>0, <1>3
    <3> QED
      BY <1>1, <3>1
  <2>3. \A i \in 1..k : i \in 1..k + 1 /\ i < k + 1
    OBVIOUS
  <2>4. r[k].all \/ t.kind = "word" => IsPositional(args, k + 1)
    BY <2>1 DEF IsPositional
  <2>5. /\ r[k + 1] \in State
        /\ r[k + 1].all => r[k].all \/ t.kind = "end"
        /\ r[k + 1].n = r[k].n \/ (r[k + 1].n = r[k].n + 1 /\ (r[k].all \/ t.kind = "word"))
    <3>1. TakesNext(t.letters) \in BOOLEAN
      BY DEF TakesNext
    <3>2. r[k] \in State
      BY <2>1
    <3>0. t.kind \in {"word", "flags", "option", "end"}
      <4>1. t \in Token
        BY <1>0, <2>2 DEF n
      <4> QED
        BY <4>1 DEF Token
    <3> HIDE DEF t
    <3>3. PICK s \in State : s = r[k]
      BY <3>2
    <3>4. s.skip \in BOOLEAN /\ s.all \in BOOLEAN /\ s.n \in Nat
      BY <3>2
    <3>5. CASE s.skip
      <4>1. r[k + 1] = [s EXCEPT !.skip = FALSE]
        BY <2>2, <3>3, <3>5 DEF ReadToken
      <4> QED
        BY <3>3, <3>4, <4>1
    <3>6. CASE ~s.skip /\ (s.all \/ t.kind = "word")
      <4>1. r[k + 1] = [s EXCEPT !.n = @ + 1]
        BY <2>2, <3>3, <3>6 DEF ReadToken
      <4> QED
        BY <3>3, <3>4, <3>6, <4>1
    <3>7. CASE ~s.skip /\ ~s.all /\ t.kind = "end"
      <4>1. r[k + 1] = [s EXCEPT !.all = TRUE]
        BY <2>2, <3>3, <3>7 DEF ReadToken
      <4> QED
        BY <3>3, <3>4, <3>7, <4>1
    <3>8. CASE ~s.skip /\ ~s.all /\ t.kind = "flags"
      <4>1. r[k + 1] = [s EXCEPT !.skip = TakesNext(t.letters)]
        BY <2>2, <3>3, <3>8 DEF ReadToken
      <4> QED
        BY <3>1, <3>3, <3>4, <4>1
    <3>9. CASE ~s.skip /\ ~s.all /\ t.kind = "option"
      <4>1. r[k + 1] = s
        BY <2>2, <3>3, <3>9 DEF ReadToken
      <4> QED
        BY <3>3, <3>4, <4>1
    <3> QED
      BY <3>0, <3>4, <3>5, <3>6, <3>7, <3>8, <3>9
  <2> HIDE DEF t
  <2>6. k + 1 \in 1..k + 1
    OBVIOUS
  <2>7. r[k + 1].all => \E e \in 1..k + 1 : args[e].kind = "end"
    BY <2>1, <2>3, <2>5, <2>6 DEF t
  <2>8. r[k] \in State
    BY <2>1
  <2>9. r[k + 1].n >= 1 => \E i \in 1..k + 1 : IsPositional(args, i)
    BY <2>1, <2>3, <2>4, <2>5, <2>6, <2>8
  <2>10. r[k + 1].n >= 2 =>
           \E i, j \in 1..k + 1 : i < j /\ IsPositional(args, i) /\ IsPositional(args, j)
    <3>1. CASE r[k + 1].n = r[k].n
      BY <2>1, <2>3, <3>1
    <3>2. CASE r[k + 1].n = r[k].n + 1 /\ (r[k].all \/ t.kind = "word")
      BY <2>1, <2>3, <2>4, <2>6, <2>8, <3>2
    <3> QED
      BY <2>5, <3>1, <3>2
  <2> QED
    BY <2>5, <2>7, <2>9, <2>10
<1>4. ASSUME NEW k \in Nat, k \in S PROVE k + 1 \in S
  <2>1. k + 1 \in Nat /\ (k + 1 <= n => P(k + 1))
    BY <1>3, <1>4
  <2> HIDE DEF P
  <2> QED
    BY <2>1
<1>5. n \in S
  <2> HIDE DEF S
  <2> QED
    BY <1>0, <1>2, <1>4, FromZeroOn
<1>6. P(n)
  BY <1>0, <1>5
<1> QED
  BY <1>0, <1>6 DEF r, n

(* The options that are put before the arguments are exactly those asked for.  *)
LEMMA SetToSeqIs ==
  ASSUME NEW S, IsFiniteSet(S)
  PROVE  SetToSeq(S) \in Seq(S) /\ \A x \in S : \E i \in DOMAIN SetToSeq(S) : SetToSeq(S)[i] = x
<1> DEFINE n == Cardinality(S)
<1>1. n \in Nat /\ IsFiniteSet(1..n) /\ Cardinality(1..n) = n
  BY FS_CardinalityType, FS_Interval
<1>2. \E f \in [1..n -> S] : IsInjective(f)
  <2>1. PICK f : f \in Bijection(1..n, S)
    BY FS_CardinalityType DEF ExistsBijection
  <2> QED
    BY <2>1 DEF Bijection, Injection, IsInjective
<1> DEFINE f == SetToSeq(S)
<1>3. f \in [1..n -> S] /\ IsInjective(f)
  BY <1>2 DEF SetToSeq
<1>4. f \in Injection(1..n, S)
  BY <1>3 DEF Injection, IsInjective
<1>5. f \in Surjection(1..n, S)
  <2> HIDE DEF f
  <2>1. n = Cardinality(1..n)
    BY <1>1
  <2> HIDE DEF n
  <2>2. Cardinality(1..n) = Cardinality(S)
    BY <2>1 DEF n
  <2> QED
    BY <1>4, <2>2, FS_Injection
<1>6. f \in Seq(S)
  BY <1>1, <1>3
<1> QED
  BY <1>3, <1>5, <1>6 DEF Surjection

(* What is not refused is hardened.                                            *)
LEMMA NotRefused ==
  ASSUME NEW c, c.args \in Seq(Token), c.ssh \in Nat, c.ssh > 0, c.word,
         ~IsRefused(c, IsPosix)
  PROVE  Hardened(c)
<1> DEFINE args == Sanitized(c)
<1> DEFINE new == SetToSeq({Option(k) : k \in Injected(c)})
<1> DEFINE opts == {args[i].key : i \in {j \in DOMAIN args : args[j].kind = "option"}}
<1>1. c.ssh = 1 /\ ~IsBlocked(c) /\ HasRemoteCommand(c)
  BY DEF IsRefused, IsComplex
<1>2. new \in Seq({Option(k) : k \in Injected(c)})
      /\ \A k \in Injected(c) : \E i \in DOMAIN new : new[i] = Option(k)
  <2>1. IsFiniteSet(SecurityOptions)
    <3> DEFINE s1 == {} \cup {"batchmode"}
    <3> DEFINE s2 == s1 \cup {"connecttimeout"}
    <3> DEFINE s3 == s2 \cup {"stricthostkeychecking"}
    <3> DEFINE s4 == s3 \cup {"serveraliveinterval"}
    <3> DEFINE s5 == s4 \cup {"serveralivecountmax"}
    <3>1. IsFiniteSet(s1)
      BY FS_EmptySet, FS_AddElement
    <3> HIDE DEF s1
    <3>2. IsFiniteSet(s2)
      BY <3>1, FS_AddElement
    <3> HIDE DEF s2
    <3>3. IsFiniteSet(s3)
      BY <3>2, FS_AddElement
    <3> HIDE DEF s3
    <3>4. IsFiniteSet(s4)
      BY <3>3, FS_AddElement
    <3> HIDE DEF s4
    <3>5. IsFiniteSet(s5)
      BY <3>4, FS_AddElement
    <3> HIDE DEF s5
    <3>6. SecurityOptions = s5
      BY DEF SecurityOptions, s1, s2, s3, s4, s5
    <3> QED
      BY <3>5, <3>6
  <2>2. IsFiniteSet(Injected(c))
    BY <2>1, FS_Subset DEF Injected
  <2> DEFINE f == [k \in Injected(c) |-> Option(k)]
  <2> DEFINE T == {Option(k) : k \in Injected(c)}
  <2>3. f \in Surjection(Injected(c), T)
    BY DEF Surjection
  <2>4. IsFiniteSet(T)
    <3> HIDE DEF f, T
    <3> QED
      BY <2>2, <2>3, FS_Surjection
  <2>5. \A k \in Injected(c) : Option(k) \in T
    OBVIOUS
  <2> HIDE DEF T
  <2>6. SetToSeq(T) \in Seq(T) /\ \A x \in T : \E i \in DOMAIN SetToSeq(T) : SetToSeq(T)[i] = x
    BY <2>4, SetToSeqIs
  <2> QED
    BY <2>5, <2>6 DEF T
<1>3. args = new \o c.args
  BY <1>1 DEF Sanitized
<1>4. /\ \A k \in Injected(c) : Option(k).kind = "option" /\ Option(k).key = k
      /\ \A i \in DOMAIN new : \E k \in Injected(c) : new[i] = Option(k)
  <2> DEFINE T == {Option(k) : k \in Injected(c)}
  <2>1. \A x \in T : \E k \in Injected(c) : x = Option(k)
    OBVIOUS
  <2>2. \A i \in DOMAIN new : new[i] \in T
    <3> HIDE DEF T, new
    <3>1. new \in Seq(T)
      BY <1>2 DEF T
    <3> QED
      BY <3>1
  <2>3. \A k : Option(k).kind = "option" /\ Option(k).key = k
    BY DEF Option
  <2> HIDE DEF T, new
  <2> QED
    BY <2>1, <2>2, <2>3
<1>5. c.args \in Seq(Token) /\ new \in Seq({Option(k) : k \in Injected(c)})
  <2> HIDE DEF new
  <2> QED
    BY <1>2
<1> HIDE DEF new
<1>6. /\ \A i \in DOMAIN new : i \in DOMAIN args /\ args[i] = new[i]
      /\ \A i \in DOMAIN c.args : \E j \in DOMAIN args : args[j] = c.args[i]
      /\ \A j \in DOMAIN args :
           \/ j \in DOMAIN new /\ args[j] = new[j]
           \/ \E i \in DOMAIN c.args : args[j] = c.args[i]
  <2>1. Len(new) \in Nat /\ DOMAIN new = 1..Len(new)
    BY <1>5
  <2>2. Len(c.args) \in Nat /\ DOMAIN c.args = 1..Len(c.args)
    BY <1>5
  <2>3. /\ DOMAIN (new \o c.args) = 1..(Len(new) + Len(c.args))
        /\ \A i \in 1..(Len(new) + Len(c.args)) :
             (new \o c.args)[i] = IF i <= Len(new) THEN new[i] ELSE c.args[i - Len(new)]
    BY <1>5
  <2> DEFINE cat == new \o c.args
  <2>4. args = cat
    BY <1>3
  <2>5. /\ DOMAIN cat = 1..(Len(new) + Len(c.args))
        /\ \A i \in 1..(Len(new) + Len(c.args)) :
             cat[i] = IF i <= Len(new) THEN new[i] ELSE c.args[i - Len(new)]
    BY <2>3
  <2> DEFINE m == Len(new)
  <2> DEFINE n == Len(c.args)
  <2> DEFINE old == c.args
  <2>6. /\ m \in Nat /\ n \in Nat /\ DOMAIN new = 1..m /\ DOMAIN old = 1..n
        /\ DOMAIN args = 1..(m + n)
        /\ \A i \in 1..(m + n) : args[i] = IF i <= m THEN new[i] ELSE old[i - m]
    BY <2>1, <2>2, <2>4, <2>5
  <2> HIDE DEF cat, args, m, n, old
  <2>7. \A i \in DOMAIN new : i \in DOMAIN args /\ args[i] = new[i]
    BY <2>6
  <2>8. \A i \in DOMAIN old : m + i \in DOMAIN args /\ args[m + i] = old[i]
    BY <2>6
  <2>9. ASSUME NEW j \in DOMAIN args, j \notin DOMAIN new
        PROVE  j - m \in DOMAIN old /\ args[j] = old[j - m]
    BY <2>6, <2>9
  <2>10. ASSUME NEW j \in DOMAIN args
         PROVE  \/ j \in DOMAIN new /\ args[j] = new[j]
                \/ \E i \in DOMAIN old : args[j] = old[i]
    BY <2>7, <2>9
  <2> QED
    BY <2>7, <2>8, <2>10 DEF old
<1> HIDE DEF args
<1>7. /\ KeysOf(c) \subseteq opts
      /\ \A x \in opts : x \in KeysOf(c) \/ x \in Injected(c)
      /\ Injected(c) \subseteq opts
  <2>1. \A k \in KeysOf(c) : \E i \in DOMAIN c.args : c.args[i].kind = "option" /\ c.args[i].key = k
    BY DEF KeysOf, TokensOf, ToSet
  <2>2. \A i \in DOMAIN c.args : c.args[i].kind = "option" => c.args[i].key \in KeysOf(c)
    BY DEF KeysOf, TokensOf, ToSet
  <2>3. \A x : x \in opts <=> \E j \in DOMAIN args : args[j].kind = "option" /\ x = args[j].key
    OBVIOUS
  <2> HIDE DEF opts
  <2>4. KeysOf(c) \subseteq opts
    BY <1>6, <2>1, <2>3
  <2>5. ASSUME NEW x \in opts PROVE x \in KeysOf(c) \/ x \in Injected(c)
    <3>1. PICK j \in DOMAIN args : args[j].kind = "option" /\ x = args[j].key
      BY <2>3
    <3> QED
      BY <1>4, <1>6, <2>2, <3>1
  <2>6. ASSUME NEW x \in Injected(c) PROVE x \in opts
    <3>1. PICK i \in DOMAIN new : new[i] = Option(x)
      BY <1>2
    <3> QED
      BY <1>4, <1>6, <2>3, <3>1
  <2> QED
    BY <2>4, <2>5, <2>6
<1>8. SecurityOptions \subseteq opts
  BY <1>7 DEF Injected
<1>9. opts \cap BlockedPresenceKeys = {}
  BY <1>1, <1>7 DEF IsBlocked, Injected, SecurityOptions, BlockedPresenceKeys
<1>10. ASSUME NEW i \in DOMAIN args, args[i].kind = "flags",
              NEW m \in DOMAIN args[i].letters, args[i].letters[m] \in BlockedShortFlags
       PROVE  args[i].letters[1] = "o" \/ \E d \in 1..m : args[i].letters[d] \in Digits
  <2>1. PICK j \in DOMAIN c.args : args[i] = c.args[j]
    BY <1>4, <1>6, <1>10
  <2> DEFINE t == args[i]
  <2>2. t \in TokensOf(c, "flags") /\ t \in Token
    BY <1>5, <1>10, <2>1 DEF TokensOf, ToSet
  <2>3. Checked(t) \cap BlockedShortFlags = {}
    BY <1>1, <2>2 DEF IsBlocked
  <2>4. t.letters \in Seq(STRING) /\ m \in 1..Len(t.letters) /\ Len(t.letters) \in Nat
    BY <1>10, <2>2 DEF Token
  <2>5. ASSUME t.letters[1] # "o", \A d \in 1..m : t.letters[d] \notin Digits PROVE FALSE
    <3>1. t.letters[1] \notin Digits \cup {"o"}
      BY <2>4, <2>5
    <3>2. t.letters[m] \in Checked(t)
      BY <1>10, <2>4, <2>5, <3>1 DEF Checked
    <3> QED
      BY <1>10, <2>3, <3>2
  <2> QED
    BY <2>5
<1>11. c.binary = "ssh" =>
         \E i, j \in DOMAIN c.args :
           i < j /\ IsPositional(c.args, i) /\ IsPositional(c.args, j)
  <2>1. ASSUME c.binary = "ssh" PROVE ReadingOf(c.args)[Len(c.args)].n >= 2
    BY <1>1, <2>1 DEF HasRemoteCommand, Positional
  <2> QED
    BY <2>1, TwoArePositional
<1> QED
  BY <1>1, <1>8, <1>9, <1>10, <1>11 DEF Hardened, args

-----------------------------------------------------------------------------
(* The inductive invariant.                                                    *)

(* A call c, its row l of the log and its process p, when the file allows the  *)
(* credentials of now: while it lives it has no result, and has read and been  *)
(* given nothing that the file has not allowed since it began; its process     *)
(* is there only for run_shell, after the command was looked at, and runs no   *)
(* longer than the call.                                                       *)
Live(c, now) ==
  c.at # "ended" =>
    /\ c.status = None /\ c.out = {} /\ c.place = None
    /\ now \subseteq c.seen /\ c.allowed \subseteq c.seen
    /\ \A s \in c.env : s[1] \in c.seen
RepeatedIn(c) ==
  IF c.req.cmd.ssh > 0 /\ Injected(c.req.cmd) # {}
  THEN {s \in c.env : s[1] \in c.req.cmd.inline} ELSE {}
NoSecretIn(c) ==
  ~(c.req.tool = "run_shell" /\ RepeatedIn(c) # {}) => c.out \cap c.env = {}
PlaceOK(c) ==
  c.place # None =>
    /\ c.place = RootOf(c.req.scope)
    /\ c.req.scope = "persona" /\ c.req.tool # "list_directory" => c.req.path.name \in PersonaFiles
    /\ c.who # "window" => c.req.scope # "workspace"
Alone(c) ==
  c.who # "window" /\ c.req.tool \in Unattendable =>
    c.at \in {"begun", "ended"} /\ c.status # "executed" /\ c.env = {}
LogSays(c, l) ==
  l # None => IF c.at # "ended" \/ c.status = None \/ c.lost THEN l.status = "pending"
              ELSE l = [status |-> c.status, out |-> c.out]
Runs(c, p) ==
  /\ p.state \in {"queued", "running"} => c.at = "waiting" \/ p.stray
  /\ c.req.tool = "run_shell" /\ c.at = "waiting" => p.state # "none"
  /\ p.state # "none" =>
       /\ c.req.tool = "run_shell" /\ c.at \in {"waiting", "ended"}
       /\ c.req.cmd.ssh > 0 => Hardened(c.req.cmd)
CallOK(c, l, p, now) ==
  /\ Live(c, now) /\ NoSecretIn(c) /\ PlaceOK(c) /\ Alone(c)
  /\ LogSays(c, l) /\ Runs(c, p)

CallsOK ==
  \A k \in Ks : IF calls[k] = None THEN log[k] = None /\ proc[k] = NoProc
                ELSE CallOK(calls[k], log[k], proc[k], AllowedCredentials(config))

(* The stores of credentials, the one in memory and its file, agree with the   *)
(* list but for what a failure left and what a command is changing; the        *)
(* command in between has done its first half.                                 *)
Changes(c) == cmd # None /\ cmd.op \in {"add", "remove"} /\ cmd.id = c
Agrees(store) == \A c \in Creds : (c \in meta) # (store[c] # None) => c \in leftover \/ Changes(c)
HalfDone ==
  cmd # None =>
    /\ cmd.op \in {"add", "update"} =>
         /\ mem[cmd.id] # None
         /\ disk[cmd.id] # None \/ cmd.id \in leftover
    /\ cmd.op = "add" => cmd.id \notin meta
    /\ cmd.op = "update" => cmd.id \in meta
    /\ cmd.op = "remove" =>
         /\ cmd.id \in meta /\ mem[cmd.id] = None
         /\ disk[cmd.id] = None \/ cmd.id \in leftover
StoresOK == Agrees(mem) /\ Agrees(disk) /\ HalfDone

ToolInv == ToolTypeOK /\ CallsOK /\ StoresOK

-----------------------------------------------------------------------------
(* The configuration.                                                          *)

LEMMA AllowedAre == ASSUME NEW c \in Config \cup {Torn} PROVE AllowedCredentials(c) \subseteq Creds
<1> USE ConfigAssumption
<1> QED
  BY DEF AllowedCredentials, Config

(* What is read of a file is a configuration, allows what the file allows,     *)
(* keeps its entries, and is not changed by another reading.                   *)
LEMMA NormalizeIs ==
  ASSUME NEW c \in Config
  PROVE  /\ Normalize(c) \in Config /\ Normalize(c).version = 2
         /\ AllowedCredentials(Normalize(c)) = AllowedCredentials(c)
         /\ Normalize(c).allowed = AllowedCredentials(c)
         /\ Normalize(Normalize(c)) = Normalize(c)
         /\ \A n \in Names \cap NativeTools : c.tools[n] # None =>
              /\ Normalize(c).tools[n].tier = c.tools[n].tier
              /\ IsOn(c, n) => IsOn(Normalize(c), n)
<1> DEFINE N == Normalize(c)
<1>0. /\ c.tools \in [Names -> Entry \cup {None}] /\ c.allowed \in {None} \cup SUBSET Creds
      /\ c # Torn /\ None \notin Entry /\ {} # None
  BY ConfigAssumption DEF Config
<1>1. \A n \in Names : n \notin NativeTools => N.tools[n] = None
  BY DEF Normalize
<1>2. ASSUME NEW n \in Names, n \in NativeTools, c.tools[n] # None
      PROVE  N.tools[n] = [c.tools[n] EXCEPT !.on = @ \/ DefaultEnabled(n)]
  BY <1>2 DEF Normalize
<1>3. ASSUME NEW n \in Names, n \in NativeTools
      PROVE  N.tools[n] \in Entry /\ (DefaultEnabled(n) => N.tools[n].on)
  <2>1. DefaultEnabled(n) \in BOOLEAN /\ DefaultTier(n) \in {"auto", "confirm"}
    BY DEF DefaultEnabled, DefaultTier
  <2>2. CASE c.tools[n] # None
    <3>1. c.tools[n] \in Entry
      BY <1>0, <2>2
    <3> QED
      BY <1>2, <1>3, <2>1, <2>2, <3>1 DEF Entry
  <2>3. CASE c.tools[n] = None /\ n = "delete_file" /\ IsOn(c, "write_file")
    <3>1. N.tools[n] = [[on |-> TRUE, tier |-> "confirm"] EXCEPT !.on = @ \/ DefaultEnabled(n)]
      BY <1>3, <2>3 DEF Normalize
    <3> QED
      BY <2>1, <3>1 DEF Entry
  <2>4. CASE c.tools[n] = None /\ ~(n = "delete_file" /\ IsOn(c, "write_file"))
    <3>1. N.tools[n] = [[on |-> DefaultEnabled(n), tier |-> DefaultTier(n)]
                          EXCEPT !.on = @ \/ DefaultEnabled(n)]
      BY <1>3, <2>4 DEF Normalize
    <3> QED
      BY <2>1, <3>1 DEF Entry
  <2> QED
    BY <2>2, <2>3, <2>4
<1>4. /\ N.version = 2 /\ DOMAIN N.tools = Names /\ N.allowed = AllowedCredentials(c)
      /\ N = [version |-> 2, tools |-> N.tools, allowed |-> N.allowed]
      /\ N.tools = [n \in Names |-> N.tools[n]]
  BY <1>0 DEF Normalize, AllowedCredentials
<1>5. N \in Config
  <2> HIDE DEF N
  <2>1. N.tools \in [Names -> Entry \cup {None}]
    BY <1>1, <1>3, <1>4
  <2>2. N.allowed \in {None} \cup SUBSET Creds
    BY <1>4, AllowedAre
  <2> QED
    BY <1>4, <2>1, <2>2 DEF Config
<1>6. N # Torn /\ N.allowed # None
  BY <1>4, <1>5, AllowedAre, ConfigAssumption
<1>7. AllowedCredentials(N) = AllowedCredentials(c)
  BY <1>4, <1>6 DEF AllowedCredentials
<1>8. Normalize(N) = N
  <2> HIDE DEF N
  <2>1. ASSUME NEW n \in Names
        PROVE  N.tools[n] = IF n \notin NativeTools THEN None
                            ELSE [N.tools[n] EXCEPT !.on = @ \/ DefaultEnabled(n)]
    <3>1. CASE n \notin NativeTools
      BY <1>1, <3>1
    <3>2. CASE n \in NativeTools
      <4>1. N.tools[n] \in Entry /\ (DefaultEnabled(n) => N.tools[n].on)
        BY <1>3, <3>2
      <4>2. DefaultEnabled(n) \in BOOLEAN
        BY DEF DefaultEnabled
      <4> QED
        BY <3>2, <4>1, <4>2 DEF Entry
    <3> QED
      BY <3>1, <3>2
  <2>2. \A n \in Names : n \in NativeTools => N.tools[n] # None
    BY <1>0, <1>3
  <2>3. Normalize(N).tools = N.tools
    <3>1. Normalize(N).tools = [n \in Names |-> IF n \notin NativeTools THEN None
                                 ELSE [N.tools[n] EXCEPT !.on = @ \/ DefaultEnabled(n)]]
      BY <2>2 DEF Normalize
    <3> QED
      BY <1>4, <2>1, <3>1
  <2>4. Normalize(N) = [version |-> 2, tools |-> Normalize(N).tools, allowed |-> N.allowed]
    BY <1>6 DEF Normalize
  <2> QED
    BY <1>4, <2>3, <2>4
<1>9. ASSUME NEW n \in Names \cap NativeTools, c.tools[n] # None
      PROVE  /\ N.tools[n].tier = c.tools[n].tier
             /\ IsOn(c, n) => IsOn(N, n)
  <2>1. c.tools[n] \in Entry
    BY <1>0, <1>9
  <2>2. N.tools[n] = [c.tools[n] EXCEPT !.on = @ \/ DefaultEnabled(n)]
    BY <1>2, <1>9
  <2>3. N.tools[n] # None
    BY <1>0, <1>3, <1>9
  <2>4. DefaultEnabled(n) \in BOOLEAN
    BY DEF DefaultEnabled
  <2> HIDE DEF N
  <2> QED
    BY <2>1, <2>2, <2>3, <2>4 DEF IsOn, Entry
<1> QED
  BY <1>4, <1>5, <1>7, <1>8, <1>9

(* The free call with the least number.                                        *)
LEMMA FirstFree ==
  ASSUME Free # {}
  PROVE  LET k == CHOOSE k \in Free : \A j \in Free : k <= j IN k \in Ks /\ calls[k] = None
<1>1. Free \subseteq Nat
  BY ToolRunAssumption DEF Free, Ks
<1>2. PICK k \in Free : \A j \in Free : ~(<<j, k>> \in OpToRel(<, Nat))
  <2>1. IsWellFoundedOn(OpToRel(<, Nat), Nat)
    BY NatLessThanWellFounded
  <2> QED
    BY <1>1, <2>1, WFMin
<1>3. \A j \in Free : k <= j
  <2>1. \A j \in Free : j \in Nat /\ k \in Nat /\ (j < k => <<j, k>> \in OpToRel(<, Nat))
    BY <1>1 DEF OpToRel
  <2>2. \A j \in Free : ~(j < k) /\ j \in Nat /\ k \in Nat
    BY <1>2, <2>1
  <2> QED
    BY <2>2
<1> QED
  BY <1>3 DEF Free

-----------------------------------------------------------------------------
(* Steps of one call.                                                          *)

LEMMA UnderWay ==
  ASSUME ToolInv, NEW k \in Ks, Active(k)
  PROVE  /\ calls[k] \in ToolCall /\ calls[k] # None /\ calls[k].at # "ended"
         /\ CallOK(calls[k], log[k], proc[k], AllowedCredentials(config))
         /\ log[k] \in Row \cup {None} /\ proc[k] \in Proc
         /\ log = [log EXCEPT ![k] = log[k]] /\ proc = [proc EXCEPT ![k] = proc[k]]
         /\ calls[k].status = None /\ calls[k].out = {} /\ calls[k].place = None
         /\ failures \in 0..MaxFailures
BY DEF ToolInv, ToolTypeOK, CallsOK, Active, CallOK, Live

LEMMA OneCall ==
  ASSUME ToolInv, NEW k \in Ks, NEW c \in ToolCall, NEW l \in Row \cup {None}, NEW p \in Proc,
         CallOK(c, l, p, AllowedCredentials(config)),
         calls' = [calls EXCEPT ![k] = c], log' = [log EXCEPT ![k] = l],
         proc' = [proc EXCEPT ![k] = p], DOMAIN jobs' = Jobs, Rest,
         failures' \in 0..MaxFailures
  PROVE  ToolInv'
<1>1. ToolTypeOK'
  BY DEF ToolInv, ToolTypeOK, Rest, cfgVars, credVars
<1>2. CallsOK'
  <2>1. config' = config /\ c # None
    BY ConfigAssumption DEF Rest, cfgVars
  <2>2. \A j \in Ks : calls'[j] = IF j = k THEN c ELSE calls[j]
    BY DEF ToolInv, ToolTypeOK
  <2>3. \A j \in Ks : log'[j] = IF j = k THEN l ELSE log[j]
    BY DEF ToolInv, ToolTypeOK
  <2>4. \A j \in Ks : proc'[j] = IF j = k THEN p ELSE proc[j]
    BY DEF ToolInv, ToolTypeOK
  <2> QED
    BY <2>1, <2>2, <2>3, <2>4 DEF ToolInv, CallsOK
<1>3. StoresOK'
  BY DEF ToolInv, StoresOK, Agrees, HalfDone, Changes, Rest, credVars
<1> QED
  BY <1>1, <1>2, <1>3 DEF ToolInv

LEMMA Counted ==
  ASSUME ToolTypeOK
  PROVE  /\ Fails => failures' \in 0..MaxFailures
         /\ Issue => commands' \in 0..MaxCommands
<1>1. /\ failures \in 0..MaxFailures /\ commands \in 0..MaxCommands /\ MaxFailures \in Nat
      /\ MaxCommands \in Nat
  BY ToolRunAssumption DEF ToolTypeOK
<1> QED
  BY <1>1 DEF Fails, Issue

(* The row of a call that ends, or none; it stays pending when it is lost.     *)
LEMMA RowOfEnd ==
  ASSUME ToolInv, NEW k \in Ks, Active(k), NEW outcome \in {"executed", "error"},
         NEW out \in SUBSET Secret, NEW lost \in BOOLEAN, LogEnd(k, lost, outcome, out)
  PROVE  /\ failures' \in 0..MaxFailures
         /\ \E l \in Row \cup {None} :
              /\ log' = [log EXCEPT ![k] = l]
              /\ l # None => IF lost THEN l.status = "pending"
                             ELSE l = [status |-> outcome, out |-> out]
<1>1. /\ CallOK(calls[k], log[k], proc[k], AllowedCredentials(config)) /\ calls[k].at # "ended"
      /\ log[k] \in Row \cup {None} /\ log = [log EXCEPT ![k] = log[k]]
      /\ failures \in 0..MaxFailures
  BY UnderWay
<1>2. log[k] # None => log[k].status = "pending"
  BY <1>1 DEF CallOK, LogSays
<1>3. failures' \in 0..MaxFailures
  BY <1>1, Counted DEF LogEnd, ToolInv
<1>4. CASE log[k] = None \/ lost
  <2>1. log' = [log EXCEPT ![k] = log[k]]
    BY <1>1, <1>4 DEF LogEnd
  <2> QED
    BY <1>1, <1>2, <1>3, <1>4, <2>1
<1>5. CASE ~(log[k] = None \/ lost)
  <2> DEFINE l == [status |-> outcome, out |-> out]
  <2>1. l \in Row /\ log' = [log EXCEPT ![k] = l]
    BY <1>5 DEF LogEnd, Row
  <2> QED
    BY <1>3, <1>5, <2>1
<1> QED
  BY <1>4, <1>5

(* The end of a call, with its process left as q.                              *)
LEMMA CallEnds ==
  ASSUME ToolInv, NEW k \in Ks, Active(k), NEW outcome \in {"executed", "error"},
         NEW out \in SUBSET Secret, End(k, outcome, out),
         ~(IsShell(k) /\ Repeated(k) # {}) => out \cap calls[k].env = {},
         calls[k].who # "window" /\ calls[k].req.tool \in Unattendable => outcome = "error",
         NEW q \in Proc, proc' = [proc EXCEPT ![k] = q],
         q.state \in {"queued", "running"} => q.stray,
         q.state # "none" => proc[k].state # "none",
         DOMAIN jobs' = Jobs, Rest
  PROVE  ToolInv'
<1>0. PICK lost \in BOOLEAN :
        /\ calls' = [calls EXCEPT ![k] = [calls[k] EXCEPT !.at = "ended", !.status = outcome,
                        !.out = out, !.lost = lost, !.age = 0, !.allowed = {}, !.seen = {}]]
        /\ LogEnd(k, lost, outcome, out)
  BY DEF End, Update
<1> DEFINE c == calls[k]
<1> DEFINE d == [c EXCEPT !.at = "ended", !.status = outcome, !.out = out, !.lost = lost,
                          !.age = 0, !.allowed = {}, !.seen = {}]
<1>1. /\ c \in ToolCall /\ CallOK(c, log[k], proc[k], AllowedCredentials(config))
      /\ c.place = None /\ c.at # "ended"
  BY UnderWay
<1>2. /\ d \in ToolCall /\ d.at = "ended" /\ d.status = outcome /\ d.out = out /\ d.lost = lost
      /\ d.who = c.who /\ d.req = c.req /\ d.env = c.env /\ d.place = None
  BY <1>1 DEF ToolCall
<1>3. calls' = [calls EXCEPT ![k] = d]
  BY <1>0
<1>4. /\ failures' \in 0..MaxFailures
      /\ \E l \in Row \cup {None} :
           /\ log' = [log EXCEPT ![k] = l]
           /\ l # None => IF lost THEN l.status = "pending" ELSE l = [status |-> outcome, out |-> out]
  BY <1>0, RowOfEnd
<1>5. PICK l \in Row \cup {None} :
        /\ log' = [log EXCEPT ![k] = l]
        /\ l # None => IF lost THEN l.status = "pending" ELSE l = [status |-> outcome, out |-> out]
  BY <1>4
<1>6. CallOK(d, l, q, AllowedCredentials(config))
  <2>1. Live(d, AllowedCredentials(config)) /\ PlaceOK(d)
    BY <1>2 DEF Live, PlaceOK
  <2>2. NoSecretIn(d)
    BY <1>2 DEF NoSecretIn, RepeatedIn, IsShell, Repeated
  <2>3. Alone(d)
    BY <1>1, <1>2 DEF CallOK, Alone
  <2>4. LogSays(d, l)
    BY <1>2, <1>5, ConfigAssumption DEF LogSays
  <2>5. Runs(d, q)
    BY <1>1, <1>2 DEF CallOK, Runs
  <2> QED
    BY <2>1, <2>2, <2>3, <2>4, <2>5 DEF CallOK
<1> HIDE DEF c, d
<1> QED
  BY <1>2, <1>3, <1>4, <1>5, <1>6, OneCall

LEMMA FileStep == ASSUME ToolInv, NEW k \in Ks, FileCall(k) PROVE ToolInv'
<1> DEFINE c == calls[k]
<1> DEFINE r == calls[k].req
<1>1. Active(k) /\ c.req.tool \in FileTools
  BY DEF FileCall, Begun
<1>2. /\ c \in ToolCall /\ CallOK(c, log[k], proc[k], AllowedCredentials(config))
      /\ log[k] \in Row \cup {None} /\ proc[k] \in Proc
      /\ log = [log EXCEPT ![k] = log[k]] /\ proc = [proc EXCEPT ![k] = proc[k]]
      /\ c.at # "ended" /\ c.out = {}
  BY <1>1, UnderWay
<1> DEFINE place == IF HasConversation(k)
                    THEN IF c.who = "window" THEN WindowPlace(r) ELSE RunPlace(r) ELSE None
<1>3. \E outcome \in {"executed", "error"}, p \in {place, None} : EndIn(k, outcome, {}, p)
  BY DEF FileCall
<1>4. r.scope \in {"workspace", "persona", "vault"}
  BY <1>1, <1>2, RequestAssumption DEF ToolCall
<1>5. LandsIn(r) \in {RootOf(r.scope), None} /\ (IsVaultRoot(r) => r.scope = "vault")
  BY DEF LandsIn, IsVaultRoot
<1>6. \A p \in {place, None} :
        /\ p \in {RootOf(r.scope), None}
        /\ p # None /\ r.scope = "persona" /\ r.tool # "list_directory" =>
             r.path.name \in PersonaFiles
        /\ p # None /\ c.who # "window" => r.scope # "workspace"
  <2>1. CASE c.who = "window"
    BY <1>4, <1>5, <2>1 DEF WindowPlace, RootOf
  <2>2. CASE c.who # "window" /\ r.scope = "workspace"
    BY <2>2 DEF RunPlace, IsVaultRoot
  <2>3. CASE c.who # "window" /\ r.scope = "persona"
    BY <2>3 DEF RunPlace, IsVaultRoot, RootOf
  <2>4. CASE c.who # "window" /\ r.scope = "vault"
    BY <1>5, <2>4 DEF RunPlace, IsVaultRoot, RootOf
  <2> QED
    BY <1>4, <2>1, <2>2, <2>3, <2>4
<1>7. PICK outcome \in {"executed", "error"}, p \in {place, None}, lost \in BOOLEAN :
        /\ calls' = [calls EXCEPT ![k] = [c EXCEPT !.at = "ended", !.status = outcome,
                        !.lost = lost, !.place = p, !.seen = {}]]
        /\ LogEnd(k, lost, outcome, {})
  BY <1>3 DEF EndIn, Update
<1> DEFINE d == [c EXCEPT !.at = "ended", !.status = outcome, !.lost = lost, !.place = p, !.seen = {}]
<1>8. /\ p \in {RootOf(r.scope), None}
      /\ p # None /\ r.scope = "persona" /\ r.tool # "list_directory" =>
           r.path.name \in PersonaFiles
      /\ p # None /\ c.who # "window" => r.scope # "workspace"
      /\ p \in {"workspace", "persona", "category", None}
  BY <1>4, <1>6 DEF RootOf
<1> HIDE DEF place
<1>9. /\ d \in ToolCall /\ d.at = "ended" /\ d.status = outcome /\ d.out = {} /\ d.lost = lost
      /\ d.who = c.who /\ d.req = c.req /\ d.env = c.env /\ d.place = p
  BY <1>2, <1>8 DEF ToolCall
<1>10. /\ failures' \in 0..MaxFailures
       /\ \E l \in Row \cup {None} :
            /\ log' = [log EXCEPT ![k] = l]
            /\ l # None => IF lost THEN l.status = "pending" ELSE l = [status |-> outcome, out |-> {}]
  <2>1. {} \in SUBSET Secret
    OBVIOUS
  <2> QED
    BY <1>1, <1>7, <2>1, RowOfEnd
<1>11. PICK l \in Row \cup {None} :
         /\ log' = [log EXCEPT ![k] = l]
         /\ l # None => IF lost THEN l.status = "pending" ELSE l = [status |-> outcome, out |-> {}]
  BY <1>10
<1>12. CallOK(d, l, proc[k], AllowedCredentials(config))
  <2>1. Live(d, AllowedCredentials(config)) /\ NoSecretIn(d)
    BY <1>9 DEF Live, NoSecretIn
  <2>2. PlaceOK(d)
    BY <1>8, <1>9 DEF PlaceOK
  <2>3. Alone(d)
    BY <1>1, <1>9 DEF Alone, FileTools, Unattendable, BrowserTools, OrchestrationTools
  <2>4. LogSays(d, l)
    BY <1>9, <1>11, ConfigAssumption DEF LogSays
  <2>5. Runs(d, proc[k])
    <3>1. c.req.tool # "run_shell"
      BY <1>1 DEF FileTools
    <3> QED
      BY <1>2, <1>9, <3>1 DEF CallOK, Runs
  <2> QED
    BY <2>1, <2>2, <2>3, <2>4, <2>5 DEF CallOK
<1>13. DOMAIN jobs' = Jobs /\ Rest /\ proc' = [proc EXCEPT ![k] = proc[k]]
  BY <1>2 DEF FileCall, ToolInv, ToolTypeOK
<1>14. calls' = [calls EXCEPT ![k] = d]
  BY <1>7
<1> HIDE DEF c, d
<1> QED
  BY <1>2, <1>9, <1>10, <1>11, <1>12, <1>13, <1>14, OneCall

(* A call that has no process ends with nothing to tell.                       *)
LEMMA EndedBare ==
  ASSUME ToolInv, NEW k \in Ks, Active(k), calls[k].at # "waiting" \/ ~IsShell(k),
         NEW outcome \in {"executed", "error"}, End(k, outcome, {}),
         calls[k].who # "window" /\ calls[k].req.tool \in Unattendable => outcome = "error",
         UNCHANGED proc, DOMAIN jobs' = Jobs, Rest
  PROVE  ToolInv'
<1>1. /\ proc[k] \in Proc /\ proc' = [proc EXCEPT ![k] = proc[k]]
      /\ Runs(calls[k], proc[k]) /\ calls[k].at # "ended"
  BY UnderWay DEF CallOK
<1>2. proc[k].state = "none"
  BY <1>1 DEF Runs, IsShell
<1> QED
  BY <1>1, <1>2, CallEnds

LEMMA ScheduleStep == ASSUME ToolInv, NEW k \in Ks, ScheduleCall(k) PROVE ToolInv'
<1>1. Active(k) /\ calls[k].at # "waiting" /\ Rest /\ UNCHANGED proc
  BY DEF ScheduleCall, Begun
<1>2. DOMAIN jobs' = Jobs
  BY DEF ScheduleCall, ToolInv, ToolTypeOK
<1>3. \E outcome \in {"executed", "error"} : End(k, outcome, {})
  BY DEF ScheduleCall
<1>4. calls[k].req.tool \notin Unattendable
  BY DEF ScheduleCall, Begun, Unattendable, BrowserTools, OrchestrationTools
<1> QED
  BY <1>1, <1>2, <1>3, <1>4, EndedBare

LEMMA PlainStep == ASSUME ToolInv, NEW k \in Ks, PlainCall(k) PROVE ToolInv'
<1>1. Active(k) /\ calls[k].at # "waiting" /\ Rest /\ UNCHANGED proc
  BY DEF PlainCall, Begun
<1>2. DOMAIN jobs' = Jobs
  BY DEF PlainCall, ToolInv, ToolTypeOK
<1>3. \E outcome \in {"executed", "error"} :
        /\ End(k, outcome, {})
        /\ calls[k].who # "window" /\ calls[k].req.tool \in Unattendable => outcome = "error"
  BY DEF PlainCall, Begun, Unattendable, BrowserTools, OrchestrationTools
<1> QED
  BY <1>1, <1>2, <1>3, EndedBare

(* A call goes on to d, which has read and been given what it may.             *)
LEMMA GoesOn ==
  ASSUME ToolInv, NEW k \in Ks, Active(k), NEW stage \in {"allowed", "waiting"},
         NEW allowed \in SUBSET calls[k].seen, NEW env \in SUBSET Secret,
         \A s \in env : s[1] \in calls[k].seen,
         calls[k].who # "window" => calls[k].req.tool \notin Unattendable,
         calls' = [calls EXCEPT ![k] =
                     [calls[k] EXCEPT !.at = stage, !.allowed = allowed, !.env = env]],
         NEW q \in Proc, proc' = [proc EXCEPT ![k] = q],
         q.state \in {"queued", "running"} => stage = "waiting",
         IsShell(k) /\ stage = "waiting" => q.state # "none",
         q.state # "none" =>
           /\ IsShell(k) /\ stage = "waiting"
           /\ calls[k].req.cmd.ssh > 0 => Hardened(calls[k].req.cmd),
         UNCHANGED <<logVars, jobs>>, Rest
  PROVE  ToolInv'
<1> DEFINE c == calls[k]
<1> DEFINE d == [c EXCEPT !.at = stage, !.allowed = allowed, !.env = env]
<1>1. /\ c \in ToolCall /\ CallOK(c, log[k], proc[k], AllowedCredentials(config))
      /\ log[k] \in Row \cup {None} /\ log = [log EXCEPT ![k] = log[k]]
      /\ c.at # "ended" /\ c.status = None /\ c.out = {} /\ c.place = None
  BY UnderWay
<1>2. c.seen \subseteq Creds
  BY <1>1 DEF ToolCall
<1>3. /\ d \in ToolCall /\ d.at = stage /\ d.status = None /\ d.out = {} /\ d.allowed = allowed
      /\ d.who = c.who /\ d.req = c.req /\ d.env = env /\ d.place = None /\ d.seen = c.seen
  BY <1>1, <1>2 DEF ToolCall
<1>4. CallOK(d, log[k], q, AllowedCredentials(config))
  <2>1. AllowedCredentials(config) \subseteq c.seen
    BY <1>1 DEF CallOK, Live
  <2>2. Live(d, AllowedCredentials(config))
    BY <1>3, <2>1 DEF Live
  <2>3. NoSecretIn(d) /\ PlaceOK(d)
    BY <1>3 DEF NoSecretIn, PlaceOK
  <2>4. Alone(d) /\ LogSays(d, log[k])
    BY <1>1, <1>3 DEF CallOK, LogSays, Alone
  <2>5. Runs(d, q)
    BY <1>3 DEF Runs, IsShell
  <2> QED
    BY <2>2, <2>3, <2>4, <2>5 DEF CallOK
<1>5. /\ DOMAIN jobs' = Jobs /\ log' = [log EXCEPT ![k] = log[k]]
      /\ failures' \in 0..MaxFailures
  BY <1>1 DEF ToolInv, ToolTypeOK, logVars
<1> HIDE DEF c
<1>6. calls' = [calls EXCEPT ![k] = d]
  BY DEF c
<1> HIDE DEF d
<1> QED
  BY <1>1, <1>3, <1>4, <1>5, <1>6, OneCall

LEMMA AskStep == ASSUME ToolInv, NEW k \in Ks, AskOutside(k) PROVE ToolInv'
<1> DEFINE c == calls[k]
<1>1. /\ Active(k) /\ c.at = "begun" /\ c.req.tool # "run_shell" /\ ~IsShell(k)
      /\ c.who # "window" => c.req.tool \notin Unattendable
  BY DEF AskOutside, Begun, IsShell, Unattendable, BrowserTools, OrchestrationTools
<1>2. /\ c \in ToolCall /\ CallOK(c, log[k], proc[k], AllowedCredentials(config))
      /\ proc[k] \in Proc /\ proc = [proc EXCEPT ![k] = proc[k]]
  BY <1>1, UnderWay
<1>3. proc[k].state = "none"
  BY <1>1, <1>2 DEF CallOK, Runs
<1>4. /\ c.allowed \in SUBSET c.seen /\ c.env \in SUBSET Secret
      /\ \A s \in c.env : s[1] \in c.seen
  BY <1>1, <1>2 DEF CallOK, Live, ToolCall
<1>5. [c EXCEPT !.at = "waiting"]
        = [c EXCEPT !.at = "waiting", !.allowed = c.allowed, !.env = c.env]
  BY <1>2 DEF ToolCall
<1>6. /\ calls' = [calls EXCEPT ![k] = [c EXCEPT !.at = "waiting"]] /\ UNCHANGED <<logVars, proc, jobs>>
      /\ Rest
  BY DEF AskOutside, Update
<1>7. calls' = [calls EXCEPT ![k] =
                  [c EXCEPT !.at = "waiting", !.allowed = c.allowed, !.env = c.env]]
      /\ proc' = [proc EXCEPT ![k] = proc[k]]
  BY <1>2, <1>5, <1>6
<1> QED
  BY <1>1, <1>2, <1>3, <1>4, <1>6, <1>7, GoesOn

LEMMA ReadStep == ASSUME ToolInv, NEW k \in Ks, ReadAllowed(k) PROVE ToolInv'
<1> DEFINE c == calls[k]
<1> DEFINE new == IF HasConversation(k) THEN AllowedCredentials(config) ELSE {}
<1>1. /\ Active(k) /\ c.at = "begun" /\ Rest /\ UNCHANGED <<proc, jobs>>
      /\ c.who # "window" => c.req.tool \notin Unattendable
  BY DEF ReadAllowed, Begun, Unattendable, BrowserTools, OrchestrationTools
<1>2. CASE IsShell(k) /\ ~HasConversation(k)
  <2>1. End(k, "error", {})
    BY <1>2 DEF ReadAllowed
  <2>2. DOMAIN jobs' = Jobs
    BY <1>1 DEF ToolInv, ToolTypeOK
  <2> QED
    BY <1>1, <2>1, <2>2, EndedBare
<1>3. CASE ~(IsShell(k) /\ ~HasConversation(k))
  <2>1. /\ c \in ToolCall /\ CallOK(c, log[k], proc[k], AllowedCredentials(config))
        /\ proc[k] \in Proc /\ proc = [proc EXCEPT ![k] = proc[k]]
    BY <1>1, UnderWay
  <2>2. proc[k].state = "none"
    BY <1>1, <2>1 DEF CallOK, Runs
  <2>3. /\ new \in SUBSET c.seen /\ c.env \in SUBSET Secret
        /\ \A s \in c.env : s[1] \in c.seen
    BY <1>1, <2>1 DEF CallOK, Live, ToolCall
  <2>4. calls' = [calls EXCEPT ![k] = [c EXCEPT !.at = "allowed", !.allowed = new]]
        /\ UNCHANGED logVars
    BY <1>3 DEF ReadAllowed, Update
  <2> HIDE DEF new
  <2>5. [c EXCEPT !.at = "allowed", !.allowed = new]
          = [c EXCEPT !.at = "allowed", !.allowed = new, !.env = c.env]
    BY <2>1 DEF ToolCall
  <2>6. calls' = [calls EXCEPT ![k] = [c EXCEPT !.at = "allowed", !.allowed = new, !.env = c.env]]
        /\ proc' = [proc EXCEPT ![k] = proc[k]]
    BY <1>1, <2>1, <2>4, <2>5
  <2> QED
    BY <1>1, <2>1, <2>2, <2>3, <2>4, <2>6, GoesOn
<1> QED
  BY <1>2, <1>3

LEMMA SecretsAre ==
  ASSUME ToolInv, NEW S \in SUBSET Creds, Missing(S) = {}
  PROVE  SecretsOf(S) \in SUBSET Secret /\ \A s \in SecretsOf(S) : s[1] \in S
<1>1. mem \in [Creds -> (0..MaxCommands) \cup {None}]
  BY DEF ToolInv, ToolTypeOK
<1>2. \A c \in S : c \in Creds /\ mem[c] \in 0..MaxCommands
  BY <1>1 DEF Missing
<1> QED
  BY <1>2 DEF SecretsOf, Secret

LEMMA StartStep == ASSUME ToolInv, NEW k \in Ks, StartShell(k) PROVE ToolInv'
<1> DEFINE c == calls[k]
<1> DEFINE env == EnvEntries(c.allowed)
<1>1. /\ Active(k) /\ c.at = "allowed" /\ IsShell(k) /\ Rest /\ UNCHANGED jobs
      /\ c.req.tool \notin Unattendable
  BY DEF StartShell, IsShell, Unattendable, BrowserTools, OrchestrationTools
<1> DEFINE refused == \/ IsRefused(c.req.cmd, IsPosix)
                      \/ c.who # "window" /\ EnvFails(c.allowed)
<1>2. /\ c \in ToolCall /\ CallOK(c, log[k], proc[k], AllowedCredentials(config))
      /\ proc[k] \in Proc /\ proc \in [Ks -> Proc]
  BY <1>1, UnderWay DEF ToolInv, ToolTypeOK
<1>3. CASE refused
  <2>1. End(k, "error", {}) /\ UNCHANGED proc
    BY <1>3 DEF StartShell
  <2>2. DOMAIN jobs' = Jobs
    BY <1>1 DEF ToolInv, ToolTypeOK
  <2> QED
    BY <1>1, <2>1, <2>2, EndedBare
<1>4. CASE ~refused
  <2> DEFINE q == [proc[k] EXCEPT !.state = "queued"]
  <2>1. /\ calls' = [calls EXCEPT ![k] = [c EXCEPT !.at = "waiting", !.allowed = {}, !.env = env]]
        /\ proc' = [proc EXCEPT ![k] = q] /\ UNCHANGED logVars
    BY <1>2, <1>4 DEF StartShell, Update
  <2>2. c.allowed \subseteq c.seen /\ c.seen \subseteq Creds
    BY <1>1, <1>2 DEF CallOK, Live, ToolCall
  <2>3. env \in SUBSET Secret /\ \A s \in env : s[1] \in c.seen
    <3>1. CASE Missing(c.allowed) = {}
      <4>1. /\ SecretsOf(c.allowed) \in SUBSET Secret
            /\ \A s \in SecretsOf(c.allowed) : s[1] \in c.allowed
        BY <2>2, <3>1, SecretsAre
      <4> QED
        BY <2>2, <4>1 DEF EnvEntries, EnvFails
    <3>2. CASE Missing(c.allowed) # {}
      BY <3>2 DEF EnvEntries, EnvFails
    <3> QED
      BY <3>1, <3>2
  <2>4. c.req.cmd.ssh > 0 => Hardened(c.req.cmd)
    <3>1. /\ c.req.cmd.args \in Seq(Token) /\ c.req.cmd.ssh \in Nat
          /\ c.req.cmd.ssh > 0 => c.req.cmd.word
      BY <1>1, <1>2, RequestAssumption DEF ToolCall, IsShell
    <3> QED
      BY <1>4, <3>1, NotRefused
  <2>5. q \in Proc /\ q.state = "queued"
    BY <1>2 DEF Proc
  <2> HIDE DEF env, q
  <2> QED
    BY <1>1, <2>1, <2>3, <2>4, <2>5, GoesOn
<1> QED
  BY <1>3, <1>4

LEMMA TypeStep == ASSUME ToolInv, NEW k \in Ks, TypeSecrets(k) PROVE ToolInv'
<1> DEFINE c == calls[k]
<1> DEFINE uses == c.req.uses
<1>1. /\ Active(k) /\ c.at = "allowed" /\ ~IsShell(k) /\ Rest /\ UNCHANGED <<proc, jobs>>
      /\ c.who # "window" => c.req.tool \notin Unattendable
  BY UnderWay DEF TypeSecrets, CallOK, Alone
<1>2. /\ c \in ToolCall /\ CallOK(c, log[k], proc[k], AllowedCredentials(config))
      /\ proc[k] \in Proc /\ proc = [proc EXCEPT ![k] = proc[k]]
  BY <1>1, UnderWay
<1>3. CASE ~(uses \subseteq c.allowed /\ Missing(uses) = {})
  <2>1. End(k, "error", {})
    BY <1>3 DEF TypeSecrets
  <2>2. DOMAIN jobs' = Jobs
    BY <1>1 DEF ToolInv, ToolTypeOK
  <2> QED
    BY <1>1, <2>1, <2>2, EndedBare
<1>4. CASE uses \subseteq c.allowed /\ Missing(uses) = {}
  <2> DEFINE env == SecretsOf(uses)
  <2>1. /\ calls' = [calls EXCEPT ![k] = [c EXCEPT !.at = "waiting", !.allowed = {}, !.env = env]]
        /\ UNCHANGED logVars
    BY <1>4 DEF TypeSecrets, Update
  <2>2. c.allowed \subseteq c.seen /\ c.seen \subseteq Creds
    BY <1>1, <1>2 DEF CallOK, Live, ToolCall
  <2>3. env \in SUBSET Secret /\ \A s \in env : s[1] \in uses
    BY <1>4, <2>2, SecretsAre
  <2>4. proc[k].state = "none"
    BY <1>1, <1>2 DEF CallOK, Runs
  <2>5. \A s \in env : s[1] \in c.seen
    BY <1>4, <2>2, <2>3
  <2>6. proc' = [proc EXCEPT ![k] = proc[k]]
    BY <1>1, <1>2
  <2> HIDE DEF env
  <2> QED
    BY <1>1, <1>2, <2>1, <2>3, <2>4, <2>5, <2>6, GoesOn
<1> QED
  BY <1>3, <1>4

LEMMA AnswerStep == ASSUME ToolInv, NEW k \in Ks, Answer(k) PROVE ToolInv'
<1>1. /\ Active(k) /\ ~IsShell(k) /\ Rest /\ UNCHANGED <<proc, jobs>>
      /\ calls[k].who # "window" => calls[k].req.tool \notin Unattendable
  BY UnderWay DEF Answer, CallOK, Alone
<1>2. /\ calls[k] \in ToolCall /\ proc[k] \in Proc /\ proc = [proc EXCEPT ![k] = proc[k]]
      /\ Runs(calls[k], proc[k])
  BY <1>1, UnderWay DEF CallOK
<1>3. PICK outcome \in {"executed", "error"}, seen \in Printable(k) :
        End(k, outcome, Redact(seen, calls[k].env))
  BY DEF Answer
<1> DEFINE out == Redact(seen, calls[k].env)
<1>4. out \in SUBSET Secret /\ out \cap calls[k].env = {}
  BY <1>2 DEF Printable, Redact, ToolCall
<1>5. proc[k].state = "none"
  BY <1>1, <1>2 DEF Runs, IsShell
<1>6. DOMAIN jobs' = Jobs /\ proc' = [proc EXCEPT ![k] = proc[k]]
  BY <1>1, <1>2 DEF ToolInv, ToolTypeOK
<1> HIDE DEF out
<1>7. End(k, outcome, out)
  BY <1>3 DEF out
<1> QED
  BY <1>1, <1>2, <1>4, <1>5, <1>6, <1>7, CallEnds

(* A process that is there goes to state q.                                    *)
LEMMA ProcStep ==
  ASSUME ToolInv, NEW k \in Ks, proc[k].state # "none", NEW q \in Proc,
         q.state # "none",
         q.state \in {"queued", "running"} =>
           proc[k].state \in {"queued", "running"} /\ q.stray = proc[k].stray,
         proc' = [proc EXCEPT ![k] = q], UNCHANGED <<calls, logVars, jobs>>, Rest
  PROVE  ToolInv'
<1> DEFINE c == calls[k]
<1>1. c # None
  BY DEF ToolInv, CallsOK, NoProc
<1>2. /\ c \in ToolCall /\ log[k] \in Row \cup {None} /\ DOMAIN jobs = Jobs
      /\ CallOK(c, log[k], proc[k], AllowedCredentials(config))
      /\ calls = [calls EXCEPT ![k] = calls[k]] /\ log = [log EXCEPT ![k] = log[k]]
  BY <1>1 DEF ToolInv, ToolTypeOK, CallsOK
<1>3. CallOK(c, log[k], q, AllowedCredentials(config))
  <2>1. Runs(c, q)
    BY <1>2 DEF CallOK, Runs
  <2> QED
    BY <1>2, <2>1 DEF CallOK
<1>4. /\ calls' = [calls EXCEPT ![k] = c] /\ log' = [log EXCEPT ![k] = log[k]]
      /\ DOMAIN jobs' = Jobs /\ failures' \in 0..MaxFailures
  BY <1>2 DEF logVars, ToolInv, ToolTypeOK
<1> HIDE DEF c
<1> QED
  BY <1>2, <1>3, <1>4, OneCall

LEMMA SpawnStep == ASSUME ToolInv, NEW k \in Ks, Spawn(k) PROVE ToolInv'
<1>1. /\ proc[k].state = "queued" /\ UNCHANGED <<calls, logVars, jobs>> /\ Rest
      /\ proc[k] \in Proc
  BY DEF Spawn, ToolInv, ToolTypeOK
<1>2. CASE \E printed \in Printable(k) :
             proc' = [proc EXCEPT ![k].state = "running", ![k].printed = printed]
  <2>1. PICK printed \in Printable(k) :
          proc' = [proc EXCEPT ![k].state = "running", ![k].printed = printed]
    BY <1>2
  <2> DEFINE q == [proc[k] EXCEPT !.state = "running", !.printed = printed]
  <2>2. calls[k] \in ToolCall
    BY <1>1 DEF ToolInv, CallsOK, NoProc, ToolTypeOK
  <2>3. printed \subseteq Secret
    BY <2>2 DEF Printable, ToolCall
  <2>4. q \in Proc /\ q.state = "running" /\ q.stray = proc[k].stray
    BY <1>1, <2>3 DEF Proc
  <2>5. proc' = [proc EXCEPT ![k] = q]
    BY <2>1 DEF ToolInv, ToolTypeOK
  <2> HIDE DEF q
  <2> QED
    BY <1>1, <2>4, <2>5, ProcStep
<1>3. CASE proc' = [proc EXCEPT ![k].state = "exited", ![k].pid = TRUE]
  <2> DEFINE q == [proc[k] EXCEPT !.state = "exited", !.pid = TRUE]
  <2>1. q \in Proc /\ q.state = "exited" /\ proc' = [proc EXCEPT ![k] = q]
    BY <1>1, <1>3 DEF Proc, ToolInv, ToolTypeOK
  <2> HIDE DEF q
  <2> QED
    BY <1>1, <2>1, ProcStep
<1> QED
  BY <1>2, <1>3 DEF Spawn

LEMMA PidStep == ASSUME ToolInv, NEW k \in Ks, StorePid(k) \/ Exit(k) PROVE ToolInv'
<1>1. /\ proc[k].state \in {"running", "exited"} /\ UNCHANGED <<calls, logVars, jobs>> /\ Rest
      /\ proc[k] \in Proc
  BY DEF StorePid, Exit, ToolInv, ToolTypeOK
<1>2. CASE StorePid(k)
  <2> DEFINE q == [proc[k] EXCEPT !.pid = TRUE]
  <2>1. q \in Proc /\ q.state = proc[k].state /\ q.stray = proc[k].stray /\ proc[k].state # "none"
    BY <1>1 DEF Proc
  <2>2. proc' = [proc EXCEPT ![k] = q]
    BY <1>2 DEF StorePid, ToolInv, ToolTypeOK
  <2> HIDE DEF q
  <2> QED
    BY <1>1, <2>1, <2>2, ProcStep
<1>3. CASE Exit(k)
  <2> DEFINE q == [proc[k] EXCEPT !.state = "exited"]
  <2>1. q \in Proc /\ q.state = "exited" /\ proc' = [proc EXCEPT ![k] = q]
    BY <1>1, <1>3 DEF Exit, Proc, ToolInv, ToolTypeOK
  <2> HIDE DEF q
  <2> QED
    BY <1>1, <2>1, ProcStep
<1> QED
  BY <1>2, <1>3

LEMMA FinishStep == ASSUME ToolInv, NEW k \in Ks, Finish(k) PROVE ToolInv'
<1> DEFINE c == calls[k]
<1>1. /\ Active(k) /\ IsShell(k) /\ Done(k) /\ Rest /\ UNCHANGED jobs
      /\ calls[k].req.tool \notin Unattendable
  BY DEF Finish, IsShell, Unattendable, BrowserTools, OrchestrationTools
<1>2. /\ c \in ToolCall /\ proc[k] \in Proc /\ DOMAIN jobs' = Jobs
  BY <1>1, UnderWay DEF ToolInv, ToolTypeOK
<1> DEFINE q == [proc[k] EXCEPT !.printed = {}]
<1>3. q \in Proc /\ q.state = "exited" /\ proc' = [proc EXCEPT ![k] = q]
  BY <1>1, <1>2 DEF Finish, Done, Proc, ToolInv, ToolTypeOK
<1>4. proc[k].state # "none"
  BY <1>1 DEF Done
<1>5. CASE End(k, "error", {})
  <2>1. {} \in SUBSET Secret /\ {} \cap calls[k].env = {} /\ "error" \in {"executed", "error"}
    OBVIOUS
  <2> HIDE DEF q
  <2> QED
    BY <1>1, <1>2, <1>3, <1>4, <1>5, <2>1, CallEnds
<1>6. CASE End(k, "executed", Redact(proc[k].printed, c.env) \cup Repeated(k))
  <2> DEFINE out == Redact(proc[k].printed, c.env) \cup Repeated(k)
  <2>1. Repeated(k) \subseteq c.env
    BY DEF Repeated
  <2>2. out \in SUBSET Secret /\ (Repeated(k) = {} => out \cap c.env = {})
    BY <1>2, <2>1 DEF Redact, Proc, ToolCall
  <2> HIDE DEF out, q
  <2>3. End(k, "executed", out)
    BY <1>6 DEF out
  <2> QED
    BY <1>1, <1>2, <1>3, <1>4, <2>2, <2>3, CallEnds
<1> QED
  BY <1>5, <1>6 DEF Finish

LEMMA ShellTimeOutStep == ASSUME ToolInv, NEW k \in Ks, ShellTimeOut(k) PROVE ToolInv'
<1> DEFINE q == [proc[k] EXCEPT !.printed = {},
                   !.state = IF ~proc[k].pid \/ @ = "exited" THEN @ ELSE "killed",
                   !.stray = ~proc[k].pid]
<1>1. /\ Active(k) /\ calls[k].at = "waiting" /\ IsShell(k) /\ End(k, "error", {}) /\ Rest
      /\ UNCHANGED jobs
  BY DEF ShellTimeOut, Waits, ShellExpired
<1>2. proc[k] \in Proc /\ DOMAIN jobs' = Jobs /\ Runs(calls[k], proc[k])
  BY <1>1, UnderWay DEF ToolInv, ToolTypeOK, CallOK
<1>3. /\ q \in Proc /\ (q.state \in {"queued", "running"} => q.stray)
      /\ proc' = [proc EXCEPT ![k] = q]
  BY <1>2 DEF ShellTimeOut, Proc, ToolInv, ToolTypeOK
<1>4. proc[k].state # "none"
  BY <1>1, <1>2 DEF Runs, IsShell
<1>5. {} \in SUBSET Secret /\ {} \cap calls[k].env = {} /\ "error" \in {"executed", "error"}
  OBVIOUS
<1> HIDE DEF q
<1> QED
  BY <1>1, <1>2, <1>3, <1>4, <1>5, CallEnds

(* The timeout around a call never meets run_shell, whose own comes first.     *)
LEMMA TimeOutStep == ASSUME ToolInv, NEW k \in Ks, TimeOut(k) PROVE ToolInv'
<1>1. /\ Active(k) /\ End(k, "error", {}) /\ Rest /\ UNCHANGED <<proc, jobs>>
      /\ calls[k].age >= LimitOf(k) /\ ~(IsShell(k) /\ ShellExpired(k))
  BY DEF TimeOut, Waits
<1>2. calls[k] \in ToolCall /\ DOMAIN jobs' = Jobs
  BY <1>1, UnderWay DEF ToolInv, ToolTypeOK
<1>3. ~IsShell(k)
  <2>1. SUFFICES ASSUME IsShell(k) PROVE FALSE
    OBVIOUS
  <2>2. LimitOf(k) = CommandTimeout
    BY <2>1 DEF LimitOf, IsShell, BrowserTools
  <2>3. calls[k].req.asked \in Int /\ calls[k].age \in Nat
    BY <1>2, <2>1, RequestAssumption DEF ToolCall, IsShell
  <2>4. Clamp(calls[k].req.asked) \in Int /\ Clamp(calls[k].req.asked) <= MaxTimeout
    BY <2>3, ToolRunAssumption DEF Clamp
  <2>5. calls[k].age >= Clamp(calls[k].req.asked)
    BY <1>1, <2>2, <2>3, <2>4, ToolRunAssumption
  <2> QED
    BY <1>1, <2>1, <2>5 DEF ShellExpired
<1> QED
  BY <1>1, <1>2, <1>3, EndedBare

-----------------------------------------------------------------------------
(* Steps of all calls, of the runs and of the user.                            *)

(* Whatever a step changes of all calls is right when it is for each.          *)
LEMMA EachCall ==
  ASSUME CallsOK,
         \A k \in Ks : calls[k] = None => calls'[k] = None /\ log'[k] = None /\ proc'[k] = NoProc,
         \A k \in Ks : calls[k] # None =>
           calls'[k] # None
             /\ CallOK(calls'[k], log'[k], proc'[k], AllowedCredentials(config'))
  PROVE  CallsOK'
BY DEF CallsOK

LEMMA OneIs ==
  ASSUME ToolInv, NEW k \in Ks, calls[k] # None
  PROVE  /\ calls[k] \in ToolCall /\ log[k] \in Row \cup {None} /\ proc[k] \in Proc
         /\ CallOK(calls[k], log[k], proc[k], AllowedCredentials(config))
BY DEF ToolInv, ToolTypeOK, CallsOK

LEMMA TickStep == ASSUME ToolInv, Tick PROVE ToolInv'
<1>1. /\ UNCHANGED <<cfgVars, credVars, cmd, conv, run, commands, logVars, proc, jobs>>
      /\ calls' = [k \in Ks |-> IF Waits(k) /\ calls[k].age <= LimitOf(k)
                                THEN [calls[k] EXCEPT !.age = @ + 1] ELSE calls[k]]
  BY DEF Tick, Rest
<1>2. ASSUME NEW k \in Ks, calls[k] = None PROVE calls'[k] = None
  BY <1>1, <1>2 DEF Waits, Active
<1>3. ASSUME NEW k \in Ks, calls[k] # None
      PROVE  /\ calls'[k] \in ToolCall
             /\ CallOK(calls'[k], log[k], proc[k], AllowedCredentials(config))
  <2> DEFINE c == calls[k]
  <2> DEFINE d == [c EXCEPT !.age = @ + 1]
  <2>1. c \in ToolCall /\ CallOK(c, log[k], proc[k], AllowedCredentials(config))
    BY <1>3, OneIs
  <2>2. CASE calls'[k] = c
    BY <2>1, <2>2
  <2>3. CASE calls'[k] = d
    <3>1. /\ d \in ToolCall /\ d.at = c.at /\ d.status = c.status /\ d.out = c.out
          /\ d.allowed = c.allowed /\ d.who = c.who /\ d.req = c.req /\ d.env = c.env
          /\ d.place = c.place /\ d.seen = c.seen /\ d.lost = c.lost
      BY <2>1 DEF ToolCall
    <3> HIDE DEF d
    <3>2. CallOK(d, log[k], proc[k], AllowedCredentials(config))
      BY <2>1, <3>1 DEF CallOK, Live, NoSecretIn, RepeatedIn, PlaceOK, LogSays, Runs, Alone
    <3> QED
      BY <2>3, <3>1, <3>2
  <2> QED
    BY <1>1, <2>2, <2>3
<1>4. CallsOK'
  <2>1. config' = config /\ log' = log /\ proc' = proc
    BY <1>1 DEF cfgVars, logVars
  <2>2. CallsOK /\ (\A k \in Ks : calls[k] = None => log[k] = None /\ proc[k] = NoProc)
    BY DEF ToolInv, CallsOK
  <2>3. \A k \in Ks : calls[k] # None => calls'[k] # None
    BY <1>3, ConfigAssumption
  <2> QED
    BY <1>2, <1>3, <2>1, <2>2, <2>3, EachCall
<1>5. ToolTypeOK'
  <2>1. calls' \in [Ks -> ToolCall \cup {None}]
    BY <1>1, <1>2, <1>3
  <2> QED
    BY <1>1, <2>1 DEF ToolInv, ToolTypeOK, cfgVars, credVars, logVars
<1>6. StoresOK'
  BY <1>1 DEF ToolInv, StoresOK, Agrees, HalfDone, Changes, credVars
<1> QED
  BY <1>4, <1>5, <1>6 DEF ToolInv

LEMMA CrashStep == ASSUME ToolInv, Crash PROVE ToolInv'
<1>1. /\ calls' = [k \in Ks |-> IF Active(k)
                     THEN [calls[k] EXCEPT !.at = "ended", !.age = 0, !.seen = {}] ELSE calls[k]]
      /\ proc' = [k \in Ks |-> CASE proc[k].state = "queued"  -> NoProc
                             [] proc[k].state = "running" -> [proc[k] EXCEPT !.stray = TRUE]
                             [] OTHER                     -> proc[k]]
      /\ mem' = disk
      /\ leftover' = leftover \cup
                       IF cmd # None /\ cmd.op \in {"add", "remove"} THEN {cmd.id} ELSE {}
      /\ cmd' = None /\ run' = None /\ view' = None /\ failures < MaxFailures
      /\ failures' = failures + 1 /\ UNCHANGED <<config, meta, disk, conv, log, jobs, commands>>
  BY DEF Crash, Fails
<1>2. NoProc \in Proc /\ NoProc.state = "none"
  BY DEF NoProc, Proc
<1>3. ASSUME NEW k \in Ks
      PROVE  /\ proc'[k] \in Proc /\ proc'[k].state \notin {"queued"}
             /\ proc'[k].state = "running" => proc'[k].stray
             /\ proc'[k].state # "none" => proc[k].state # "none"
             /\ proc[k] = NoProc => proc'[k] = NoProc
  <2>1. proc[k] \in Proc
    BY DEF ToolInv, ToolTypeOK
  <2>2. CASE proc[k].state = "queued"
    BY <1>1, <1>2, <2>2
  <2>3. CASE proc[k].state = "running"
    <3>1. proc'[k] = [proc[k] EXCEPT !.stray = TRUE]
      BY <1>1, <2>3
    <3> QED
      BY <1>2, <2>1, <2>3, <3>1 DEF Proc
  <2>4. CASE proc[k].state \notin {"queued", "running"}
    <3>1. proc'[k] = proc[k]
      BY <1>1, <2>4
    <3> QED
      BY <2>1, <2>4, <3>1
  <2> QED
    BY <2>2, <2>3, <2>4
<1>4. ASSUME NEW k \in Ks, calls[k] # None
      PROVE  /\ calls'[k] \in ToolCall
             /\ CallOK(calls'[k], log[k], proc'[k], AllowedCredentials(config))
  <2> DEFINE c == calls[k]
  <2> DEFINE d == calls'[k]
  <2>1. c \in ToolCall /\ CallOK(c, log[k], proc[k], AllowedCredentials(config))
    BY <1>4, OneIs
  <2>2. /\ d \in ToolCall /\ d.at = "ended" /\ d.status = c.status /\ d.out = c.out
        /\ d.who = c.who /\ d.req = c.req /\ d.env = c.env /\ d.place = c.place /\ d.lost = c.lost
    <3>1. CASE Active(k)
      <4> DEFINE e == [c EXCEPT !.at = "ended", !.age = 0, !.seen = {}]
      <4>1. d = e
        BY <1>1, <3>1
      <4>2. /\ e \in ToolCall /\ e.at = "ended" /\ e.status = c.status /\ e.out = c.out
            /\ e.who = c.who /\ e.req = c.req /\ e.env = c.env /\ e.place = c.place /\ e.lost = c.lost
        BY <2>1 DEF ToolCall
      <4> HIDE DEF d, e
      <4> QED
        BY <4>1, <4>2
    <3>2. CASE ~Active(k)
      BY <1>1, <1>4, <2>1, <3>2 DEF Active
    <3> QED
      BY <3>1, <3>2
  <2> HIDE DEF d
  <2>3. Live(d, AllowedCredentials(config)) /\ NoSecretIn(d) /\ PlaceOK(d) /\ Alone(d)
    BY <2>1, <2>2 DEF CallOK, Live, NoSecretIn, RepeatedIn, PlaceOK, Alone
  <2>4. LogSays(d, log[k])
    BY <2>1, <2>2 DEF CallOK, LogSays, Live
  <2>5. Runs(d, proc'[k])
    BY <1>3, <2>1, <2>2 DEF CallOK, Runs
  <2> QED
    BY <2>2, <2>3, <2>4, <2>5 DEF CallOK, d
<1>5. CallsOK'
  <2>1. CallsOK /\ (\A k \in Ks : calls[k] = None => log[k] = None /\ proc[k] = NoProc)
    BY DEF ToolInv, CallsOK
  <2>2. \A k \in Ks : calls[k] = None => calls'[k] = None
    BY <1>1 DEF Active
  <2>3. \A k \in Ks : calls[k] # None => calls'[k] # None
    BY <1>4, ConfigAssumption
  <2>4. config' = config /\ log' = log
    BY <1>1
  <2> QED
    BY <1>3, <1>4, <2>1, <2>2, <2>3, <2>4, EachCall
<1>6. ToolTypeOK'
  <2>1. calls' \in [Ks -> ToolCall \cup {None}]
    <3>1. \A k \in Ks : calls'[k] \in ToolCall \cup {None}
      BY <1>1, <1>4 DEF Active
    <3> QED
      BY <1>1, <3>1
  <2>2. proc' \in [Ks -> Proc]
    BY <1>1, <1>3
  <2>3. leftover' \subseteq Creds
    BY <1>1 DEF ToolInv, ToolTypeOK, Writing, Changing
  <2>4. failures' \in 0..MaxFailures
    BY Counted DEF Crash, ToolInv
  <2> QED
    BY <1>1, <2>1, <2>2, <2>3, <2>4 DEF ToolInv, ToolTypeOK
<1>7. StoresOK'
  BY <1>1 DEF ToolInv, StoresOK, Agrees, HalfDone, Changes
<1> QED
  BY <1>5, <1>6, <1>7 DEF ToolInv

(* A call begins.                                                              *)
LEMMA BeginStep ==
  ASSUME ToolInv, NEW k \in Ks, calls[k] = None, NEW who \in Roles \cup {"window"},
         NEW r \in Requests, calls' = [calls EXCEPT ![k] = Call(who, r)],
         NEW l \in {None, [status |-> "pending", out |-> {}]}, log' = [log EXCEPT ![k] = l],
         UNCHANGED <<proc, jobs, failures>>, Rest
  PROVE  ToolInv'
<1> DEFINE c == Call(who, r)
<1>1. /\ proc[k] = NoProc /\ proc' = [proc EXCEPT ![k] = NoProc] /\ DOMAIN jobs' = Jobs
      /\ failures' \in 0..MaxFailures
  BY DEF ToolInv, ToolTypeOK, CallsOK
<1>2. NoProc \in Proc /\ NoProc.state = "none" /\ l \in Row \cup {None}
  BY DEF NoProc, Proc, Row
<1>3. AllowedCredentials(config) \subseteq Creds
  BY AllowedAre DEF ToolInv, ToolTypeOK
<1>4. /\ c \in ToolCall /\ c.at = "begun" /\ c.status = None /\ c.out = {} /\ c.allowed = {}
      /\ c.who = who /\ c.req = r /\ c.env = {} /\ c.place = None
      /\ c.seen = AllowedCredentials(config)
  BY <1>3 DEF Call, ToolCall
<1>5. CallOK(c, l, NoProc, AllowedCredentials(config))
  <2> HIDE DEF c
  <2>1. Live(c, AllowedCredentials(config)) /\ NoSecretIn(c) /\ PlaceOK(c)
    BY <1>4 DEF Live, NoSecretIn, PlaceOK
  <2>2. LogSays(c, l) /\ Runs(c, NoProc) /\ Alone(c)
    BY <1>2, <1>4, ConfigAssumption DEF LogSays, Runs, Alone
  <2> QED
    BY <1>4, <2>1, <2>2 DEF CallOK
<1> HIDE DEF c
<1>6. calls' = [calls EXCEPT ![k] = c]
  BY DEF c
<1> QED
  BY <1>1, <1>2, <1>4, <1>5, <1>6, OneCall

LEMMA CallSteps == ASSUME ToolInv, NEW r \in Requests, WindowCall(r) \/ RunCall(r) PROVE ToolInv'
<1> DEFINE k == CHOOSE k \in Free : \A j \in Free : k <= j
<1>1. k \in Ks /\ calls[k] = None
  BY FirstFree DEF WindowCall, RunCall
<1>2. /\ log \in [Ks -> Row \cup {None}] /\ log[k] = None /\ log = [log EXCEPT ![k] = log[k]]
  BY <1>1 DEF ToolInv, ToolTypeOK, CallsOK
<1>3. CASE WindowCall(r)
  <2>1. /\ calls' = [calls EXCEPT ![k] = Call("window", r)]
        /\ log' = [log EXCEPT ![k] = [status |-> "pending", out |-> {}]]
        /\ Rest /\ UNCHANGED <<proc, jobs, failures>>
    BY <1>3 DEF WindowCall, Update
  <2> HIDE DEF k
  <2> QED
    BY <1>1, <2>1, BeginStep
<1>4. CASE RunCall(r)
  <2>1. /\ calls' = [calls EXCEPT ![k] = Call(run, r)]
        /\ Rest /\ UNCHANGED <<logVars, proc, jobs>>
    BY <1>4 DEF RunCall, Update
  <2>2. run \in Roles
    BY <1>4 DEF RunCall, ToolInv, ToolTypeOK
  <2> HIDE DEF k
  <2>3. log' = [log EXCEPT ![k] = None] /\ UNCHANGED failures
    BY <1>2, <2>1 DEF logVars
  <2> QED
    BY <1>1, <2>1, <2>2, <2>3, BeginStep
<1> QED
  BY <1>3, <1>4

LEMMA RunSteps == ASSUME ToolInv, EndRun \/ \E role \in Roles : StartRun(role) PROVE ToolInv'
<1>1. UNCHANGED <<cfgVars, credVars, cmd, conv, callVars, jobs, failures>>
  BY DEF StartRun, EndRun
<1>2. commands' \in 0..MaxCommands
  <2>1. commands \in 0..MaxCommands /\ MaxCommands \in Nat
    BY ToolRunAssumption DEF ToolInv, ToolTypeOK
  <2> QED
    BY <2>1 DEF StartRun, EndRun
<1>3. run' \in Roles \cup {None}
  BY DEF StartRun, EndRun
<1>4. ToolTypeOK'
  BY <1>1, <1>2, <1>3 DEF ToolInv, ToolTypeOK, cfgVars, credVars, callVars
<1>5. CallsOK' /\ StoresOK'
  BY <1>1 DEF ToolInv, CallsOK, StoresOK, Agrees, HalfDone, Changes, cfgVars, credVars, callVars
<1> QED
  BY <1>3, <1>4, <1>5 DEF ToolInv

LEMMA DeleteStep == ASSUME ToolInv, DeleteConversation PROVE ToolInv'
<1>1. /\ log' = [k \in Ks |-> None]
      /\ UNCHANGED <<cfgVars, credVars, cmd, run, calls, proc, jobs, commands, failures>>
  BY DEF DeleteConversation
<1>2. ToolTypeOK'
  BY <1>1 DEF ToolInv, ToolTypeOK, cfgVars, credVars
<1>3. CallsOK'
  <2>1. ASSUME NEW k \in Ks, calls[k] # None
        PROVE  CallOK(calls[k], None, proc[k], AllowedCredentials(config))
    BY <2>1, OneIs DEF CallOK, LogSays
  <2> QED
    BY <1>1, <2>1 DEF ToolInv, CallsOK, cfgVars
<1>4. StoresOK'
  BY <1>1 DEF ToolInv, StoresOK, Agrees, HalfDone, Changes, credVars
<1> QED
  BY <1>2, <1>3, <1>4 DEF ToolInv

LEMMA DefaultIs ==
  /\ DefaultConfig \in Config /\ DefaultConfig.version = 2 /\ DefaultConfig.allowed = {}
  /\ \A n \in Names : IsOn(DefaultConfig, n) => DefaultConfig.tools[n].tier = DefaultTier(n)
<1>1. \A n : DefaultEnabled(n) \in BOOLEAN /\ DefaultTier(n) \in {"auto", "confirm"}
  BY DEF DefaultEnabled, DefaultTier
<1>2. \A n \in Names : [on |-> DefaultEnabled(n), tier |-> DefaultTier(n)] \in Entry
  BY <1>1 DEF Entry
<1>3. DefaultConfig.tools \in [Names -> Entry \cup {None}]
  BY <1>2 DEF DefaultConfig
<1>4. /\ DefaultConfig = [version |-> 2, tools |-> DefaultConfig.tools, allowed |-> {}]
      /\ DefaultConfig.version = 2 /\ DefaultConfig.allowed = {}
  BY DEF DefaultConfig
<1>5. DefaultConfig \in Config
  BY <1>3, <1>4 DEF Config
<1>6. ASSUME NEW n \in Names, IsOn(DefaultConfig, n)
      PROVE  DefaultConfig.tools[n].tier = DefaultTier(n)
  <2>1. DefaultConfig.tools[n] # None
    BY <1>6 DEF IsOn
  <2>2. DefaultConfig.tools[n] = [on |-> DefaultEnabled(n), tier |-> DefaultTier(n)]
    BY <2>1 DEF DefaultConfig
  <2> QED
    BY <2>2
<1> QED
  BY <1>4, <1>5, <1>6

(* A write of a configuration begins, or cannot.                               *)
LEMMA StartWriteStep ==
  ASSUME ToolInv, cmd = None, NEW c \in Config, c.version = 2, StartWrite(c), view' = c,
         commands' \in 0..MaxCommands,
         UNCHANGED <<credVars, conv, run, callVars, jobs>>
  PROVE  ToolInv'
<1>1. failures' \in 0..MaxFailures
  BY Counted DEF StartWrite, ToolInv, ToolTypeOK
<1>2. \/ config' = Torn /\ cmd' = [op |-> "write", new |-> c]
      \/ config' = config /\ cmd' = None
  BY DEF StartWrite
<1>3. cmd' \in Writing \cup {None} /\ (cmd' # None => cmd'.op = "write")
  BY <1>2 DEF Writing
<1>4. ToolTypeOK'
  BY <1>1, <1>2, <1>3 DEF ToolInv, ToolTypeOK, credVars, callVars
<1>5. CallsOK'
  <2>1. AllowedCredentials(config') \subseteq AllowedCredentials(config)
    BY <1>2 DEF AllowedCredentials
  <2>2. ASSUME NEW k \in Ks, calls[k] # None
        PROVE  CallOK(calls[k], log[k], proc[k], AllowedCredentials(config'))
    <3>1. CallOK(calls[k], log[k], proc[k], AllowedCredentials(config))
      BY <2>2, OneIs
    <3> QED
      BY <2>1, <3>1 DEF CallOK, Live
  <2> QED
    BY <2>2 DEF ToolInv, CallsOK, callVars
<1>6. StoresOK'
  BY <1>3 DEF ToolInv, StoresOK, Agrees, HalfDone, Changes, credVars
<1> QED
  BY <1>4, <1>5, <1>6 DEF ToolInv

LEMMA ReadConfigStep == ASSUME ToolInv, ReadConfig PROVE ToolInv'
<1>1. /\ cmd = None /\ view' = IF config = Torn THEN DefaultConfig ELSE Normalize(config)
      /\ UNCHANGED <<credVars, conv, run, callVars, jobs, commands>>
  BY DEF ReadConfig
<1>2. PICK v : v = view'
  OBVIOUS
<1>3. v \in Config /\ v.version = 2
  BY <1>1, <1>2, DefaultIs, NormalizeIs DEF ToolInv, ToolTypeOK
<1>4. commands' \in 0..MaxCommands
  BY <1>1 DEF ToolInv, ToolTypeOK
<1>5. CASE StartWrite(v)
  BY <1>1, <1>2, <1>3, <1>4, <1>5, StartWriteStep
<1>6. CASE UNCHANGED <<config, cmd, failures>>
  <2>1. ToolTypeOK'
    BY <1>1, <1>2, <1>3, <1>6 DEF ToolInv, ToolTypeOK, credVars, callVars
  <2>2. CallsOK'
    BY <1>1, <1>6 DEF ToolInv, CallsOK, callVars
  <2>3. StoresOK'
    BY <1>1, <1>6 DEF ToolInv, StoresOK, Agrees, HalfDone, Changes, credVars
  <2> QED
    BY <2>1, <2>2, <2>3 DEF ToolInv
<1> QED
  BY <1>2, <1>5, <1>6 DEF ReadConfig

LEMMA WriteConfigStep == ASSUME ToolInv, WriteConfig PROVE ToolInv'
<1>1. /\ cmd = None /\ StartWrite(view')
      /\ UNCHANGED <<credVars, conv, run, callVars, jobs>>
  BY DEF WriteConfig, Issue
<1>2. commands' \in 0..MaxCommands
  BY Counted DEF ToolInv, WriteConfig
<1>3. view \in Config /\ view.version = 2
  BY DEF WriteConfig, ToolInv, ToolTypeOK
<1>4. view' \in Config /\ view'.version = 2
  <2>1. CASE \E n \in Edited, on \in BOOLEAN :
               view' = [view EXCEPT !.tools[n] = [on |-> on, tier |-> "deny"]]
    <3>1. PICK n \in Edited, on \in BOOLEAN :
            view' = [view EXCEPT !.tools[n] = [on |-> on, tier |-> "deny"]]
      BY <2>1
    <3> DEFINE e == [on |-> on, tier |-> "deny"]
    <3>2. e \in Entry
      BY DEF Entry
    <3>3. view.tools \in [Names -> Entry \cup {None}]
      BY <1>3 DEF Config
    <3> HIDE DEF e
    <3>4. [view.tools EXCEPT ![n] = e] \in [Names -> Entry \cup {None}]
      BY <3>2, <3>3
    <3>5. view' = [view EXCEPT !.tools = [view.tools EXCEPT ![n] = e]]
      BY <3>1 DEF e
    <3> QED
      BY <1>3, <3>4, <3>5 DEF Config
  <2>2. CASE \E a \in SUBSET Creds : view' = [view EXCEPT !.allowed = a]
    BY <1>3, <2>2 DEF Config
  <2> QED
    BY <2>1, <2>2 DEF WriteConfig
<1>5. PICK v : v = view'
  OBVIOUS
<1> QED
  BY <1>1, <1>2, <1>4, <1>5, StartWriteStep

LEMMA WriteEnds ==
  ASSUME ToolInv, EndWrite, config' = cmd.new, NoteAllowed(cmd.new), UNCHANGED failures
  PROVE  ToolInv'
<1>1. /\ config' = cmd.new /\ cmd # None /\ cmd.op = "write" /\ cmd' = None
      /\ calls' = [k \in Ks |-> IF Active(k)
                     THEN [calls[k] EXCEPT !.seen = @ \cup AllowedCredentials(cmd.new)]
                     ELSE calls[k]]
      /\ UNCHANGED <<view, credVars, conv, run, log, proc, jobs, commands, failures>>
  BY DEF EndWrite, NoteAllowed
<1> DEFINE now == AllowedCredentials(cmd.new)
<1>2. cmd.new \in Config
  BY <1>1 DEF ToolInv, ToolTypeOK, Writing, Changing
<1>3. now \subseteq Creds
  BY <1>2, AllowedAre
<1> HIDE DEF now
<1>4. ASSUME NEW k \in Ks, calls[k] # None
      PROVE  calls'[k] \in ToolCall /\ CallOK(calls'[k], log[k], proc[k], now)
  <2> DEFINE c == calls[k]
  <2> DEFINE d == [c EXCEPT !.seen = @ \cup now]
  <2>1. c \in ToolCall /\ CallOK(c, log[k], proc[k], AllowedCredentials(config))
    BY <1>4, OneIs
  <2>2. CASE Active(k)
    <3>1. calls'[k] = d
      BY <1>1, <2>2 DEF now
    <3>2. /\ d \in ToolCall /\ d.at = c.at /\ d.status = c.status /\ d.out = c.out
          /\ d.allowed = c.allowed /\ d.who = c.who /\ d.req = c.req /\ d.env = c.env
          /\ d.place = c.place /\ d.seen = c.seen \cup now /\ d.lost = c.lost
      BY <1>3, <2>1 DEF ToolCall
    <3> HIDE DEF d
    <3>3. Live(d, now)
      BY <2>1, <3>2 DEF CallOK, Live
    <3>4. CallOK(d, log[k], proc[k], now)
      BY <2>1, <3>2, <3>3 DEF CallOK, NoSecretIn, RepeatedIn, PlaceOK, LogSays, Runs, Alone
    <3> QED
      BY <3>1, <3>2, <3>4
  <2>3. CASE ~Active(k)
    BY <1>1, <1>4, <2>1, <2>3 DEF CallOK, Live, Active
  <2> QED
    BY <2>2, <2>3
<1>5. CallsOK'
  <2>1. CallsOK /\ (\A k \in Ks : calls[k] = None => log[k] = None /\ proc[k] = NoProc)
    BY DEF ToolInv, CallsOK
  <2>2. \A k \in Ks : calls[k] = None => calls'[k] = None
    BY <1>1 DEF Active
  <2>3. \A k \in Ks : calls[k] # None => calls'[k] # None
    BY <1>4, ConfigAssumption
  <2>4. AllowedCredentials(config') = now /\ log' = log /\ proc' = proc
    BY <1>1 DEF now
  <2> QED
    BY <1>4, <2>1, <2>2, <2>3, <2>4, EachCall
<1>6. ToolTypeOK'
  <2>1. calls' \in [Ks -> ToolCall \cup {None}]
    <3>1. \A k \in Ks : calls'[k] \in ToolCall \cup {None}
      BY <1>1, <1>4 DEF Active
    <3> QED
      BY <1>1, <3>1
  <2> QED
    BY <1>1, <1>2, <2>1 DEF ToolInv, ToolTypeOK, credVars
<1>7. StoresOK'
  BY <1>1 DEF ToolInv, StoresOK, Agrees, HalfDone, Changes, credVars
<1> QED
  BY <1>5, <1>6, <1>7 DEF ToolInv

LEMMA EndWriteStep == ASSUME ToolInv, EndWrite PROVE ToolInv'
<1>1. CASE config' = cmd.new /\ NoteAllowed(cmd.new) /\ UNCHANGED failures
  BY <1>1, WriteEnds
<1>2. CASE Fails /\ UNCHANGED <<config, calls>>
  <2>1. /\ cmd # None /\ cmd.op = "write" /\ cmd' = None
        /\ UNCHANGED <<view, credVars, conv, run, log, proc, jobs, commands, config, calls>>
    BY <1>2 DEF EndWrite
  <2>2. failures' \in 0..MaxFailures
    BY <1>2, Counted DEF ToolInv
  <2>3. ToolTypeOK'
    BY <2>1, <2>2 DEF ToolInv, ToolTypeOK, credVars
  <2>4. CallsOK'
    BY <2>1 DEF ToolInv, CallsOK
  <2>5. StoresOK'
    BY <2>1 DEF ToolInv, StoresOK, Agrees, HalfDone, Changes, credVars
  <2> QED
    BY <2>3, <2>4, <2>5 DEF ToolInv
<1> QED
  BY <1>1, <1>2 DEF EndWrite

-----------------------------------------------------------------------------
(* Steps of the credentials.                                                   *)

(* A step that leaves all but the credentials.                                 *)
LEMMA CredentialStep ==
  ASSUME ToolInv, UNCHANGED <<cfgVars, conv, run, callVars, jobs>>,
         meta' \subseteq Creds, leftover' \subseteq Creds,
         {mem', disk'} \subseteq [Creds -> (0..MaxCommands) \cup {None}],
         cmd' \in Changing \cup {None, cmd},
         commands' \in 0..MaxCommands, failures' \in 0..MaxFailures, StoresOK'
  PROVE  ToolInv'
<1>1. ToolTypeOK'
  BY DEF ToolInv, ToolTypeOK, cfgVars, callVars
<1>2. CallsOK'
  BY DEF ToolInv, CallsOK, cfgVars, callVars
<1> QED
  BY <1>1, <1>2 DEF ToolInv

LEMMA AutoSaveStep == ASSUME ToolInv, AutoSave PROVE ToolInv'
<1>1. /\ disk' = mem /\ leftover' = {c \in leftover : (mem[c] # None) # (c \in meta)}
      /\ UNCHANGED <<cfgVars, meta, mem, cmd, conv, run, callVars, jobs, commands, failures>>
  BY DEF AutoSave
<1>2. StoresOK'
  <2>1. Agrees(mem)' /\ Agrees(disk)'
    BY <1>1 DEF ToolInv, StoresOK, Agrees, Changes
  <2>2. HalfDone'
    BY <1>1 DEF ToolInv, StoresOK, HalfDone
  <2> QED
    BY <2>1, <2>2 DEF StoresOK
<1> QED
  BY <1>1, <1>2, CredentialStep DEF ToolInv, ToolTypeOK

LEMMA ChangeSecretStep == ASSUME ToolInv, ChangeSecret PROVE ToolInv'
<1>1. PICK c \in Creds :
       \/ /\ c \notin meta /\ SetSecret(c, commands')
          /\ IF disk' = mem' THEN cmd' = [op |-> "add", id |-> c] /\ UNCHANGED leftover
             ELSE UNCHANGED cmd /\ leftover' = leftover \cup {c}
       \/ /\ c \in meta /\ SetSecret(c, commands')
          /\ cmd' = IF disk' = mem' THEN [op |-> "update", id |-> c] ELSE None
          /\ UNCHANGED leftover
       \/ /\ c \in meta /\ SetSecret(c, None)
          /\ cmd' = [op |-> "remove", id |-> c]
          /\ leftover' = IF disk' = mem' THEN leftover ELSE leftover \cup {c}
  BY DEF ChangeSecret
<1>2. cmd = None /\ UNCHANGED <<cfgVars, meta, conv, run, callVars, jobs>>
  BY DEF ChangeSecret, Issue
<1>3. commands' \in 0..MaxCommands /\ commands' # None
  BY Counted, ConfigAssumption DEF ToolInv, ChangeSecret
<1>4. \E v \in {commands', None} : SetSecret(c, v)
  BY <1>1
<1>5. failures' \in 0..MaxFailures
  BY <1>4, Counted DEF SetSecret, ToolInv, ToolTypeOK
<1>6. /\ mem \in [Creds -> (0..MaxCommands) \cup {None}]
      /\ disk \in [Creds -> (0..MaxCommands) \cup {None}]
      /\ meta \subseteq Creds /\ leftover \subseteq Creds
  BY DEF ToolInv, ToolTypeOK
<1>7. /\ mem' \in [Creds -> (0..MaxCommands) \cup {None}]
      /\ disk' \in [Creds -> (0..MaxCommands) \cup {None}]
      /\ leftover' \subseteq Creds /\ cmd' \in Changing \cup {None}
  <2>1. mem' \in [Creds -> (0..MaxCommands) \cup {None}]
    BY <1>3, <1>4, <1>6 DEF SetSecret
  <2>2. disk' \in {disk, mem'}
    BY <1>4 DEF SetSecret
  <2>3. leftover' \subseteq Creds /\ cmd' \in Changing \cup {None}
    BY <1>1, <1>2, <1>6 DEF Changing
  <2> QED
    BY <1>6, <2>1, <2>2, <2>3
<1>8. \A d \in Creds : d # c => mem'[d] = mem[d] /\ disk'[d] \in {mem[d], disk[d]}
  BY <1>4, <1>6 DEF SetSecret
<1>9. Agrees(mem) /\ Agrees(disk) /\ \A d : ~Changes(d)
  BY <1>2 DEF ToolInv, StoresOK, Changes
<1>10. CASE c \notin meta /\ SetSecret(c, commands')
             /\ IF disk' = mem' THEN cmd' = [op |-> "add", id |-> c] /\ UNCHANGED leftover
                ELSE UNCHANGED cmd /\ leftover' = leftover \cup {c}
  <2>1. mem'[c] # None
    BY <1>3, <1>6, <1>10 DEF SetSecret
  <2>2. CASE disk' = mem'
    <3>1. cmd' = [op |-> "add", id |-> c] /\ leftover' = leftover /\ cmd' # None
      BY <1>10, <2>2, ConfigAssumption DEF Changing
    <3>2. Agrees(mem)' /\ Agrees(disk)'
      BY <1>2, <1>8, <1>9, <2>2, <3>1 DEF Agrees, Changes
    <3>3. HalfDone'
      BY <1>2, <1>10, <2>1, <2>2, <3>1 DEF HalfDone
    <3> QED
      BY <1>2, <1>3, <1>5, <1>6, <1>7, <3>2, <3>3, CredentialStep DEF StoresOK
  <2>3. CASE disk' # mem'
    <3>1. cmd' = None /\ leftover' = leftover \cup {c}
      BY <1>2, <1>10, <2>3
    <3>2. Agrees(mem)' /\ Agrees(disk)'
      BY <1>2, <1>8, <1>9, <3>1 DEF Agrees, Changes
    <3>3. HalfDone'
      BY <3>1 DEF HalfDone
    <3> QED
      BY <1>2, <1>3, <1>5, <1>6, <1>7, <3>2, <3>3, CredentialStep DEF StoresOK
  <2> QED
    BY <2>2, <2>3
<1>11. CASE c \in meta /\ SetSecret(c, commands') /\ UNCHANGED leftover
              /\ cmd' = IF disk' = mem' THEN [op |-> "update", id |-> c] ELSE None
  <2>1. mem'[c] # None /\ disk'[c] \in {mem'[c], disk[c]}
    BY <1>3, <1>6, <1>11 DEF SetSecret
  <2>2. Agrees(mem)' /\ Agrees(disk)'
    BY <1>2, <1>8, <1>9, <1>11, <2>1 DEF Agrees, Changes
  <2>3. HalfDone'
    BY <1>2, <1>11, <2>1 DEF HalfDone
  <2> QED
    BY <1>2, <1>3, <1>5, <1>6, <1>7, <2>2, <2>3, CredentialStep DEF StoresOK
<1>12. CASE c \in meta /\ SetSecret(c, None) /\ cmd' = [op |-> "remove", id |-> c]
              /\ leftover' = IF disk' = mem' THEN leftover ELSE leftover \cup {c}
  <2>1. mem'[c] = None /\ cmd' # None /\ cmd'.op = "remove" /\ cmd'.id = c
    BY <1>6, <1>12, ConfigAssumption DEF SetSecret, Changing
  <2>2. Agrees(mem)' /\ Agrees(disk)'
    BY <1>2, <1>8, <1>9, <1>12, <2>1 DEF Agrees, Changes
  <2>3. HalfDone'
    BY <1>2, <1>12, <2>1 DEF HalfDone
  <2> QED
    BY <1>2, <1>3, <1>5, <1>6, <1>7, <2>2, <2>3, CredentialStep DEF StoresOK
<1> QED
  BY <1>1, <1>10, <1>11, <1>12

LEMMA ChangeMetaStep == ASSUME ToolInv, ChangeMeta PROVE ToolInv'
<1> DEFINE c == cmd.id
<1> DEFINE new == IF cmd.op = "remove" THEN meta \ {c} ELSE meta \cup {c}
<1>1. /\ cmd # None /\ cmd.op \in {"add", "update", "remove"} /\ cmd' = None
      /\ UNCHANGED <<cfgVars, mem, disk, conv, run, callVars, jobs, commands>>
  BY DEF ChangeMeta
<1>2. \/ /\ meta' = new /\ UNCHANGED failures
         /\ leftover' = IF disk = mem THEN leftover \ {c} ELSE leftover
      \/ /\ Fails /\ UNCHANGED meta
         /\ leftover' = IF new = meta THEN leftover ELSE leftover \cup {c}
  BY DEF ChangeMeta
<1>3. c \in Creds /\ meta \subseteq Creds /\ leftover \subseteq Creds
  BY <1>1 DEF ToolInv, ToolTypeOK, Writing, Changing
<1>4. /\ failures' \in 0..MaxFailures /\ commands' \in 0..MaxCommands
      /\ {mem', disk'} \subseteq [Creds -> (0..MaxCommands) \cup {None}]
  BY <1>1, <1>2, Counted DEF ToolInv, ToolTypeOK
<1>5. /\ meta' \subseteq Creds /\ leftover' \subseteq Creds
  BY <1>2, <1>3
<1>6. /\ cmd.op \in {"add", "update"} => mem[c] # None /\ (disk[c] # None \/ c \in leftover)
      /\ cmd.op = "add" => c \notin meta
      /\ cmd.op = "update" => c \in meta
      /\ cmd.op = "remove" => c \in meta /\ mem[c] = None /\ (disk[c] = None \/ c \in leftover)
      /\ \A d \in Creds : d # c => /\ (d \in meta) # (mem[d] # None) => d \in leftover
                                   /\ (d \in meta) # (disk[d] # None) => d \in leftover
  BY <1>1 DEF ToolInv, StoresOK, HalfDone, Agrees, Changes
<1>7. \A d : d # c => (d \in meta <=> d \in meta') /\ (d \in leftover <=> d \in leftover')
  BY <1>2
<1>8. /\ (c \in meta') # (mem[c] # None) => c \in leftover'
      /\ (c \in meta') # (disk[c] # None) => c \in leftover'
  <2>1. CASE meta' = new /\ leftover' = IF disk = mem THEN leftover \ {c} ELSE leftover
    BY <1>1, <1>6, <2>1
  <2>2. CASE meta' = meta /\ leftover' = IF new = meta THEN leftover ELSE leftover \cup {c}
    <3>1. CASE cmd.op = "update"
      BY <1>6, <2>2, <3>1
    <3>2. CASE cmd.op # "update"
      BY <1>1, <1>6, <2>2, <3>2
    <3> QED
      BY <3>1, <3>2
  <2> QED
    BY <1>2, <2>1, <2>2
<1>9. StoresOK'
  <2> HIDE DEF c
  <2>1. \A d \in Creds : /\ (d \in meta') # (mem'[d] # None) => d \in leftover'
                         /\ (d \in meta') # (disk'[d] # None) => d \in leftover'
    BY <1>1, <1>6, <1>7, <1>8
  <2> QED
    BY <1>1, <2>1 DEF StoresOK, Agrees, HalfDone
<1> QED
  BY <1>1, <1>4, <1>5, <1>9, CredentialStep

-----------------------------------------------------------------------------
(* The theorems.                                                               *)

LEMMA ToolInitInv == ASSUME ToolInit PROVE ToolInv
<1>1. NoProc \in Proc /\ NoProc.state = "none"
  BY DEF NoProc, Proc
<1>2. 0 \in 0..MaxCommands /\ 0 \in 0..MaxFailures /\ 0 # None
  BY ToolRunAssumption, ConfigAssumption
<1>3. mem \in [Creds -> (0..MaxCommands) \cup {None}] /\ disk = mem
      /\ \A c \in Creds : (c \in meta) <=> (mem[c] # None)
  BY <1>2 DEF ToolInit
<1>4. config \in Config
  BY ConfigAssumption DEF ToolInit
<1>5. ToolTypeOK
  BY <1>1, <1>2, <1>3, <1>4 DEF ToolInit, ToolTypeOK, Jobs
<1>6. CallsOK
  BY DEF ToolInit, CallsOK
<1>7. StoresOK
  BY <1>3 DEF ToolInit, StoresOK, Agrees, HalfDone
<1> QED
  BY <1>5, <1>6, <1>7 DEF ToolInv

LEMMA ToolStep == ASSUME ToolInv, [ToolNext]_toolVars PROVE ToolInv'
<1>1. CASE UNCHANGED toolVars
  BY <1>1 DEF toolVars, cfgVars, credVars, callVars, ToolInv, ToolTypeOK, CallsOK,
              StoresOK, Agrees, HalfDone, Changes
<1>2. CASE ReadConfig \/ WriteConfig \/ EndWrite
  BY <1>2, ReadConfigStep, WriteConfigStep, EndWriteStep
<1>3. CASE AutoSave \/ ChangeSecret \/ ChangeMeta \/ DeleteConversation
  BY <1>3, AutoSaveStep, ChangeSecretStep, ChangeMetaStep, DeleteStep
<1>4. CASE \E r \in Requests : WindowCall(r) \/ RunCall(r)
  BY <1>4, CallSteps
<1>5. CASE EndRun \/ \E role \in Roles : StartRun(role)
  BY <1>5, RunSteps
<1>6. CASE Tick \/ Crash
  BY <1>6, TickStep, CrashStep
<1>7. ASSUME NEW k \in Ks, FileCall(k) \/ ScheduleCall(k) \/ PlainCall(k) \/ AskOutside(k)
      PROVE  ToolInv'
  BY <1>7, FileStep, ScheduleStep, PlainStep, AskStep
<1>8. ASSUME NEW k \in Ks, ReadAllowed(k) \/ StartShell(k) \/ TypeSecrets(k) \/ Answer(k)
      PROVE  ToolInv'
  BY <1>8, ReadStep, StartStep, TypeStep, AnswerStep
<1>9. ASSUME NEW k \in Ks, Spawn(k) \/ StorePid(k) \/ Exit(k) \/ Finish(k)
      PROVE  ToolInv'
  BY <1>9, SpawnStep, PidStep, FinishStep
<1>10. ASSUME NEW k \in Ks, ShellTimeOut(k) \/ TimeOut(k) PROVE ToolInv'
  BY <1>10, ShellTimeOutStep, TimeOutStep
<1> QED
  BY <1>1, <1>2, <1>3, <1>4, <1>5, <1>6, <1>7, <1>8, <1>9, <1>10 DEF ToolNext

LEMMA ToolInvariant == ToolSpec => []ToolInv
<1>1. ToolInit => ToolInv
  BY ToolInitInv
<1>2. ToolInv /\ [ToolNext]_toolVars => ToolInv'
  BY ToolStep
<1> QED
  BY <1>1, <1>2, PTL DEF ToolSpec

(* What a call returns holds no secret it was given, but for the command of a  *)
(* hardened ssh, and a process or page is given only what the configuration    *)
(* allowed while the call was there, for any number of calls, commands of the  *)
(* user, failures and credentials (redact_output,                              *)
(* resolve_credential_env_entries).                                            *)
THEOREM SecretsStay == ToolSpec => []SecretsKept
<1>1. ASSUME ToolInv PROVE SecretsKept
  <2>1. OutputRedacted
    BY <1>1, OneIs DEF OutputRedacted, CallOK, NoSecretIn, RepeatedIn, IsShell, Repeated
  <2>2. GivenWasAllowed
    BY <1>1, OneIs DEF GivenWasAllowed, CallOK, Live, Active
  <2> QED
    BY <1>1, <2>1, <2>2 DEF SecretsKept, ToolInv
<1> QED
  BY <1>1, ToolInvariant, PTL

(* A process that outlives its call is one whose number was not known when it  *)
(* was to be killed, or the application ended; a row of the log is pending or  *)
(* tells what the window was told, and stays pending only when it could not be *)
(* written or the application ended; a credential is in one store only after a *)
(* failed write or an end (tool_run_shell, execute_tool, add_credential,       *)
(* remove_credential).                                                         *)
THEOREM RecordsStayTrue == ToolSpec => []RecordsAgree
<1>1. ASSUME ToolInv PROVE RecordsAgree
  <2>1. NoStray
    <3>1. ASSUME NEW k \in Ks, proc[k].state \in {"queued", "running"}, ~proc[k].stray
          PROVE  Waits(k)
      <4>1. calls[k] # None
        BY <1>1, <3>1 DEF ToolInv, CallsOK, NoProc
      <4>2. Runs(calls[k], proc[k])
        BY <1>1, <4>1, OneIs DEF CallOK
      <4> QED
        BY <3>1, <4>1, <4>2 DEF Runs, Waits, Active
    <3> QED
      BY <3>1 DEF NoStray
  <2>2. LogTells
    <3>1. ASSUME NEW k \in Ks, log[k] # None PROVE calls[k] # None /\ LogSays(calls[k], log[k])
      <4>1. calls[k] # None
        BY <1>1, <3>1 DEF ToolInv, CallsOK
      <4> QED
        BY <1>1, <4>1, OneIs DEF CallOK
    <3> QED
      BY <3>1 DEF LogTells, LogSays, Active
  <2>3. StoresAgree
    BY <1>1 DEF ToolInv, StoresOK, Agrees, Changes, StoresAgree
  <2> QED
    BY <2>1, <2>2, <2>3 DEF RecordsAgree
<1> QED
  BY <1>1, ToolInvariant, PTL

(* A process that runs ssh was analysed and hardened, whatever the words of    *)
(* the command and whoever gave it; a file call stays in its scope; and a run  *)
(* without a user does nothing with a browser or an orchestrator, whatever the *)
(* model names (sanitize_ssh_command, validate_tool_roots,                     *)
(* execute_tool_inner_for_agent).                                              *)
THEOREM CallsStayInBounds == ToolSpec => []CallsInBounds
<1>1. ASSUME ToolInv PROVE CallsInBounds
  <2>1. SshHardened
    <3>1. ASSUME NEW k \in Ks, proc[k].state # "none", calls[k].req.cmd.ssh > 0
          PROVE  Hardened(calls[k].req.cmd)
      <4>1. calls[k] # None
        BY <1>1, <3>1 DEF ToolInv, CallsOK, NoProc
      <4> QED
        BY <1>1, <3>1, <4>1, OneIs DEF CallOK, Runs
    <3> QED
      BY <3>1 DEF SshHardened
  <2>2. InScope
    BY <1>1, OneIs DEF InScope, CallOK, PlaceOK
  <2>3. Unattended
    BY <1>1, OneIs DEF Unattended, CallOK, Alone
  <2> QED
    BY <2>1, <2>2, <2>3 DEF CallsInBounds
<1> QED
  BY <1>1, ToolInvariant, PTL

(* No step changes a job of another agent, and reading a configuration that is *)
(* whole loses no tier, no enabled tool and no credential, though its write    *)
(* back may fail or be cut; an unreadable one is shown as allowing no          *)
(* credential and left as it is (tool_manage_schedule, read_tool_config,       *)
(* normalize_tool_config).                                                     *)
THEOREM ForeignStays == ToolSpec => NothingForeignChanged
<1>1. ASSUME ToolInv, [ToolNext]_toolVars PROVE [OwnJobs /\ ReadKeeps]_toolVars
  <2>1. SUFFICES ASSUME ToolNext PROVE OwnJobs /\ ReadKeeps
    BY <1>1
  <2>2. OwnJobs
    <3>1. CASE UNCHANGED jobs
      BY <3>1 DEF OwnJobs
    <3>2. ASSUME NEW k \in Ks, ScheduleCall(k) PROVE OwnJobs
      <4> DEFINE r == calls[k].req
      <4>1. CASE \E j \in Jobs : /\ jobs[j] = None
                                 /\ jobs' = [jobs EXCEPT ![j] = [owner |-> Agent, on |-> TRUE]]
        BY <1>1, <4>1 DEF OwnJobs, ToolInv, ToolTypeOK
      <4>2. CASE r.job \in MyJobs /\ \E on \in BOOLEAN : jobs' = [jobs EXCEPT ![r.job].on = on]
        BY <1>1, <4>2 DEF OwnJobs, MyJobs, ToolInv, ToolTypeOK
      <4>3. CASE r.job \in MyJobs /\ jobs' = [jobs EXCEPT ![r.job] = None]
        BY <1>1, <4>3 DEF OwnJobs, MyJobs, ToolInv, ToolTypeOK
      <4> QED
        BY <3>1, <3>2, <4>1, <4>2, <4>3 DEF ScheduleCall
    <3>3. UNCHANGED jobs \/ \E k \in Ks : ScheduleCall(k)
      BY <2>1 DEF ToolNext, ReadConfig, WriteConfig, EndWrite, AutoSave, ChangeSecret, ChangeMeta,
           DeleteConversation, WindowCall, RunCall, StartRun, EndRun, Tick, Crash, FileCall,
           PlainCall, AskOutside, ReadAllowed, StartShell, TypeSecrets, Answer, Spawn, StorePid,
           Exit, Finish, ShellTimeOut, TimeOut
    <3> QED
      BY <3>1, <3>2, <3>3
  <2>3. ReadKeeps
    <3>1. CASE UNCHANGED view
      BY <3>1 DEF ReadKeeps
    <3>2. CASE view' = None
      BY <3>2 DEF ReadKeeps
    <3>3. CASE WriteConfig
      <4>1. commands \in Nat /\ commands' = commands + 1
        BY <1>1, <3>3, ToolRunAssumption DEF WriteConfig, Issue, ToolInv, ToolTypeOK
      <4> QED
        BY <4>1 DEF ReadKeeps
    <3>4. CASE ReadConfig
      <4> DEFINE v == IF config = Torn THEN DefaultConfig ELSE Normalize(config)
      <4>1. /\ cmd = None /\ view' = v /\ config \in Config \cup {Torn}
            /\ \/ config \in {Torn, v} /\ UNCHANGED <<config, cmd>>
               \/ config \notin {Torn, v} /\ StartWrite(v)
        BY <1>1, <3>4 DEF ReadConfig, ToolInv, ToolTypeOK
      <4>2. cmd' # None => cmd'.op = "write" /\ cmd'.new = view'
        BY <4>1 DEF StartWrite
      <4>3. CASE config = Torn
        BY <4>1, <4>3, DefaultIs DEF ReadKeeps
      <4>4. CASE config # Torn
        <5>1. config \in Config /\ view' = Normalize(config)
          BY <4>1, <4>4
        <5>2. config' = config \/ cmd' # None
          <6>1. v \in Config
            BY <4>1, <4>4, NormalizeIs
          <6>2. [op |-> "write", new |-> v] \in Writing
            BY <6>1 DEF Writing
          <6>3. [op |-> "write", new |-> v] # None
            BY <6>2, ConfigAssumption
          <6> HIDE DEF v
          <6> QED
            BY <4>1, <6>3 DEF StartWrite
        <5> HIDE DEF v
        <5> QED
          BY <4>2, <4>4, <5>1, <5>2, NormalizeIs DEF ReadKeeps
      <4> QED
        BY <4>3, <4>4
    <3>5. UNCHANGED view \/ view' = None \/ WriteConfig \/ ReadConfig
      BY <2>1 DEF ToolNext, EndWrite, AutoSave, ChangeSecret, ChangeMeta, cfgVars, Rest,
           DeleteConversation, WindowCall, RunCall, StartRun, EndRun, Tick, Crash, FileCall,
           ScheduleCall, PlainCall, AskOutside, ReadAllowed, StartShell, TypeSecrets, Answer, Spawn,
           StorePid, Exit, Finish, ShellTimeOut, TimeOut
    <3> QED
      BY <3>1, <3>2, <3>3, <3>4, <3>5
  <2> QED
    BY <2>2, <2>3
<1> QED
  BY <1>1, ToolInvariant, PTL DEF ToolSpec, NothingForeignChanged

(***************************************************************************)
(* Part two: TeamRun.                                                      *)
(***************************************************************************)
----------------------------------------------------------------------------
(* The events on their way to the window.                                  *)

Told == Range(events)

\* Emit adds one event.
LEMMA EmitAdds ==
  ASSUME TypeOK, NEW e \in Event, Emit(e)
  PROVE  events' \in Seq(Event) /\ Told' = Told \cup {e}
<1>1. events \in Seq(Event) /\ <<e>> \in Seq(Event)
  BY DEF TypeOK
<1>2. events' = events \o <<e>> /\ events' \in Seq(Event)
  BY <1>1, AppendProperties, AppendIsConcat DEF Emit
<1>3. Range(events \o <<e>>) = Range(events) \cup Range(<<e>>)
  BY <1>1, RangeConcatenation
<1>4. Range(<<e>>) = {e}
  BY DEF Range
<1> QED
  BY <1>2, <1>3, <1>4 DEF Told

\* The event that is handled was on its way, and no other comes in.
LEMMA HeadTold ==
  ASSUME TypeOK, events # <<>>, events' = Tail(events)
  PROVE  /\ Head(events) \in Told
         /\ Head(events) \in Event
         /\ events' \in Seq(Event)
         /\ Told' \subseteq Told
<1>1. events \in Seq(Event)
  BY DEF TypeOK
<1>2. /\ Len(events) \in Nat \ {0}
      /\ Head(events) = events[1]
  BY <1>1, EmptySeq, LenProperties
<1>3. /\ Head(events) \in Event
      /\ Tail(events) \in Seq(Event)
      /\ Len(Tail(events)) = Len(events) - 1
      /\ \A i \in 1..Len(Tail(events)) : Tail(events)[i] = events[i + 1]
  BY <1>1, HeadTailProperties
<1>4. Range(events) = {events[i] : i \in 1..Len(events)}
  BY <1>1, RangeEquality
<1>5. Range(Tail(events)) = {Tail(events)[i] : i \in 1..Len(Tail(events))}
  BY <1>3, RangeEquality
<1> QED
  BY <1>2, <1>3, <1>4, <1>5 DEF Told

----------------------------------------------------------------------------
(* The inductive invariant.                                                *)

\* A run that was completed or failed has no task left to end.
EndedAllDone == status \in {"completed", "failed"} => AllDone

\* Reports, and what they lead to, follow the delegation.
ReportsFollow ==
  \A a \in Agents :
    report[a] # "none" \/ map[a] = "real" \/ task[a] = "completed" => pc = "over"

\* A run that was not aborted ends after its delegation.
EndFollows == status \in {"completed", "failed"} => pc = "over"

\* What the window knows, or is about to be told, of a synthesis.
SynthesisTold ==
  synthMap \/ (\E e \in Told : e.of \in {"reports", "synthesis"})
    => pc = "over" /\ AllDone

\* An agent whose turn has not come has neither task nor stream, and an abort
\* that knows a request id knows a stream.
Untouched ==
  /\ \A a \in Agents : pc = "leader" \/ a \in todo =>
       task[a] = "none" /\ stream[a] = "none" /\ a \notin doomed
  /\ pc = "launch" => stream[at] = "none"
  /\ \A a \in known : stream[a] # "none"

\* Only a stream that ended well is reported.
StreamsReported ==
  \A a \in Agents :
    /\ report[a] # "none" \/ [of |-> "stream", agent |-> a] \in Told => stream[a] = "over"
    /\ task[a] = "completed" => stream[a] \in {"none", "over"}

\* An abort finds a running stream: in the registry, its task running.
StreamsFound ==
  \A a \in Agents : stream[a] = "running" =>
    /\ a \in registry \/ (pc = "register" /\ at = a)
    /\ abort = "none" => task[a] = "running"

\* An abort that began after the delegation has the streams still running ahead.
AbortReaches ==
  abort # "none" /\ calm =>
    /\ pc = "over"
    /\ \A a \in Agents : stream[a] = "running" =>
         abort = "tasks" /\ a \in doomed \cap known \cap registry

RunInv ==
  /\ SynthesisAfterAll
  /\ EndedAllDone
  /\ ReportsFollow
  /\ EndFollows
  /\ SynthesisTold

StreamInv ==
  /\ Untouched
  /\ StreamsReported
  /\ StreamsFound
  /\ AbortReaches

\* The run waits from the return of the delegation on; it is not aborted.
Waiting    == status = "waiting_reports"
Unaborted  == abort = "none" /\ crashes = 0
Delegating == pc \in {"create", "launch", "register", "map"}

WaitingFollows == Waiting => pc \in {"map", "over"}

\* The window is told of an abort that is over, of a synthesis that was started,
\* and of each stream's end once.
CancelTold == (\E e \in Told : e.of = "cancelled") => abort = "over"

SynthesisStarted ==
  synthMap \/ (\E e \in Told : e.of \in {"reports", "synthesis"})
    => \E a \in Agents : report[a] \in {"start", "synthesis", "over"}

ReportedOnce == \A a \in Agents : report[a] # "none" => map[a] = "none"

\* While the delegation lasts, the bubbles of its agents have temporary keys.
BubblesTemp ==
  Unaborted /\ Delegating => \A a \in Agents :
    task[a] # "none" \/ stream[a] # "none" \/ a \in todo => map[a] = "temp"

\* A task is queued only while it is launched; one that runs has a stream.
TasksStarted ==
  Unaborted /\ (Delegating \/ Waiting) => \A a \in Agents :
    /\ task[a] # "cancelled"
    /\ task[a] = "queued" => pc = "launch" /\ at = a
    /\ task[a] = "running" => stream[a] # "none"

\* The end of a stream that a waiting run knows will be reported, or is.
RunningKnown ==
  Unaborted /\ Waiting /\ pc = "over" => \A a \in Agents :
    task[a] = "running" => map[a] = "real" \/ report[a] = "sent"

\* When all is done, the last report is being looked at, or a stream has failed.
LastSees ==
  Unaborted /\ Waiting /\ AllDone =>
    \/ \A a \in Agents : task[a] = "none"
    \/ \E a \in Agents : report[a] \in {"check", "start"} \/ task[a] = "failed"

\* Only a report that went on revives a run that was aborted after its delegation.
StaysCancelled ==
  abort = "over" /\ calm /\ (\A a \in Agents : report[a] \in {"none", "sent", "check"})
    => status = "cancelled"

WindowInv ==
  /\ CancelTold
  /\ SynthesisStarted
  /\ ReportedOnce
  /\ BubblesTemp

WaitInv ==
  /\ WaitingFollows
  /\ TasksStarted
  /\ RunningKnown
  /\ LastSees
  /\ StaysCancelled

IInv == TypeOK /\ RunInv /\ StreamInv /\ WindowInv /\ WaitInv

USE DEF runVars, deleVars, spawnVars, windowVars, abortVars, Ended, Statuses

\* The state of agents with whom nothing has happened yet.
LEMMA NobodyTyped ==
  /\ Nobody \in [Agents -> Ended \cup {"none", "queued", "running"}]
  /\ Nobody \in [Agents -> {"none", "running", "failing", "over"}]
  /\ Nobody \in [Agents -> {"none", "sent", "check", "start", "synthesis", "over"}]
  /\ Nobody \in [Agents -> {"none", "temp", "real"}]
BY DEF Nobody

----------------------------------------------------------------------------
(* Every action keeps the invariant.                                       *)

\* The turn of the leader ends before anybody has a task.
LEMMA LeaderEndsKeeps ==
  ASSUME IInv, LeaderEnds
  PROVE  IInv'
<1>1. events' \in Seq(Event) /\ Told' = Told
  BY DEF Told, IInv, TypeOK, LeaderEnds
<1>2. TypeOK'
  BY <1>1 DEF IInv, TypeOK, LeaderEnds
<1>3. RunInv'
  BY <1>1 DEF IInv, TypeOK, StreamInv, Untouched, RunInv, SynthesisAfterAll,
     EndedAllDone, AllDone, ReportsFollow, EndFollows, SynthesisTold,
     LeaderEnds
<1>4. StreamInv'
  BY <1>1 DEF IInv, TypeOK, RunInv, ReportsFollow, StreamInv, Untouched,
     StreamsReported, StreamsFound, AbortReaches, LeaderEnds
<1>5. WindowInv'
  BY <1>1 DEF IInv, WindowInv, CancelTold, SynthesisStarted, ReportedOnce, BubblesTemp,
     Delegating, LeaderEnds
<1>6. WaitInv'
  BY <1>1 DEF IInv, StreamInv, Untouched, AbortReaches, WindowInv, WaitInv,
     WaitingFollows, TasksStarted, RunningKnown, LastSees, StaysCancelled, LeaderEnds
<1> QED
  BY <1>2, <1>3, <1>4, <1>5, <1>6 DEF IInv

\* The delegation begins with agents that have neither task nor stream.
LEMMA DelegateKeeps ==
  ASSUME IInv, NEW S \in SUBSET Agents, Delegate(S)
  PROVE  IInv'
<1>1. events' \in Seq(Event) /\ Told' = Told
  BY DEF Told, IInv, TypeOK, Delegate
<1>2. TypeOK'
  BY <1>1 DEF IInv, TypeOK, Delegate
<1>3. RunInv'
  BY <1>1 DEF IInv, TypeOK, RunInv, SynthesisAfterAll, EndedAllDone,
     AllDone, ReportsFollow, EndFollows, SynthesisTold, Delegate
<1>4. StreamInv'
  BY <1>1 DEF IInv, TypeOK, RunInv, ReportsFollow, StreamInv, Untouched,
     StreamsReported, StreamsFound, AbortReaches, Delegate
<1>5. WindowInv'
  BY <1>1 DEF IInv, StreamInv, StreamsReported, Untouched, WindowInv, CancelTold,
     SynthesisStarted, ReportedOnce, BubblesTemp, Delegate
<1>6. WaitInv'
  BY <1>1 DEF IInv, StreamInv, Untouched, WindowInv, WaitInv, WaitingFollows,
     TasksStarted, RunningKnown, LastSees, StaysCancelled, Waiting, Delegate
<1> QED
  BY <1>2, <1>3, <1>4, <1>5, <1>6 DEF IInv

\* A task is created before the delegation is over: nothing was reported yet.
LEMMA CreateTaskKeeps ==
  ASSUME IInv, NEW a \in Agents, CreateTask(a)
  PROVE  IInv'
<1>1. events' \in Seq(Event) /\ Told' = Told
  BY DEF Told, IInv, TypeOK, CreateTask
<1>2. TypeOK'
  BY <1>1 DEF IInv, TypeOK, CreateTask, GiveUp
<1>3. RunInv'
  BY <1>1 DEF IInv, TypeOK, RunInv, SynthesisAfterAll, EndedAllDone,
     AllDone, ReportsFollow, EndFollows, SynthesisTold, CreateTask, GiveUp
<1>4. StreamInv'
  BY <1>1 DEF IInv, TypeOK, RunInv, ReportsFollow, StreamInv, Untouched,
     StreamsReported, StreamsFound, AbortReaches, CreateTask, GiveUp
<1>5. WindowInv'
  BY <1>1 DEF IInv, WindowInv, CancelTold, SynthesisStarted, ReportedOnce, BubblesTemp,
     Unaborted, Delegating, CreateTask, GiveUp
<1>6. WaitInv'
  BY <1>1 DEF IInv, WindowInv, WaitInv, WaitingFollows, TasksStarted, RunningKnown,
     LastSees, StaysCancelled, Waiting, Unaborted, Delegating, CreateTask, GiveUp
<1> QED
  BY <1>2, <1>3, <1>4, <1>5, <1>6 DEF IInv

\* The stream that starts is the next to be registered, its task running.
LEMMA LaunchKeeps ==
  ASSUME IInv, Launch
  PROVE  IInv'
<1>1. events' \in Seq(Event) /\ Told' = Told
  BY DEF Told, IInv, TypeOK, Launch
<1>2. TypeOK'
  BY <1>1 DEF IInv, TypeOK, Launch, GiveUp
<1>3. RunInv'
  BY <1>1 DEF IInv, TypeOK, RunInv, SynthesisAfterAll, EndedAllDone,
     AllDone, ReportsFollow, EndFollows, SynthesisTold, Launch, GiveUp
<1>4. StreamInv'
  BY <1>1 DEF IInv, TypeOK, RunInv, ReportsFollow, StreamInv, Untouched,
     StreamsReported, StreamsFound, AbortReaches, Launch, GiveUp
<1>5. WindowInv'
  BY <1>1 DEF IInv, TypeOK, WindowInv, CancelTold, SynthesisStarted, ReportedOnce,
     BubblesTemp, Unaborted, Delegating, Launch, GiveUp
<1>6. WaitInv'
  BY <1>1 DEF IInv, TypeOK, WindowInv, WaitInv, WaitingFollows, TasksStarted,
     RunningKnown, LastSees, StaysCancelled, Waiting, Unaborted, Delegating, Launch,
     GiveUp
<1> QED
  BY <1>2, <1>3, <1>4, <1>5, <1>6 DEF IInv

\* From here on an abort finds the stream.
LEMMA RegisterKeeps ==
  ASSUME IInv, Register
  PROVE  IInv'
<1>1. events' \in Seq(Event) /\ Told' = Told
  BY DEF Told, IInv, TypeOK, Register
<1>2. TypeOK'
  BY <1>1 DEF IInv, TypeOK, Register
<1>3. RunInv'
  BY <1>1 DEF IInv, TypeOK, RunInv, SynthesisAfterAll, EndedAllDone,
     AllDone, ReportsFollow, EndFollows, SynthesisTold, Register
<1>4. StreamInv'
  BY <1>1 DEF IInv, TypeOK, RunInv, ReportsFollow, StreamInv, Untouched,
     StreamsReported, StreamsFound, AbortReaches, Register
<1>5. WindowInv'
  BY <1>1 DEF IInv, WindowInv, CancelTold, SynthesisStarted, ReportedOnce, BubblesTemp,
     Unaborted, Delegating, Register
<1>6. WaitInv'
  BY <1>1 DEF IInv, WindowInv, WaitInv, WaitingFollows, TasksStarted, RunningKnown,
     LastSees, StaysCancelled, Waiting, Unaborted, Delegating, Register
<1> QED
  BY <1>2, <1>3, <1>4, <1>5, <1>6 DEF IInv

\* The run waits for reports; no abort began after the delegation.
LEMMA DelegationReturnsKeeps ==
  ASSUME IInv, DelegationReturns
  PROVE  IInv'
<1>1. events' \in Seq(Event) /\ Told' = Told
  BY DEF Told, IInv, TypeOK, DelegationReturns
<1>2. TypeOK'
  BY <1>1 DEF IInv, TypeOK, DelegationReturns
<1>3. RunInv'
  BY <1>1 DEF IInv, TypeOK, RunInv, SynthesisAfterAll, EndedAllDone,
     AllDone, ReportsFollow, EndFollows, SynthesisTold, DelegationReturns
<1>4. StreamInv'
  BY <1>1 DEF IInv, TypeOK, RunInv, ReportsFollow, StreamInv, Untouched,
     StreamsReported, StreamsFound, AbortReaches, DelegationReturns
<1>5. WindowInv'
  BY <1>1 DEF IInv, WindowInv, CancelTold, SynthesisStarted, ReportedOnce, BubblesTemp,
     Unaborted, Delegating, DelegationReturns
<1>6. WaitInv'
  BY <1>1 DEF IInv, RunInv, ReportsFollow, StreamInv, AbortReaches, WindowInv, WaitInv,
     WaitingFollows, TasksStarted, RunningKnown, LastSees, StaysCancelled, AllDone,
     Unaborted, Delegating, DelegationReturns
<1> QED
  BY <1>2, <1>3, <1>4, <1>5, <1>6 DEF IInv

\* The delegation is over: from here on streams may be reported.
LEMMA MapStreamsKeeps ==
  ASSUME IInv, MapStreams
  PROVE  IInv'
<1>1. events' \in Seq(Event) /\ Told' = Told
  BY DEF Told, IInv, TypeOK, MapStreams
<1>2. TypeOK'
  BY <1>1 DEF IInv, TypeOK, MapStreams
<1>3. RunInv'
  BY <1>1 DEF IInv, TypeOK, RunInv, SynthesisAfterAll, EndedAllDone,
     AllDone, ReportsFollow, EndFollows, SynthesisTold, MapStreams
<1>4. StreamInv'
  BY <1>1 DEF IInv, TypeOK, RunInv, ReportsFollow, StreamInv, Untouched,
     StreamsReported, StreamsFound, AbortReaches, MapStreams
<1>5. WindowInv'
  BY <1>1 DEF IInv, WindowInv, CancelTold, SynthesisStarted, ReportedOnce, BubblesTemp,
     Delegating, MapStreams
<1>6. WaitInv'
  BY <1>1 DEF IInv, WindowInv, BubblesTemp, WaitInv, WaitingFollows, TasksStarted,
     RunningKnown, LastSees, StaysCancelled, AllDone, Waiting, Unaborted, Delegating,
     MapStreams
<1> QED
  BY <1>2, <1>3, <1>4, <1>5, <1>6 DEF IInv

\* Only a stream that ended well is told to the window.
LEMMA StreamEndsKeeps ==
  ASSUME IInv, NEW a \in Agents, StreamEnds(a)
  PROVE  IInv'
<1> DEFINE e == [of |-> "stream", agent |-> a]
<1>1. e \in Event
  BY DEF Event
<1>2. /\ events' \in Seq(Event)
      /\ \/ stream'[a] = "over" /\ Told' = Told \cup {e}
         \/ stream'[a] = "failing" /\ Told' = Told
  <2>1. CASE stream' = [stream EXCEPT ![a] = "over"] /\ Emit(e)
    BY <1>1, <2>1, EmitAdds DEF IInv, TypeOK
  <2>2. CASE stream' = [stream EXCEPT ![a] = "failing"] /\ UNCHANGED events
    BY <2>2 DEF Told, IInv, TypeOK
  <2> QED
    BY <2>1, <2>2 DEF StreamEnds
<1>3. TypeOK'
  BY <1>2 DEF IInv, TypeOK, StreamEnds
<1>4. RunInv'
  BY <1>2 DEF IInv, TypeOK, RunInv, SynthesisAfterAll, EndedAllDone,
     AllDone, ReportsFollow, EndFollows, SynthesisTold, StreamEnds
<1>5. StreamInv'
  BY <1>2 DEF IInv, TypeOK, RunInv, ReportsFollow, StreamInv, Untouched,
     StreamsReported, StreamsFound, AbortReaches, StreamEnds
<1>6. WindowInv'
  BY <1>2 DEF IInv, TypeOK, WindowInv, CancelTold, SynthesisStarted, ReportedOnce,
     BubblesTemp, Unaborted, Delegating, StreamEnds
<1>7. WaitInv'
  BY <1>2 DEF IInv, TypeOK, WindowInv, WaitInv, WaitingFollows, TasksStarted,
     RunningKnown, LastSees, StaysCancelled, AllDone, Waiting, Unaborted, Delegating,
     StreamEnds
<1> QED
  BY <1>3, <1>4, <1>5, <1>6, <1>7 DEF IInv

\* A stream that failed was not told: its task was not completed.
LEMMA StreamFailsKeeps ==
  ASSUME IInv, NEW a \in Agents, StreamFails(a)
  PROVE  IInv'
<1>1. events' \in Seq(Event) /\ Told' = Told
  BY DEF Told, IInv, TypeOK, StreamFails
<1>2. TypeOK'
  BY <1>1 DEF IInv, TypeOK, StreamFails
<1>3. RunInv'
  BY <1>1 DEF IInv, TypeOK, RunInv, SynthesisAfterAll, EndedAllDone,
     AllDone, ReportsFollow, EndFollows, SynthesisTold, StreamFails
<1>4. StreamInv'
  BY <1>1 DEF IInv, TypeOK, RunInv, ReportsFollow, StreamInv, Untouched,
     StreamsReported, StreamsFound, AbortReaches, StreamFails
<1>5. WindowInv'
  BY <1>1 DEF IInv, WindowInv, CancelTold, SynthesisStarted, ReportedOnce, BubblesTemp,
     Unaborted, Delegating, StreamFails
<1>6. WaitInv'
  BY <1>1 DEF IInv, TypeOK, WindowInv, WaitInv, WaitingFollows, TasksStarted,
     RunningKnown, LastSees, StaysCancelled, Waiting, Unaborted, Delegating, StreamFails
<1> QED
  BY <1>2, <1>3, <1>4, <1>5, <1>6 DEF IInv

\* The stream of a report has ended, so its task may be completed.
LEMMA ReportKeeps ==
  ASSUME IInv, NEW a \in Agents, Report(a)
  PROVE  IInv'
<1>1. events' \in Seq(Event) /\ Told' = Told
  BY DEF Told, IInv, TypeOK, Report
<1>2. TypeOK'
  BY <1>1 DEF IInv, TypeOK, Report
<1>3. RunInv'
  BY <1>1 DEF IInv, TypeOK, RunInv, SynthesisAfterAll, EndedAllDone,
     AllDone, ReportsFollow, EndFollows, SynthesisTold, Report
<1>4. StreamInv'
  BY <1>1 DEF IInv, TypeOK, RunInv, ReportsFollow, StreamInv, Untouched,
     StreamsReported, StreamsFound, AbortReaches, Report
<1>5. WindowInv'
  BY <1>1 DEF IInv, TypeOK, StreamInv, StreamsReported, WindowInv, CancelTold,
     SynthesisStarted, ReportedOnce, BubblesTemp, Unaborted, Delegating, Report
<1>6. WaitInv'
  BY <1>1 DEF IInv, TypeOK, WindowInv, WaitInv, WaitingFollows, TasksStarted,
     RunningKnown, LastSees, StaysCancelled, Waiting, Unaborted, Delegating, Report
<1> QED
  BY <1>2, <1>3, <1>4, <1>5, <1>6 DEF IInv

\* A report that finds all tasks done may start the synthesis.
LEMMA CheckKeeps ==
  ASSUME IInv, NEW a \in Agents, Check(a)
  PROVE  IInv'
<1>1. events' \in Seq(Event) /\ Told' = Told
  BY DEF Told, IInv, TypeOK, Check
<1>2. TypeOK'
  BY <1>1 DEF IInv, TypeOK, Check
<1>3. RunInv'
  BY <1>1 DEF IInv, TypeOK, RunInv, SynthesisAfterAll, EndedAllDone,
     AllDone, ReportsFollow, EndFollows, SynthesisTold, Check
<1>4. StreamInv'
  BY <1>1 DEF IInv, TypeOK, RunInv, ReportsFollow, StreamInv, Untouched,
     StreamsReported, StreamsFound, AbortReaches, Check
<1>5. WindowInv'
  BY <1>1 DEF IInv, WindowInv, CancelTold, SynthesisStarted, ReportedOnce, BubblesTemp,
     Unaborted, Delegating, Check
<1>6. WaitInv'
  BY <1>1 DEF IInv, WindowInv, WaitInv, WaitingFollows, TasksStarted, RunningKnown,
     LastSees, StaysCancelled, AllDone, Waiting, Unaborted, Delegating, Check
<1> QED
  BY <1>2, <1>3, <1>4, <1>5, <1>6 DEF IInv

\* The window is told of the synthesis when all tasks are done.
LEMMA StartSynthesisKeeps ==
  ASSUME IInv, NEW a \in Agents, StartSynthesis(a)
  PROVE  IInv'
<1> DEFINE e == [of |-> "reports"]
<1>1. e \in Event
  BY DEF Event
<1>2. events' \in Seq(Event) /\ Told' \subseteq Told \cup {e}
  <2>1. CASE UNCHANGED events
    BY <2>1 DEF Told, IInv, TypeOK
  <2>2. CASE Emit(e)
    BY <1>1, <2>2, EmitAdds DEF IInv
  <2> QED
    BY <2>1, <2>2 DEF StartSynthesis
<1>3. TypeOK'
  BY <1>2 DEF IInv, TypeOK, StartSynthesis
<1>4. RunInv'
  BY <1>2 DEF IInv, TypeOK, RunInv, SynthesisAfterAll, EndedAllDone,
     AllDone, ReportsFollow, EndFollows, SynthesisTold, StartSynthesis
<1>5. StreamInv'
  BY <1>2 DEF IInv, TypeOK, RunInv, ReportsFollow, StreamInv, Untouched,
     StreamsReported, StreamsFound, AbortReaches, StartSynthesis
<1>6. WindowInv'
  BY <1>2 DEF IInv, TypeOK, WindowInv, CancelTold, SynthesisStarted, ReportedOnce,
     BubblesTemp, Unaborted, Delegating, StartSynthesis
<1>7. WaitInv'
  BY <1>2 DEF IInv, TypeOK, WindowInv, WaitInv, WaitingFollows, TasksStarted,
     RunningKnown, LastSees, StaysCancelled, Waiting, Unaborted, Delegating,
     StartSynthesis
<1> QED
  BY <1>3, <1>4, <1>5, <1>6, <1>7 DEF IInv

\* The run ends with its synthesis.
LEMMA SynthesisEndsKeeps ==
  ASSUME IInv, NEW a \in Agents, SynthesisEnds(a)
  PROVE  IInv'
<1> DEFINE e == [of |-> "synthesis", agent |-> a]
<1>1. e \in Event
  BY DEF Event
<1>2. events' \in Seq(Event) /\ Told' \subseteq Told \cup {e}
  BY <1>1, EmitAdds DEF IInv, SynthesisEnds
<1>3. TypeOK'
  BY <1>2 DEF IInv, TypeOK, SynthesisEnds
<1>4. RunInv'
  BY <1>2 DEF IInv, TypeOK, RunInv, SynthesisAfterAll, EndedAllDone,
     AllDone, ReportsFollow, EndFollows, SynthesisTold, SynthesisEnds
<1>5. StreamInv'
  BY <1>2 DEF IInv, TypeOK, RunInv, ReportsFollow, StreamInv, Untouched,
     StreamsReported, StreamsFound, AbortReaches, SynthesisEnds
<1>6. WindowInv'
  BY <1>2 DEF IInv, WindowInv, CancelTold, SynthesisStarted, ReportedOnce, BubblesTemp,
     Unaborted, Delegating, SynthesisEnds
<1>7. WaitInv'
  BY <1>2 DEF IInv, WindowInv, WaitInv, WaitingFollows, TasksStarted, RunningKnown,
     LastSees, StaysCancelled, Waiting, Unaborted, Delegating, SynthesisEnds
<1> QED
  BY <1>3, <1>4, <1>5, <1>6, <1>7 DEF IInv

\* The snapshot of an abort has all that runs: streams, their tasks and handles.
LEMMA AbortKeeps ==
  ASSUME IInv, Abort
  PROVE  IInv'
<1>1. events' \in Seq(Event) /\ Told' = Told
  BY DEF Told, IInv, TypeOK, Abort
<1>2. TypeOK'
  BY <1>1 DEF IInv, TypeOK, Abort
<1>3. RunInv'
  BY <1>1 DEF IInv, TypeOK, RunInv, SynthesisAfterAll, EndedAllDone,
     AllDone, ReportsFollow, EndFollows, SynthesisTold, Abort
<1>4. StreamInv'
  BY <1>1 DEF IInv, TypeOK, RunInv, ReportsFollow, StreamInv, Untouched,
     StreamsReported, StreamsFound, AbortReaches, Abort
<1>5. WindowInv'
  BY <1>1 DEF IInv, WindowInv, CancelTold, SynthesisStarted, ReportedOnce, BubblesTemp,
     Unaborted, Abort
<1>6. WaitInv'
  BY <1>1 DEF IInv, WindowInv, WaitInv, WaitingFollows, TasksStarted, RunningKnown,
     LastSees, StaysCancelled, Waiting, Unaborted, Abort
<1> QED
  BY <1>2, <1>3, <1>4, <1>5, <1>6 DEF IInv

\* The abort leaves a smaller snapshot and one stream less.
LEMMA AbortTaskKeeps ==
  ASSUME IInv, NEW a \in Agents, AbortTask(a)
  PROVE  IInv'
<1>1. events' \in Seq(Event) /\ Told' = Told
  BY DEF Told, IInv, TypeOK, AbortTask
<1>2. TypeOK'
  BY <1>1 DEF IInv, TypeOK, AbortTask
<1>3. RunInv'
  BY <1>1 DEF IInv, TypeOK, RunInv, SynthesisAfterAll, EndedAllDone,
     AllDone, ReportsFollow, EndFollows, SynthesisTold, AbortTask
<1>4. StreamInv'
  BY <1>1 DEF IInv, TypeOK, RunInv, ReportsFollow, StreamInv, Untouched,
     StreamsReported, StreamsFound, AbortReaches, AbortTask
<1>5. WindowInv'
  BY <1>1 DEF IInv, WindowInv, CancelTold, SynthesisStarted, ReportedOnce, BubblesTemp,
     Unaborted, AbortTask
<1>6. WaitInv'
  BY <1>1 DEF IInv, WindowInv, WaitInv, WaitingFollows, TasksStarted, RunningKnown,
     LastSees, StaysCancelled, Waiting, Unaborted, AbortTask
<1> QED
  BY <1>2, <1>3, <1>4, <1>5, <1>6 DEF IInv

\* An abort that began after the delegation leaves no stream running.
LEMMA AbortEndsKeeps ==
  ASSUME IInv, AbortEnds
  PROVE  IInv'
<1> DEFINE e == [of |-> "cancelled"]
<1>1. e \in Event
  BY DEF Event
<1>2. events' \in Seq(Event) /\ Told' \subseteq Told \cup {e}
  BY <1>1, EmitAdds DEF IInv, AbortEnds
<1>3. TypeOK'
  BY <1>2 DEF IInv, TypeOK, AbortEnds
<1>4. RunInv'
  BY <1>2 DEF IInv, TypeOK, RunInv, SynthesisAfterAll, EndedAllDone,
     AllDone, ReportsFollow, EndFollows, SynthesisTold, AbortEnds
<1>5. StreamInv'
  BY <1>2 DEF IInv, TypeOK, RunInv, ReportsFollow, StreamInv, Untouched,
     StreamsReported, StreamsFound, AbortReaches, AbortEnds
<1>6. WindowInv'
  BY <1>2 DEF IInv, WindowInv, CancelTold, SynthesisStarted, ReportedOnce, BubblesTemp,
     Unaborted, AbortEnds
<1>7. WaitInv'
  BY <1>2 DEF IInv, WindowInv, WaitInv, WaitingFollows, TasksStarted, RunningKnown,
     LastSees, StaysCancelled, Waiting, Unaborted, AbortEnds
<1> QED
  BY <1>3, <1>4, <1>5, <1>6, <1>7 DEF IInv

\* Nothing runs after a restart, and a failed run has no task left.
LEMMA RestartKeeps ==
  ASSUME IInv, Restart
  PROVE  IInv'
<1>1. events' \in Seq(Event) /\ Told' = {}
  BY DEF Told, Range, Restart
<1>2. TypeOK'
  <2>1. status' \in Statuses /\ task' \in [Agents -> Ended \cup {"none", "queued", "running"}]
    BY DEF IInv, TypeOK, Restart, RecoverRuns
  <2>2. crashes' \in 0..MaxCrashes
    BY BoundAssumption DEF IInv, TypeOK, Restart
  <2> QED
    BY <1>1, <2>1, <2>2, NobodyTyped DEF TypeOK, Restart
<1>3. RunInv'
  BY <1>1 DEF IInv, TypeOK, RunInv, SynthesisAfterAll, EndedAllDone,
     AllDone, ReportsFollow, EndFollows, SynthesisTold, Restart, RecoverRuns, Nobody
<1>4. StreamInv'
  BY <1>1 DEF IInv, TypeOK, RunInv, ReportsFollow, StreamInv, Untouched,
     StreamsReported, StreamsFound, AbortReaches, Restart, RecoverRuns, Nobody
<1>5. WindowInv'
  BY <1>1 DEF IInv, TypeOK, WindowInv, CancelTold, SynthesisStarted, ReportedOnce,
     BubblesTemp, Unaborted, Restart, Nobody
<1>6. WaitInv'
  BY <1>1 DEF IInv, TypeOK, WindowInv, WaitInv, WaitingFollows, TasksStarted,
     RunningKnown, LastSees, StaysCancelled, Unaborted, Restart
<1> QED
  BY <1>2, <1>3, <1>4, <1>5, <1>6 DEF IInv

\* The window handles the next event.
LEMMA OnEventKeeps ==
  ASSUME IInv, OnEvent
  PROVE  IInv'
<1> DEFINE e == Head(events)
<1>1. /\ e \in Told /\ e \in Event
      /\ events' \in Seq(Event)
      /\ Told' \subseteq Told
  BY HeadTold DEF IInv, OnEvent
<1> HIDE DEF e
<1>2. ASSUME e.of = "stream", OnStreamDone(e.agent)
      PROVE  IInv'
  <2>1. e.agent \in Agents /\ e = [of |-> "stream", agent |-> e.agent]
    BY <1>1, <1>2 DEF Event
  <2>2. TypeOK'
    BY <1>1, <1>2, <2>1 DEF IInv, TypeOK, OnEvent, OnStreamDone
  <2>3. RunInv'
    BY <1>1, <1>2, <2>1 DEF IInv, TypeOK, RunInv, SynthesisAfterAll,
       EndedAllDone, AllDone, ReportsFollow, EndFollows, SynthesisTold,
       OnEvent, OnStreamDone
  <2>4. StreamInv'
    BY <1>1, <1>2, <2>1 DEF IInv, TypeOK, RunInv, ReportsFollow, StreamInv,
       Untouched, StreamsReported, StreamsFound, AbortReaches, OnEvent, OnStreamDone
  <2>5. WindowInv'
    BY <1>1, <1>2, <2>1 DEF IInv, TypeOK, StreamInv, WindowInv, CancelTold,
       SynthesisStarted, ReportedOnce, BubblesTemp, Unaborted, Delegating, OnEvent,
       OnStreamDone
  <2>6. WaitInv'
    BY <1>1, <1>2, <2>1 DEF IInv, TypeOK, WindowInv, ReportedOnce, SynthesisStarted,
       WaitInv, WaitingFollows, TasksStarted, RunningKnown, LastSees, StaysCancelled,
       AllDone, Waiting, Unaborted, Delegating, OnEvent, OnStreamDone
  <2> QED
    BY <2>2, <2>3, <2>4, <2>5, <2>6 DEF IInv
<1>3. ASSUME \/ e.of = "reports" /\ OnAllReports
             \/ e.of = "synthesis" /\ OnSynthesisDone
             \/ e.of = "cancelled" /\ OnCancelled
      PROVE  IInv'
  <2>1. TypeOK'
    <3>1. UNCHANGED <<task, pc, todo, at, stream, registry, abort, doomed, known, calm,
                      crashes>>
      BY DEF OnEvent
    <3>2. /\ status' \in Statuses
          /\ report' \in [Agents -> {"none", "sent", "check", "start", "synthesis", "over"}]
          /\ map' \in [Agents -> {"none", "temp", "real"}]
      BY <1>3 DEF IInv, TypeOK, OnAllReports, OnSynthesisDone, OnCancelled
    <3>3. synthMap' \in BOOLEAN /\ active' \in BOOLEAN
      BY <1>3, Zenon DEF IInv, TypeOK, OnAllReports, OnSynthesisDone, OnCancelled
    <3> QED
      BY <1>1, <3>1, <3>2, <3>3 DEF IInv, TypeOK
  <2>2. RunInv'
    BY <1>1, <1>3 DEF IInv, TypeOK, RunInv, SynthesisAfterAll,
       EndedAllDone, AllDone, ReportsFollow, EndFollows, SynthesisTold,
       OnEvent, OnAllReports, OnSynthesisDone, OnCancelled
  <2>3. StreamInv'
    BY <1>1, <1>3 DEF IInv, TypeOK, RunInv, ReportsFollow, StreamInv, Untouched,
       StreamsReported, StreamsFound, AbortReaches, OnEvent, OnAllReports,
       OnSynthesisDone, OnCancelled
  <2>4. WindowInv'
    BY <1>1, <1>3 DEF IInv, WindowInv, CancelTold, SynthesisStarted, ReportedOnce,
       BubblesTemp, Unaborted, Delegating, OnEvent, OnAllReports, OnSynthesisDone,
       OnCancelled
  <2>5. WaitInv'
    BY <1>1, <1>3 DEF IInv, WindowInv, CancelTold, SynthesisStarted, WaitInv,
       WaitingFollows, TasksStarted, RunningKnown, LastSees, StaysCancelled, AllDone,
       Waiting, Unaborted, Delegating, OnEvent, OnAllReports, OnSynthesisDone,
       OnCancelled
  <2> QED
    BY <2>1, <2>2, <2>3, <2>4, <2>5 DEF IInv
<1> QED
  BY <1>1, <1>2, <1>3 DEF OnEvent, Event, e

\* Nothing changes.
LEMMA StutterKeeps ==
  ASSUME IInv, UNCHANGED vars
  PROVE  IInv'
<1>1. Told' = Told
  BY DEF Told, vars
<1>2. TypeOK'
  BY DEF IInv, TypeOK, vars
<1>3. RunInv'
  BY <1>1 DEF IInv, RunInv, SynthesisAfterAll, EndedAllDone, AllDone,
     ReportsFollow, EndFollows, SynthesisTold, vars
<1>4. StreamInv'
  BY <1>1 DEF IInv, StreamInv, Untouched, StreamsReported, StreamsFound,
     AbortReaches, vars
<1>5. WindowInv'
  BY <1>1 DEF IInv, WindowInv, CancelTold, SynthesisStarted, ReportedOnce, BubblesTemp,
     Unaborted, Delegating, vars
<1>6. WaitInv'
  BY <1>1 DEF IInv, WindowInv, WaitInv, WaitingFollows, TasksStarted, RunningKnown,
     LastSees, StaysCancelled, AllDone, Waiting, Unaborted, Delegating, vars
<1> QED
  BY <1>2, <1>3, <1>4, <1>5, <1>6 DEF IInv

----------------------------------------------------------------------------
(* The theorems.                                                           *)

\* The invariant holds when a run begins.
LEMMA InitInv == Init => IInv
<1> SUFFICES ASSUME Init PROVE IInv
  OBVIOUS
<1>1. events \in Seq(Event) /\ Told = {}
  BY DEF Told, Range, Init
<1>2. TypeOK
  <2>1. crashes \in 0..MaxCrashes
    BY BoundAssumption DEF Init
  <2> QED
    BY <1>1, <2>1, NobodyTyped DEF TypeOK, Init
<1>3. RunInv
  BY <1>1 DEF RunInv, SynthesisAfterAll, EndedAllDone, AllDone,
     ReportsFollow, EndFollows, SynthesisTold, Init, Nobody
<1>4. StreamInv
  BY <1>1 DEF StreamInv, Untouched, StreamsReported, StreamsFound, AbortReaches,
     Init, Nobody
<1>5. WindowInv
  BY <1>1 DEF IInv, WindowInv, CancelTold, SynthesisStarted, ReportedOnce, BubblesTemp,
     Init, Nobody
<1>6. WaitInv
  BY <1>1 DEF IInv, WindowInv, WaitInv, WaitingFollows, TasksStarted, RunningKnown,
     LastSees, StaysCancelled, Waiting, Init, Nobody
<1> QED
  BY <1>2, <1>3, <1>4, <1>5, <1>6 DEF IInv

\* The inductive invariant holds throughout every run of a team, whatever is
\* aborted, fails or is restarted.
THEOREM InvInductive == Spec => []IInv
<1>1. IInv /\ [Next]_vars => IInv'
  <2> SUFFICES ASSUME IInv, [Next]_vars PROVE IInv'
    OBVIOUS
  <2>1. ASSUME NEW a \in Agents,
               \/ CreateTask(a) \/ StreamEnds(a) \/ StreamFails(a)
               \/ Report(a) \/ Check(a) \/ StartSynthesis(a) \/ SynthesisEnds(a)
               \/ AbortTask(a)
        PROVE  IInv'
    BY <2>1, CreateTaskKeeps, StreamEndsKeeps, StreamFailsKeeps, ReportKeeps,
       CheckKeeps, StartSynthesisKeeps, SynthesisEndsKeeps, AbortTaskKeeps
  <2>2. ASSUME NEW S \in SUBSET Agents, Delegate(S) PROVE IInv'
    BY <2>2, DelegateKeeps
  <2>3. CASE \/ LeaderEnds \/ Launch \/ Register \/ DelegationReturns
             \/ MapStreams \/ OnEvent \/ Abort \/ AbortEnds \/ Restart
    BY <2>3, LeaderEndsKeeps, LaunchKeeps, RegisterKeeps, DelegationReturnsKeeps,
       MapStreamsKeeps, OnEventKeeps, AbortKeeps, AbortEndsKeeps, RestartKeeps
  <2>4. CASE UNCHANGED vars
    BY <2>4, StutterKeeps
  <2> QED
    BY <2>1, <2>2, <2>3, <2>4 DEF Next
<1> QED
  BY <1>1, InitInv, PTL DEF Spec

\* Every variable keeps its type, and the delegation serves an agent with a task.
THEOREM TypeCorrect == Spec => []TypeOK
<1>1. IInv => TypeOK
  BY DEF IInv
<1> QED
  BY <1>1, InvInductive, PTL

\* The leader's synthesis starts only after the last task has ended.
THEOREM LeaderSummarizesLast == Spec => []SynthesisAfterAll
<1>1. IInv => SynthesisAfterAll
  BY DEF IInv, RunInv
<1> QED
  BY <1>1, InvInductive, PTL

\* A completed or failed run has no task that is queued or running, and a run
\* that waits for reports waits for somebody, or for a task that failed.
THEOREM StatusStaysTrue == Spec => []StatusFitsTasks
<1>1. ASSUME IInv PROVE StatusFitsTasks
  <2>1. status \in {"completed", "failed"} => AllDone
    BY <1>1 DEF IInv, RunInv, EndedAllDone
  <2>2. ASSUME Waiting, pc = "over", Unaborted,
               ~ \E a \in Agents : Ahead(a) \/ task[a] = "failed"
        PROVE  task = Nobody
    <3>1. AllDone
      BY <1>1, <2>2 DEF IInv, TypeOK, StreamInv, StreamsReported, WaitInv, TasksStarted,
         RunningKnown, Ahead, AllDone
    <3>2. \A a \in Agents : task[a] = "none"
      BY <1>1, <2>2, <3>1 DEF IInv, WaitInv, LastSees, Ahead
    <3> QED
      BY <1>1, <3>2 DEF IInv, TypeOK, Nobody
  <2> QED
    BY <2>1, <2>2 DEF StatusFitsTasks, Waiting, Unaborted
<1> QED
  BY <1>1, InvInductive, PTL

\* An abort of a run whose delegation is over leaves no stream running, and the
\* run cancelled until the check of a report goes on to the synthesis.
THEOREM AbortReachesAll == Spec => []AbortStops
<1>1. IInv => AbortStops
  BY DEF IInv, StreamInv, AbortReaches, WaitInv, StaysCancelled, AbortStops
<1> QED
  BY <1>1, InvInductive, PTL

\* A recorded report is discarded by an abort only.
THEOREM ReportsSurvive == Spec => OnlyAbortDiscardsReports
<1> DEFINE Kept == \A a \in Agents :
             (task[a] = "completed" /\ task'[a] # "completed") => (abort = "tasks")
<1>1. IInv /\ [Next]_vars => [Kept]_vars
  <2> SUFFICES ASSUME IInv, Next, NEW a \in Agents,
                      task[a] = "completed", task'[a] # "completed"
               PROVE  abort = "tasks"
    BY DEF vars
  <2>1. TypeOK /\ stream[a] \in {"none", "over"} /\ pc = "over"
    BY DEF IInv, StreamInv, StreamsReported, RunInv, ReportsFollow
  <2>2. ASSUME NEW b \in Agents,
               \/ CreateTask(b) \/ StreamEnds(b) \/ StreamFails(b)
               \/ Report(b) \/ Check(b) \/ StartSynthesis(b) \/ SynthesisEnds(b)
        PROVE  FALSE
    BY <2>1, <2>2 DEF TypeOK, CreateTask, StreamEnds, StreamFails, Report, Check,
       StartSynthesis, SynthesisEnds
  <2>3. ASSUME NEW b \in Agents, AbortTask(b) PROVE abort = "tasks"
    BY <2>3 DEF AbortTask
  <2>4. ASSUME NEW S \in SUBSET Agents, Delegate(S) PROVE FALSE
    BY <2>4 DEF Delegate
  <2>5. CASE \/ LeaderEnds \/ Launch \/ Register \/ DelegationReturns
             \/ MapStreams \/ OnEvent \/ Abort \/ AbortEnds
    BY <2>1, <2>5 DEF LeaderEnds, Launch, Register, DelegationReturns, MapStreams,
       OnEvent, Abort, AbortEnds
  <2>6. ~Restart
    BY <2>1 DEF Restart, RecoverRuns
  <2> QED
    BY <2>2, <2>3, <2>4, <2>5, <2>6 DEF Next
<1> QED
  BY <1>1, InvInductive, PTL DEF Spec, OnlyAbortDiscardsReports
=============================================================================
