-------------------------------- MODULE Shell --------------------------------
(***************************************************************************)
(* Which shell commands fold into "explored 3 files" (blocks.rs,           *)
(* shell_explore_kind): those that only read. Three scanners look at the   *)
(* quotes of a line, each with its own rule for the backslash, before the  *)
(* words of every simple command are judged. A command here is typed piece *)
(* by piece from a set of pieces chosen at the start; what a shell would   *)
(* do with it is said apart, by what shells do.                            *)
(*                                                                         *)
(* A character that the scanners tell apart, and a word that the judges    *)
(* tell apart, is one atom; so are the redirection to /dev/null that       *)
(* silences a command, a command substitution that removes a file, and a   *)
(* script that writes. Left out: paths of programs, a leading "$ ", words  *)
(* clipped by a preview, and the names that a case treats like another's   *)
(* and that write in none of their forms, or in the same one.              *)
(***************************************************************************)
EXTENDS Naturals, FiniteSets, Sequences, SequencesExt

CONSTANTS
  Typings,    (* [start, bits]: the atoms a command starts with, and the    *)
              (* sequences of atoms it goes on with                         *)
  MaxBits     (* bound                                                      *)

VARIABLES command, typing, bitsLeft

shellVars == <<command, typing, bitsLeft>>

Null    == ">/dev/null"
Hidden  == "... +3 lines"
Removes == "$(rm)"
Quotes  == {"'", "\""}
Angle   == {">", Null}

(* The part each atom plays: the mark of a quote, an escape, text between   *)
(* quotes (inner, if they are double) or escaped, or plain. rule: where a   *)
(* backslash escapes, if at all.                                            *)
Roles(line, rule) ==
  LET Plays(acc, c) ==
        CASE acc.skip ->
               [acc EXCEPT !.skip = FALSE, !.roles = Append(@, "text")]
          [] ~acc.skip /\ c = "\\" /\ rule \in (CASE acc.in = "\"" -> {"double", "everywhere"}
                                                  [] acc.in = "" -> {"everywhere"} [] OTHER -> {}) ->
               [acc EXCEPT !.skip = TRUE, !.roles = Append(@, "escape")]
          [] ~acc.skip /\ (acc.in = c \/ (acc.in = "" /\ c \in Quotes)) ->
               [acc EXCEPT !.in = IF @ = "" THEN c ELSE "", !.roles = Append(@, "mark")]
          [] OTHER ->
               [acc EXCEPT !.roles = Append(@, CASE acc.in = ""   -> "plain"
                                                 [] acc.in = "\"" -> "inner"
                                                 [] OTHER         -> "text")]
  IN  FoldLeft(Plays, [in |-> "", skip |-> FALSE, roles |-> <<>>], line).roles

(* The runs of a line between the cuts, empty ones dropped.                 *)
Runs(line, cuts) ==
  LET Step(acc, i) == IF i \in cuts THEN Append(acc, <<>>)
                      ELSE [acc EXCEPT ![Len(acc)] = Append(@, line[i])]
  IN  SelectSeq(FoldLeftDomain(Step, << <<>> >>, line),
                LAMBDA run : \E i \in DOMAIN run : run[i] # " ")

Next1(line, i) == IF i < Len(line) THEN line[i + 1] ELSE ""
Prev1(line, i) == IF i > 1 THEN line[i - 1] ELSE ""

-----------------------------------------------------------------------------
(* The classification.                                                      *)

shell_segments(line) ==
  LET roles == Roles(line, "everywhere")
      ends[i \in 0 .. Len(line)] ==  \* "no", at a separator, or its second
        IF i = 0 \/ (i > 0 /\ roles[i] # "plain") THEN "no"
        ELSE IF ends[i - 1] = "first" /\ line[i] = line[i - 1] THEN "second"
        ELSE IF line[i] = ";" THEN "only"
        ELSE IF line[i] \in {"|", "&"} /\ Prev1(line, i) # ">" /\ Next1(line, i) \notin Angle
        THEN "first" ELSE "no"
  IN  Runs(line, {i \in DOMAIN line : ends[i] # "no"})

strip_dev_null(seg) ==
  [i \in DOMAIN seg |->
     IF seg[i] = Null \/ (seg[i] = "&" /\ Next1(seg, i) = Null) THEN " " ELSE seg[i]]


has_unquoted(seg, needle) ==
  \E i \in DOMAIN seg : seg[i] = needle /\ Roles(seg, "double")[i] = "plain"

(* The words of a line by a rule for its quotes. A pair of quotes alone is  *)
(* a word too.                                                              *)
WordsBy(line, roles) ==
  LET Step(acc, i) ==
        IF line[i] = " " /\ roles[i] = "plain"
        THEN [acc EXCEPT !.out = IF acc.started THEN Append(@, acc.cur) ELSE @,
                         !.cur = <<>>, !.started = FALSE]
        ELSE [acc EXCEPT !.cur = IF roles[i] \in {"mark", "escape"} THEN @
                                 ELSE Append(@, line[i]), !.started = TRUE]
      last == FoldLeftDomain(Step, [out |-> <<>>, cur |-> <<>>, started |-> FALSE], line)
  IN  IF last.started THEN Append(last.out, last.cur) ELSE last.out

words(seg) == WordsBy(seg, Roles(seg, "nowhere"))

StartsWith(word, atom) == word # <<>> /\ word[1] = atom
is_env_assignment(word) == StartsWith(word, "A=1")
IsOption(word) ==
  \E option \in {"-C", "-P", "--output", "--unset-upstream"} : StartsWith(word, option)

(* What follows the prefixes that run another command. *)
WithoutPrefix(ws, prefixes) ==
  LET first == SelectInSeq(ws, LAMBDA w : w \notin prefixes /\ ~is_env_assignment(w))
  IN  IF first = 0 THEN <<>> ELSE SubSeq(ws, first, Len(ws))

git_kind(args) ==
  LET at[i \in 1 .. Len(args) + 2] ==   \* where the subcommand is, from i on
        IF i > Len(args) THEN i
        ELSE IF args[i] = <<"-C">> THEN at[i + 2]
        ELSE IF args[i] = <<"-P">> THEN at[i + 1] ELSE i
      rest == SubSeq(args, at[1] + 1, Len(args))
      sub  == IF at[1] <= Len(args) THEN args[at[1]] ELSE <<>>
  IN  CASE sub = <<"log">> -> "command"
        [] sub = <<"branch">> /\ \A i \in DOMAIN rest : IsOption(rest[i]) -> "command"
        [] sub = <<"stash">> /\ (rest = <<>> \/ (rest # <<>> /\ rest[1] = <<"list">>)) -> "command"
        [] OTHER -> "none"

segment_kind(segment) ==
  LET seg  == strip_dev_null(segment)
      ws   == WithoutPrefix(words(seg), {<<"time">>})
      cmd  == IF ws = <<>> THEN <<>> ELSE ws[1]
      args == Tail(ws)
      With(arg) == \E i \in DOMAIN args : args[i] = arg
  IN  CASE Hidden \in ToSet(seg) \/ has_unquoted(seg, ">") \/ ws = <<>> -> "none"
        [] OTHER ->
             CASE cmd \in {<<"cat">>, <<"sort">>, <<"awk">>} -> "file"
               [] cmd = <<"find">> /\ ~With(<<"-delete">>) -> "search"
               [] cmd = <<"sed">> /\ ~(\E i \in DOMAIN args : StartsWith(args[i], "-i")) -> "file"
               [] cmd = <<"env">> -> "command"
               [] cmd = <<"git">> -> git_kind(args)
               [] OTHER -> "none"

rank(kind) == CASE kind = "search" -> 3 [] kind = "file" -> 1 [] OTHER -> 0

shell_explore_kind(line) ==
  LET segs  == shell_segments(line)
      kinds == {segment_kind(segs[i]) : i \in DOMAIN segs}
  IN  IF kinds = {} \/ "none" \in kinds THEN "none"
      ELSE CHOOSE k \in kinds : \A other \in kinds : rank(other) <= rank(k)

-----------------------------------------------------------------------------
(* What a shell does.                                                       *)

Operator(line, roles, i) ==
  /\ roles[i] = "plain" /\ line[i] \in {";", "|", "&"}
  /\ line[i] = "&" => Next1(line, i) \notin Angle /\ Prev1(line, i) # ">"

Commands(line) ==
  LET roles == Roles(line, "everywhere")
  IN  Runs(line, {i \in DOMAIN line : Operator(line, roles, i)})

(* Its words, and those of the program that it runs in the end.             *)
ShellWords(cmd) ==
  LET seg == strip_dev_null(cmd) IN WordsBy(seg, Roles(seg, "everywhere"))
Program(cmd) == WithoutPrefix(ShellWords(cmd), {<<"time">>, <<"env">>})

(* git's subcommand: the first argument that is no option nor the value of  *)
(* one; {} or {its place}.                                                  *)
Operands(ws) ==
  LET IsValue[i \in 1 .. Len(ws)] == i > 2 /\ ws[i - 1] = <<"-C">> /\ ~IsValue[i - 1]
  IN  {i \in 2 .. Len(ws) : ~IsOption(ws[i]) /\ ~IsValue[i]}
Subcommand(ws) == {i \in Operands(ws) : \A j \in Operands(ws) : i <= j}

(* The options and scripts by which a program writes.                       *)
HasForm(ws, atom) == \E i \in 2 .. Len(ws) : StartsWith(ws[i], atom)

(* A program that changes nothing, in the form it is run.                   *)
Reads(ws) ==
  \/ ws[1] = <<"cat">>
  \/ ws[1] = <<"sort">> /\ ~HasForm(ws, "-o")
  \/ ws[1] = <<"awk">> /\ ~HasForm(ws, "system()")
  \/ ws[1] = <<"sed">> /\ ~HasForm(ws, "-i") /\ ~HasForm(ws, "w f")
  \/ ws[1] = <<"find">> /\ (\A i \in 2 .. Len(ws) : ws[i] # <<"-delete">>)
  \/ /\ ws[1] = <<"git">>
     /\ \E sub \in Subcommand(ws) :
          \/ ws[sub] = <<"log">> /\ ~HasForm(ws, "--output")
          \/ /\ ws[sub] = <<"branch">> /\ Operands(ws) = {sub}
             /\ ~HasForm(ws, "--unset-upstream")
          \/ ws[sub] = <<"stash">> /\ Len(ws) > sub /\ ws[sub + 1] = <<"list">>

(* Nothing a line runs changes a thing: no redirection but to /dev/null, no *)
(* substitution outside single quotes, no program that writes, nothing      *)
(* unseen.                                                                  *)
OnlyReads(line) ==
  LET roles == Roles(line, "everywhere")
      cmds  == Commands(line)
  IN  /\ \A i \in DOMAIN line : line[i] = ">" => roles[i] # "plain"
      /\ \A i \in DOMAIN line : line[i] = Removes => roles[i] = "text"
      /\ Hidden \notin ToSet(line)
      /\ \A i \in DOMAIN cmds : Program(cmds[i]) = <<>> \/ Reads(Program(cmds[i]))

-----------------------------------------------------------------------------
ShellInit ==
  /\ typing \in Typings /\ command = typing.start /\ bitsLeft = MaxBits

ShellNext ==
  /\ bitsLeft > 0 /\ bitsLeft' = bitsLeft - 1
  /\ \E bit \in typing.bits : command' = command \o bit
  /\ UNCHANGED typing

ShellSpec == ShellInit /\ [][ShellNext]_shellVars

(* Types: what a line counts as.                                            *)
ShellTypeOK == shell_explore_kind(command) \in {"none", "file", "search", "command"}

(* What is overlooked. By the scanners: a quote mark escaped outside quotes, *)
(* or inside them before a flag; a pipe straight into a redirection; a      *)
(* substitution. By the judges: what env runs, that git stash alone saves   *)
(* the work away, and the forms in which sort, awk, sed, git log and git    *)
(* branch write.                                                            *)
OverlookedText(line) ==
  LET roles == Roles(line, "everywhere")
      Escaped(i) == i > 1 /\ roles[i - 1] = "escape" /\ line[i] \in Quotes
      quoted == Roles(line, "double")
  IN  \/ \E i \in DOMAIN line :
           Escaped(i) /\ (quoted[i] = "mark" \/ "-i" \in ToSet(SubSeq(line, i, Len(line))))
      \/ \E i \in DOMAIN line : line[i] = "|" /\ Next1(line, i) = Null
      \/ \E i \in DOMAIN line : line[i] = Removes /\ roles[i] # "text"

OverlookedForm(ws) ==
  \/ ws[1] = <<"env">> /\ Len(ws) > 1
  \/ ws[1] = <<"sort">> /\ HasForm(ws, "-o")
  \/ ws[1] = <<"awk">> /\ HasForm(ws, "system()")
  \/ ws[1] = <<"sed">> /\ HasForm(ws, "w f")
  \/ /\ ws[1] = <<"git">>
     /\ \E sub \in Subcommand(ws) :
          \/ ws[sub] = <<"log">> /\ HasForm(ws, "--output")
          \/ ws[sub] = <<"branch">> /\ HasForm(ws, "--unset-upstream")
          \/ ws[sub] = <<"stash">> /\ sub = Len(ws)

Overlooked(line) ==
  LET Named(cmd) == WithoutPrefix(ShellWords(cmd), {<<"time">>})
  IN  \/ OverlookedText(line)
      \/ \E cmd \in ToSet(Commands(line)) : Named(cmd) # <<>> /\ OverlookedForm(Named(cmd))

==============================================================================
