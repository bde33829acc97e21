------------------------------ MODULE Composer ------------------------------
(***************************************************************************)
(* Writing a prompt (inline/src/editor.rs and the key handling, pickers    *)
(* and echo list of session.rs): the edit buffer with its history, draft,  *)
(* paste chips, kill buffer and undo; the keys that interrupt and leave;   *)
(* the @mention listing asked of the host; and the host's echo of what was *)
(* submitted, which must not be printed a second time.                     *)
(*                                                                         *)
(* The buffer is a sequence of atoms: a word, a newline, "/" (a command    *)
(* being typed), a command, a directory being mentioned, or a paste chip,  *)
(* over which the cursor moves as a whole. Rows are not wrapped. A word or *)
(* a command ends with a space. No prompt, form or browser is open.        *)
(***************************************************************************)
EXTENDS Naturals, Sequences, SequencesExt

CONSTANTS
  Dirs,        (* directories the host can list                             *)
  MaxHistory, MaxUndo, EchoCap,   (* 500, 200 and 32 in the code            *)
  MaxLength,   (* bound: atoms in the buffer                                *)
  Chips,       (* the chips pastes are shown as, in order; a bound: no more *)
  MaxKeys      (* bound                                                     *)

ASSUME ComposerAssumption ==
  /\ {MaxHistory, MaxUndo, EchoCap, MaxLength} \subseteq Nat \ {0}
  /\ MaxKeys \in Nat
  /\ Chips \in Seq(STRING) /\ \A i, j \in DOMAIN Chips : Chips[i] = Chips[j] => i = j
  /\ \A taken \in {Dirs, ToSet(Chips)} :
       taken \cap {"word", "newline", "/", "/cmd", "pasted"} = {}
  /\ Dirs \cap ToSet(Chips) = {}

MaxPastes == Len(Chips)
Chip  == ToSet(Chips)
Typed == {"word"} \cup Dirs
Atoms == Typed \cup Chip \cup {"newline", "/", "/cmd"}

VARIABLES
  editor,     (* Editor: buf, cur, history, hist_idx, draft, pastes, undo,  *)
              (* kill, typing                                               *)
  mention,    (* mention_query_sent, path_mentions, queries not answered    *)
  dismissed,  (* pick_dismissed: {} or a buffer                             *)
  echoes,     (* what was submitted and printed, awaiting its echo          *)
  submitted,  (* submissions the host has not echoed, in order              *)
  ctrlC,      (* ctrl_c_at: "no", "armed", or "late" past the window        *)
  busyTurn,   (* is_busy()                                                  *)
  left,       (* exit                                                       *)
  written,    (* the draft as it was when the walk began (history)          *)
  doubled,    (* submissions printed again (history)                        *)
  overflowed, (* more than EchoCap were awaiting their echo (history)       *)
  keysLeft

sideVars     == <<mention, dismissed>>
echoVars     == <<echoes, submitted, doubled, overflowed>>
composerVars == <<editor, sideVars, echoVars, ctrlC, busyTurn, left, written, keysLeft>>

Nothing == {}

ComposerInit ==
  /\ editor = [buf |-> <<>>, cur |-> 0, history |-> <<>>, hist_idx |-> Nothing,
               draft |-> <<>>, pastes |-> 0, undo |-> <<>>, kill |-> <<>>,
               typing |-> FALSE]
  /\ mention = [sent |-> Nothing, listed |-> Nothing, asked |-> <<>>]
  /\ dismissed = {} /\ echoes = <<>> /\ submitted = <<>>
  /\ ctrlC = "no" /\ busyTurn = FALSE /\ left = FALSE
  /\ written = <<>> /\ doubled = {} /\ overflowed = FALSE
  /\ keysLeft = MaxKeys

-----------------------------------------------------------------------------
(* The buffer. Operators over an editor e.                                  *)

Before(e) == SubSeq(e.buf, 1, e.cur)
After(e)  == SubSeq(e.buf, e.cur + 1, Len(e.buf))

Newest(s, n) == SubSeq(s, Len(s) - (IF Len(s) < n THEN Len(s) ELSE n) + 1, Len(s))

(* A run of typing is one step to undo.                                     *)
snapshot_of(e, typing) ==
  IF typing /\ e.typing THEN e
  ELSE [e EXCEPT !.typing = typing,
                 !.undo = Newest(Append(@, [buf |-> e.buf, cur |-> e.cur]), MaxUndo)]

(* The buffer from `from` to `to` becomes s, and the cursor follows it.     *)
Replace(e, from, to, s) ==
  [e EXCEPT !.buf = SubSeq(e.buf, 1, from) \o s \o SubSeq(e.buf, to + 1, Len(e.buf)),
            !.cur = from + Len(s)]

Insert(e, s) == Replace(e, e.cur, e.cur, s)

LineStart(e) ==
  LET nl == {i \in 1 .. e.cur : e.buf[i] = "newline"}
  IN  IF nl = {} THEN 0 ELSE CHOOSE i \in nl : \A j \in nl : j <= i

LineEnd(e) ==
  LET nl == {i \in e.cur + 1 .. Len(e.buf) : e.buf[i] = "newline"}
  IN  IF nl = {} THEN Len(e.buf) ELSE (CHOOSE i \in nl : \A j \in nl : i <= j) - 1

Edited(e) == snapshot_of(e, FALSE)

Paste(e) ==
  IF e.pastes < MaxPastes
  THEN {Insert([Edited(e) EXCEPT !.pastes = @ + 1], <<Chips[e.pastes + 1]>>)}
  ELSE {}

Backspace(e) == IF e.cur = 0 THEN {} ELSE {Replace(Edited(e), e.cur - 1, e.cur, <<>>)}
Delete(e) ==
  IF e.cur = Len(e.buf) THEN {} ELSE {Replace(Edited(e), e.cur, e.cur + 1, <<>>)}

KillRange(e, from, to) ==
  IF from = to THEN {}
  ELSE {[Replace(Edited(e), from, to, <<>>) EXCEPT !.kill = SubSeq(e.buf, from + 1, to)]}

(* At the end of a line the newline itself is killed.                       *)
KillToEnd(e) ==
  LET end == LineEnd(e)
  IN  KillRange(e, e.cur, IF end = e.cur /\ end < Len(e.buf) THEN end + 1 ELSE end)

Yank(e) == IF e.kill = <<>> THEN {} ELSE {Insert(Edited(e), e.kill)}

Undo(e) ==
  IF e.undo = <<>> THEN {}
  ELSE {[e EXCEPT !.buf = Last(e.undo).buf, !.cur = Last(e.undo).cur,
                  !.undo = Front(@), !.typing = FALSE]}

(* One row up or down at the same column, as far as that row goes.          *)
Vertical(e, up) ==
  LET start  == LineStart(e)
      end    == LineEnd(e)
      target == IF up THEN LineStart([e EXCEPT !.cur = start - 1]) ELSE end + 1
      stop   == LineEnd([e EXCEPT !.cur = target])
      wish   == target + (e.cur - start)
  IN  [e EXCEPT !.cur = IF wish < stop THEN wish ELSE stop, !.typing = FALSE]

Recall(e, idx) ==
  [e EXCEPT !.hist_idx = {idx}, !.buf = e.history[idx], !.cur = Len(e.history[idx])]

(* The first step into history keeps what was being written.                *)
history_prev(e) ==
  IF e.history = <<>> \/ e.hist_idx = {1} THEN {}
  ELSE IF e.hist_idx = Nothing THEN {Recall([e EXCEPT !.draft = e.buf], Len(e.history))}
  ELSE {Recall(e, (CHOOSE i \in e.hist_idx : TRUE) - 1)}

history_next(e) ==
  IF e.hist_idx = Nothing THEN {}
  ELSE IF e.hist_idx # {Len(e.history)}
  THEN {Recall(e, (CHOOSE i \in e.hist_idx : TRUE) + 1)}
  ELSE {[e EXCEPT !.hist_idx = Nothing, !.buf = e.draft, !.cur = Len(e.draft),
                  !.draft = <<>>]}

UpKey(e)   == IF LineStart(e) > 0 THEN {Vertical(e, TRUE)} ELSE history_prev(e)
DownKey(e) == IF LineEnd(e) < Len(e.buf) THEN {Vertical(e, FALSE)} ELSE history_next(e)

Cleared(e) ==
  [(IF e.buf = <<>> THEN e ELSE Edited(e))
     EXCEPT !.buf = <<>>, !.cur = 0, !.hist_idx = Nothing, !.draft = <<>>]

(* submit(): history takes it unless it is the newest entry; a paste stays  *)
(* known, for a history entry may still show its chip.                      *)
Submittable(e) == \E i \in DOMAIN e.buf : e.buf[i] # "newline"

(* Mutant of Taken: the pastes are forgotten with the prompt.               *)
TakenWithPastes(e) ==
  [e EXCEPT !.buf = <<>>, !.cur = 0, !.hist_idx = Nothing, !.draft = <<>>,
            !.undo = <<>>, !.typing = FALSE, !.pastes = 0,
            !.history = IF @ # <<>> /\ Last(@) = e.buf THEN @
                        ELSE Newest(Append(@, e.buf), MaxHistory)]

Taken(e) ==
  [e EXCEPT !.buf = <<>>, !.cur = 0, !.hist_idx = Nothing, !.draft = <<>>,
            !.undo = <<>>, !.typing = FALSE,
            !.history = IF @ # <<>> /\ Last(@) = e.buf THEN @
                        ELSE Newest(Append(@, e.buf), MaxHistory)]

expand_chips(e, display) ==
  [i \in DOMAIN display |->
     IF \E n \in 1 .. e.pastes : display[i] = Chips[n] THEN "pasted" ELSE display[i]]

-----------------------------------------------------------------------------
(* @mentions: entering a directory asks the host to list it; only the       *)
(* newest listing is kept.                                                  *)

(* The directory of the mention that ends at the cursor.                    *)
path_dir(e) ==
  IF /\ e.cur > 0 /\ e.buf[e.cur] \in Dirs
     /\ e.cur = 1 \/ e.buf[e.cur - 1] \in {"word", "newline", "/cmd"}
  THEN {e.buf[e.cur]} ELSE {}

refresh_mention_query(e) ==
  IF path_dir(e) \in {Nothing, mention.sent} THEN UNCHANGED mention
  ELSE mention' = [mention EXCEPT !.sent = path_dir(e),
                                  !.asked = Append(@, path_dir(e))]

Listed ==
  /\ mention.asked # <<>>
  /\ mention' = [mention EXCEPT !.listed = Head(mention.asked), !.asked = Tail(@)]
  /\ UNCHANGED <<editor, dismissed, echoVars, ctrlC, busyTurn, left, written, keysLeft>>

(* A text that begins with "/" lists commands or, past its name, nothing.   *)
CommandPicker == editor.buf = <<"/">>
MentionPicker ==
  /\ path_dir(editor) # {} /\ path_dir(editor) = mention.listed
  /\ editor.buf[1] \notin {"/", "/cmd"}
PickerOpen    == (CommandPicker \/ MentionPicker) /\ dismissed # {editor.buf}

-----------------------------------------------------------------------------
Key(disarms) ==
  /\ ~left /\ keysLeft > 0 /\ keysLeft' = keysLeft - 1
  /\ IF disarms THEN ctrlC' = "no" ELSE TRUE

(* What is written when the walk through history begins.                    *)
Walks(e) == written' = IF editor.hist_idx = Nothing /\ e.hist_idx # Nothing
                       THEN editor.buf ELSE written

Changes(es) ==
  \E e \in es :
    /\ Len(e.buf) <= MaxLength
    /\ editor' = e /\ Walks(e)
    /\ dismissed' = {} /\ refresh_mention_query(e)

EditKey ==
  /\ Key(TRUE)
  /\ LET e == editor
     IN  \/ \E t \in Typed \cup (IF e.buf = <<>> THEN {"/"} ELSE {}) :
              Changes({Insert(snapshot_of(e, TRUE), <<t>>)})
         \/ Changes(Paste(e) \cup Backspace(e) \cup Delete(e) \cup Yank(e) \cup Undo(e))
         \/ Changes(KillToEnd(e) \cup KillRange(e, LineStart(e), e.cur))
         \/ Changes({Insert(Edited(e), <<"newline">>)})
         \/ Changes({[e EXCEPT !.cur = IF @ = 0 THEN 0 ELSE @ - 1, !.typing = FALSE],
                     [e EXCEPT !.cur = IF @ = Len(e.buf) THEN @ ELSE @ + 1,
                               !.typing = FALSE]})
         \/ Changes({[e EXCEPT !.cur = LineStart(e)], [e EXCEPT !.cur = LineEnd(e)]})
         \/ ~PickerOpen /\ Changes(UpKey(e) \cup DownKey(e))
  /\ UNCHANGED <<echoVars, busyTurn, left>>

submit(text, display) ==
  /\ echoes' = Newest(Append(echoes, display), EchoCap)
  /\ submitted' = Append(submitted, [text |-> text, display |-> display])
  /\ overflowed' = (overflowed \/ Len(submitted) >= EchoCap)
  /\ UNCHANGED doubled

EnterKey ==
  /\ Key(TRUE) /\ ~PickerOpen /\ Submittable(editor)
  /\ editor' = Taken(editor)
  /\ submit(expand_chips(editor, editor.buf), editor.buf)
  /\ UNCHANGED <<sideVars, busyTurn, left, written>>

(* accept_pick: a command runs, or is completed when it needs arguments; a  *)
(* file is completed, a directory entered.                                  *)
AcceptCommand ==
  /\ Key(TRUE) /\ PickerOpen /\ CommandPicker
  /\ \/ editor' = Cleared(editor) /\ submit(<<"/cmd">>, <<"/cmd">>)
     \/ editor' = [Edited(editor) EXCEPT !.buf = <<"/cmd">>, !.cur = 1]
        /\ UNCHANGED echoVars
  /\ UNCHANGED <<sideVars, busyTurn, left, written>>

AcceptMention ==
  /\ Key(TRUE) /\ PickerOpen /\ MentionPicker
  /\ \E t \in {"word"} \cup (Dirs \ mention.listed) :
       /\ editor' = Replace(Edited(editor), editor.cur - 1, editor.cur, <<t>>)
       /\ refresh_mention_query(editor')
  /\ UNCHANGED <<dismissed, echoVars, busyTurn, left, written>>

(* Ctrl+C clears, else interrupts, else leaves when it was just pressed.    *)
CtrlC ==
  /\ Key(FALSE)
  /\ \/ /\ editor.buf # <<>>
        /\ editor' = Cleared(editor) /\ ctrlC' = "armed"
        /\ UNCHANGED <<busyTurn, left>>
     \/ /\ editor.buf = <<>> /\ busyTurn
        /\ busyTurn' = FALSE /\ ctrlC' = "armed"
        /\ UNCHANGED <<editor, left>>
     \/ /\ editor.buf = <<>> /\ ~busyTurn
        /\ left' = (ctrlC = "armed")
        /\ ctrlC' = "armed"
        /\ UNCHANGED <<editor, busyTurn>>
  /\ UNCHANGED <<sideVars, echoVars, written>>

Esc ==
  /\ Key(TRUE)
  /\ busyTurn' = FALSE
  /\ dismissed' = IF ~busyTurn /\ PickerOpen THEN {editor.buf} ELSE dismissed
  /\ UNCHANGED <<editor, mention, echoVars, left, written>>

WindowPasses ==
  /\ ctrlC = "armed" /\ ctrlC' = "late"
  /\ UNCHANGED <<editor, sideVars, echoVars, busyTurn, left, written, keysLeft>>

HostBusy ==
  /\ submitted # <<>> /\ ~busyTurn /\ busyTurn' = TRUE
  /\ UNCHANGED <<editor, sideVars, echoVars, ctrlC, left, written, keysLeft>>

(* UserMessageCreated, for the oldest submission, which the host knows by   *)
(* its text: it closes every echo up to the first that matches, and is      *)
(* printed when none does. A host may also send none.                       *)
UserMessageCreated ==
  /\ submitted # <<>> /\ submitted' = Tail(submitted)
  /\ LET said == Head(submitted)
         hits == {i \in DOMAIN echoes : echoes[i] = said.text}
         hit  == CHOOSE i \in hits : \A j \in hits : i <= j
     IN  IF hits = {}
         THEN doubled' = doubled \cup {said.display} /\ UNCHANGED echoes
         ELSE echoes' = SubSeq(echoes, hit + 1, Len(echoes)) /\ UNCHANGED doubled
  /\ UNCHANGED <<editor, sideVars, overflowed, ctrlC, busyTurn, left, written, keysLeft>>

NotEchoed ==
  /\ submitted # <<>> /\ submitted' = Tail(submitted)
  /\ UNCHANGED <<editor, sideVars, echoes, doubled, overflowed, ctrlC, busyTurn,
                 left, written, keysLeft>>

ComposerNext ==
  \/ EditKey \/ EnterKey \/ AcceptCommand \/ AcceptMention \/ CtrlC \/ Esc
  \/ WindowPasses \/ HostBusy \/ Listed \/ UserMessageCreated \/ NotEchoed

ComposerSpec == ComposerInit /\ [][ComposerNext]_composerVars

-----------------------------------------------------------------------------
(* Types: every cursor, that of a buffer to go back to included, is inside  *)
(* its buffer.                                                              *)
ComposerTypeOK ==
  /\ editor.buf \in Seq(Atoms) /\ editor.cur \in 0 .. Len(editor.buf)
  /\ \A u \in ToSet(editor.undo) : u.cur \in 0 .. Len(u.buf)
  /\ Len(editor.history) <= MaxHistory /\ Len(editor.undo) <= MaxUndo
  /\ editor.hist_idx \subseteq DOMAIN editor.history
  /\ Len(echoes) <= EchoCap
  /\ ctrlC \in {"no", "armed", "late"} /\ busyTurn \in BOOLEAN /\ left \in BOOLEAN

(* editor.rs 5-9, session.rs 185-188: what was being written comes back     *)
(* when the walk through history ends, whatever was edited on the way; no   *)
(* chip goes out in place of the paste it stands for, recalled from history *)
(* or not; once every query is answered the picker has the listing of the   *)
(* directory being mentioned; and a prompt the host echoes is not printed   *)
(* again, unless a paste made the echo differ from what was printed, or     *)
(* more echoes were awaited than are kept.                                  *)
PromptIsKept ==
  /\ editor.hist_idx # Nothing => editor.draft = written
  /\ \A k \in DOMAIN submitted : ToSet(submitted[k].text) \cap Chip = {}
  /\ path_dir(editor) # {} =>
       /\ mention.sent = path_dir(editor)
       /\ mention.asked = <<>> => mention.listed = mention.sent
  /\ \A d \in doubled : overflowed \/ ToSet(d) \cap Chip # {}
=============================================================================
