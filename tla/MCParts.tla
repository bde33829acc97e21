------------------------------- MODULE MCParts ------------------------------
(***************************************************************************)
(* The parts that share no state, checked side by side: every behaviour is *)
(* one of a single part, chosen at the start; the others stay as they      *)
(* were. A session's turns are three parts, each with the events that meet *)
(* each other: replies, tools, and all of them on fewer events.            *)
(***************************************************************************)
EXTENDS Broadcast, Decoder, Sdk, Turn, Screen, Activity, Composer, Transcript,
        Layout, Clock, Shell, Recorder

CONSTANT Parts, ReplyEvents, ToolEvents, TurnEvents, sA, sB, u

VARIABLE part

partsVars == <<part, broadcastVars, decoderVars, sdkVars, turnVars, screenVars,
               activityVars, composerVars, transcriptVars, layoutVars,
               clockVars, shellVars, recorderVars>>

(* Replies of one word, of a paragraph break and of a code fence. *)
MCPieces == {<<"w">>, <<"b">>, <<"f">>}

Row(text, width) == [text |-> text, width |-> width, fill |-> FALSE]
Band(text, width) == [Row(text, width) EXCEPT !.fill = TRUE]
MCRows == {Band("done", 2), Row("long", 4)}
MCFrames == {
  [lines |-> <<>>, caret |-> {}],
  [lines |-> <<Row("a", 1), Row("b", 4), Row("c", 3)>>,
   caret |-> {[row |-> 1, col |-> 4]}],
  [lines |-> <<Row("c", 3), Band("b", 1), Row("c", 3), Row("a", 1)>>,
   caret |-> {[row |-> 0, col |-> 0]}],
  [lines |-> <<Band("b", 1), Row("a", 1)>>, caret |-> {[row |-> 1, col |-> 1]}]}

Payload(id, status, kind, stoppable) ==
  [id |-> id, status |-> status, kind |-> kind, stoppable |-> stoppable]
MCUpdates == {
  Payload("i1", "done", "", ""), Payload("i1", "attention", "", ""), Payload("i1", "running", "job", "yes"),
  Payload("i2", "running", "agent", "yes"), Payload("i2", "failed", "", "no")}

MCChips == <<"chip1">>
MCSizes == {[width |-> 4, height |-> 3], [width |-> 9, height |-> 5],
            [width |-> 9, height |-> 2]}
Recording(holds, wide, narrow) ==
  [type |-> "block", holds |-> holds,
   rows |-> [w \in {4, 9} |-> IF w = 4 THEN narrow ELSE wide]]
MCRecorded == {
  <<>>,
  <<Recording({"x"}, 1, 2), Recording({}, 2, 3), Recording({"x"}, 1, 1),
    Recording({"y"}, 2, 4)>>,
  <<Recording({"x"}, 1, 2), [type |-> "clear"], Recording({"x", "y"}, 1, 2)>>}

Bottoms(kind, count, at) ==
  [kind |-> kind, count |-> count, at |-> at, heads |-> 0, texts |-> 0, diff |-> 0,
   lower |-> 0, lowerAt |-> 0, above |-> 1, fields |-> <<>>]
Form(fields) == [Bottoms("form", 0, 1) EXCEPT !.fields = fields, !.heads = 2, !.lowerAt = 1]
MCWidgets == {
  Bottoms("input", 10, 10), [Bottoms("input", 1, 1) EXCEPT !.texts = 1],
  [Bottoms("input", 1, 1) EXCEPT !.lower = 10, !.lowerAt = 1, !.above = 30],
  [Bottoms("input", 9, 2) EXCEPT !.lower = 8, !.lowerAt = 1],
  [Bottoms("prompt", 3, 1) EXCEPT !.texts = 2, !.diff = 40, !.above = 30],
  [Bottoms("prompt", 3, 1) EXCEPT !.texts = 2, !.diff = 2],
  Bottoms("prompt", 20, 1), [Bottoms("prompt", 20, 1) EXCEPT !.heads = 1],
  [Bottoms("prompt", 18, 18) EXCEPT !.heads = 4],
  Form(<<0, 0, 0, 0, 0>>), Form(<<0, 8, 1>>), [Form(<<8, 0>>) EXCEPT !.heads = 0],
  [Bottoms("list", 14, 1) EXCEPT !.heads = 6], Bottoms("list", 0, 0), Bottoms("list", 2, 1),
  Bottoms("detail", 50, 0), [Bottoms("detail", 2, 0) EXCEPT !.texts = 9]}

Word(atom) == <<" ", atom>>
MCTypings == {
  [start |-> <<"cat", " ">>,
   bits |-> {<<x>> : x \in {"cat", "rm", "'", "\"", "\\", ";", "|", "&", ">", " ", Null,
                            Removes}}],
  [start |-> <<"git">>,
   bits |-> {Word(x) : x \in {"-C", "-P", "log", "branch", "stash", "list", "x", "--output",
                              "--unset-upstream"}}],
  [start |-> <<"sed">>,
   bits |-> {<<" ", "\"">>, <<"\\", "\"">>, <<" ", "'">>, Word("-i"), Word("w f")}],
  [start |-> <<>>,
   bits |-> {Word(x) : x \in {"sort", "awk", "-o", "system()", "time"}} \cup {<<";">>}],
  [start |-> <<>>,
   bits |-> {Word(x) : x \in {"A=1", "time", "env", "sed", "-i", "find", "-delete", "rm",
                              Hidden}}]}

HostedLine(type, payload, session, seq) ==
  [json |-> TRUE, type |-> type, payload |-> payload, version |-> "this",
   session |-> session, seq |-> seq, id |-> None]
MCHosted == {
  [HostedLine("typed", "fits", None, None) EXCEPT !.json = FALSE],
  HostedLine("typed", "fits", sB, 5), [HostedLine("typed", "fits", sB, 6) EXCEPT !.id = "e1"],
  [HostedLine("typed", "fits", sB, 6) EXCEPT !.version = "other"],
  HostedLine("optional", "missing", sB, None), HostedLine("typed", "missing", sA, None),
  [HostedLine("bodyless", "misfits", None, 0) EXCEPT !.id = "e1"],
  HostedLine(u, "fits", sA, 7)}
MCStores == {
  <<>>,
  <<[session |-> sA, seq |-> 0, id |-> None, type |-> "typed", payload |-> "fits"]>>}

-----------------------------------------------------------------------------
Init ==
  /\ part \in Parts
  /\ BroadcastInit /\ DecoderInit /\ SdkInit /\ ScreenInit /\ ActivityInit
  /\ ComposerInit /\ TranscriptInit /\ LayoutInit
  /\ TurnInit
  /\ eventsLeft = CASE part = "replies" -> ReplyEvents [] part = "tools" -> ToolEvents
                    [] part = "turns" -> TurnEvents [] OTHER -> 0
  /\ part # "screen" => term.width = 2 /\ term.height = 2
  /\ part # "transcript" => events = <<>> /\ size = [width |-> 9, height |-> 2]
  /\ part # "layout" => widget = Bottoms("list", 2, 1) /\ tall = 24
  /\ ClockInit /\ ShellInit
  /\ part # "shell" => typing = CHOOSE t \in Typings : t.start = <<>>
  /\ RecorderInit /\ (part # "recorder" => storedBefore = <<>>)

notLayout == <<broadcastVars, decoderVars, sdkVars, turnVars, screenVars, activityVars,
               composerVars, transcriptVars, clockVars, shellVars, recorderVars>>
notTurn == <<broadcastVars, decoderVars, sdkVars, screenVars, activityVars,
             composerVars, transcriptVars, layoutVars, clockVars, shellVars, recorderVars>>

InBroadcast ==
  /\ part = "broadcast" /\ BroadcastNext
  /\ UNCHANGED <<decoderVars, sdkVars, turnVars, screenVars, activityVars,
                 composerVars, transcriptVars, layoutVars, clockVars, shellVars, recorderVars>>

InDecoder ==
  /\ part = "decoder" /\ DecoderNext
  /\ UNCHANGED <<broadcastVars, sdkVars, turnVars, screenVars, activityVars,
                 composerVars, transcriptVars, layoutVars, clockVars, shellVars, recorderVars>>

InSdk ==
  /\ part = "sdk" /\ SdkNext
  /\ UNCHANGED <<broadcastVars, decoderVars, turnVars, screenVars, activityVars,
                 composerVars, transcriptVars, layoutVars, clockVars, shellVars, recorderVars>>

InTurn ==
  /\ \/ part = "replies" /\ (ReplyStep \/ OtherStep \/ Draw)
     \/ part = "tools" /\ (ToolStep \/ OtherStep \/ Draw)
     \/ part = "turns" /\ TurnNext
  /\ UNCHANGED notTurn

InScreen ==
  /\ part = "screen" /\ ScreenNext
  /\ UNCHANGED <<broadcastVars, decoderVars, sdkVars, turnVars, activityVars,
                 composerVars, transcriptVars, layoutVars, clockVars, shellVars, recorderVars>>

InActivity ==
  /\ part = "activity" /\ ActivityNext
  /\ UNCHANGED <<broadcastVars, decoderVars, sdkVars, turnVars, screenVars,
                 composerVars, transcriptVars, layoutVars, clockVars, shellVars, recorderVars>>

InComposer ==
  /\ part = "composer" /\ ComposerNext
  /\ UNCHANGED <<broadcastVars, decoderVars, sdkVars, turnVars, screenVars,
                 activityVars, transcriptVars, layoutVars, clockVars, shellVars, recorderVars>>

InTranscript ==
  /\ part = "transcript" /\ TranscriptNext
  /\ UNCHANGED <<broadcastVars, decoderVars, sdkVars, turnVars, screenVars,
                 activityVars, composerVars, layoutVars, clockVars, shellVars, recorderVars>>

InLayout == part = "layout" /\ LayoutNext /\ UNCHANGED notLayout

InClock ==
  /\ part = "clock" /\ ClockNext
  /\ UNCHANGED <<broadcastVars, decoderVars, sdkVars, turnVars, screenVars,
                 activityVars, composerVars, transcriptVars, layoutVars, shellVars, recorderVars>>

InRecorder ==
  /\ part = "recorder" /\ RecorderNext
  /\ UNCHANGED <<broadcastVars, sdkVars, turnVars, screenVars, activityVars,
                 composerVars, transcriptVars, layoutVars, clockVars, shellVars>>

InShell ==
  /\ part = "shell" /\ ShellNext
  /\ UNCHANGED <<broadcastVars, decoderVars, sdkVars, turnVars, screenVars,
                 activityVars, composerVars, transcriptVars, layoutVars, clockVars, recorderVars>>

Next ==
  /\ UNCHANGED part
  /\ \/ InBroadcast \/ InDecoder \/ InSdk \/ InTurn \/ InScreen
     \/ InActivity \/ InComposer \/ InTranscript \/ InLayout
     \/ InClock \/ InShell \/ InRecorder

(* A part is fair only where it runs. *)
PartsFairness ==
  /\ WF_broadcastVars(part = "broadcast" /\ AcquirePermit)
  /\ WF_broadcastVars(part = "broadcast" /\ Accept)
  /\ WF_broadcastVars(part = "broadcast" /\ BackoffEnds)
  /\ \A p \in Peers :
       /\ WF_broadcastVars(part = "broadcast" /\ HandshakeFails(p))
       /\ WF_broadcastVars(/\ part = "broadcast"
                           /\ TakeSnapshot(p) \/ SendReplay(p) \/ Follow(p))
  /\ WF_sdkVars(part = "sdk" /\ HandleExit)
  /\ WF_sdkVars(part = "sdk" /\ TermTimer)
  /\ WF_sdkVars(part = "sdk" /\ KillTimer)

Spec == Init /\ [][Next]_partsVars /\ PartsFairness

(* Types of the part that runs. *)
PartsTypeOK ==
  /\ part = "broadcast" => BroadcastTypeOK
  /\ part = "decoder" => DecoderTypeOK
  /\ part = "sdk" => SdkTypeOK
  /\ part \in {"replies", "tools", "turns"} => TurnTypeOK
  /\ part = "screen" => ScreenTypeOK
  /\ part = "activity" => ActivityTypeOK
  /\ part = "composer" => ComposerTypeOK
  /\ part = "transcript" => TranscriptTypeOK
  /\ part = "layout" => LayoutTypeOK
  /\ part = "clock" => ClockTypeOK
  /\ part = "shell" => ShellTypeOK
  /\ part = "recorder" => RecorderTypeOK

(* What the user looks for or is about to choose is on the screen, but for  *)
(* matches that a resize left behind and forms of several long texts.       *)
SelectionInView == MatchInView /\ ChoiceInView
=============================================================================
