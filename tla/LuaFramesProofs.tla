--------------------------- MODULE LuaFramesProofs ---------------------------
(***************************************************************************)
(* Theorems about LuaFrames, for every limit of frames and of handlers.      *)
(*                                                                          *)
(* A step keeps some of the outermost frames, apart from what does not       *)
(* matter here, and puts new ones without an error on them (KeptFrames);      *)
(* what an error does is in Raises.                                         *)
(*                                                                          *)
(* What is summed up over the frames, the pending values and the stack, is    *)
(* summed from the bottom, so that a step on the top frames changes only the  *)
(* end of it (PendingPush, StackPush).  TidyInv says how one frame may rest    *)
(* on another: with it no step loses a value, and what a frame hands on finds *)
(* on the stack what the frame below waits for.                              *)
(***************************************************************************)
EXTENDS LuaFrames, WellFoundedInduction, TLAPS

Heads == BOOLEAN \cup Errors
Yields == [on: BOOLEAN, base: 0 .. MaxFrames, tail: BOOLEAN, status: BOOLEAN]

(* Only the handler of an xpcall runs at a depth, so no other frame hands one  *)
(* on that is used up.                                                      *)
GoodFrames == {f \in FrameSet : f.prot # "handler" => f.depth = 0}

Caught(fs) ==
  \A i \in 1 .. Len(fs) :
    fs[i].err # NoError => \E j \in 1 .. i : fs[j].prot # "none"

Sound(co, fs) ==
  /\ fs \in Seq(GoodFrames) /\ Len(fs) <= MaxFrames
  /\ co => Caught(fs)

Inv ==
  /\ coroutine \in BOOLEAN
  /\ Sound(coroutine, frames)
  /\ nest \in Nests /\ yielded \in Yields
  /\ yielded.on => frames # <<>>
  /\ got \in Seq(Heads)
  /\ dead \in Errors \cup {NoError}
  /\ fate \in {"none", "closed", "full", "stopped"}

-----------------------------------------------------------------------------
(* Frames.                                                                  *)

LEMMA NewFrameGood ==
  /\ NewFrame \in GoodFrames
  /\ \A p \in Protections \ {"handler"} : [NewFrame EXCEPT !.prot = p] \in GoodFrames
<1>1. /\ 0 \in 0 .. MaxTbc /\ Open \in 0 .. Open /\ 0 \in 0 .. MaxHandlers
      /\ NoError \in Errors \cup {NoError}
  BY FramesAssumption DEF Open
<1>2. NewFrame \in FrameSet /\ NewFrame.depth = 0
  BY <1>1 DEF NewFrame, FrameSet, Protections
<1>3. ASSUME NEW p \in Protections \ {"handler"}
      PROVE  [NewFrame EXCEPT !.prot = p] \in FrameSet /\ [NewFrame EXCEPT !.prot = p].depth = 0
  BY <1>1 DEF NewFrame, FrameSet
<1> QED
  BY <1>2, <1>3 DEF GoodFrames

(* A list that differs from the frames only above k, where no frame has an     *)
(* error, and in fields that do not matter, is as good as they are.           *)
LEMMA KeptFrames ==
  ASSUME Sound(coroutine, frames), NEW fs \in Seq(GoodFrames), Len(fs) <= MaxFrames,
         NEW k \in 0 .. Len(fs), k <= Len(frames),
         \A i \in 1 .. k : /\ fs[i].prot = frames[i].prot
                           /\ fs[i].err \in {frames[i].err, NoError},
         \A i \in k + 1 .. Len(fs) : fs[i].err = NoError
  PROVE  Sound(coroutine, fs)
<1>1. Len(fs) \in Nat
  OBVIOUS
<1>2. ASSUME coroutine, NEW i \in 1 .. Len(fs), fs[i].err # NoError
      PROVE  \E j \in 1 .. i : fs[j].prot # "none"
  <2>1. i \in 1 .. k /\ i \in 1 .. Len(frames) /\ frames[i].err # NoError
    BY <1>1, <1>2
  <2>2. PICK j \in 1 .. i : frames[j].prot # "none"
    BY <1>2, <2>1 DEF Sound, Caught
  <2>3. j \in 1 .. k /\ fs[j].prot # "none"
    BY <2>1, <2>2
  <2> QED
    BY <2>3
<1> QED
  BY <1>2 DEF Sound, Caught

LEMMA CutFacts ==
  ASSUME NEW fs \in Seq(GoodFrames), NEW k \in 0 .. Len(fs)
  PROVE  /\ SubSeq(fs, 1, k) \in Seq(GoodFrames)
         /\ Len(SubSeq(fs, 1, k)) = k
         /\ \A i \in 1 .. k : SubSeq(fs, 1, k)[i] = fs[i]
  OBVIOUS

LEMMA BelowFacts ==
  ASSUME NEW fs \in Seq(GoodFrames), fs # <<>>
  PROVE  /\ Below(fs) \in Seq(GoodFrames)
         /\ Len(Below(fs)) = Len(fs) - 1
         /\ \A i \in 1 .. Len(fs) - 1 : Below(fs)[i] = fs[i]
         /\ Len(fs) \in Nat \ {0}
         /\ fs[Len(fs)] \in GoodFrames
<1>1. Len(fs) \in Nat \ {0}
  OBVIOUS
<1>2. \A i \in 1 .. Len(fs) : fs[i] \in GoodFrames
  OBVIOUS
<1>3. fs[Len(fs)] \in GoodFrames
  BY <1>1, <1>2
<1>4. Len(fs) - 1 \in 0 .. Len(fs)
  BY <1>1
<1>5. /\ SubSeq(fs, 1, Len(fs) - 1) \in Seq(GoodFrames)
      /\ Len(SubSeq(fs, 1, Len(fs) - 1)) = Len(fs) - 1
      /\ \A i \in 1 .. Len(fs) - 1 : SubSeq(fs, 1, Len(fs) - 1)[i] = fs[i]
  BY <1>4, CutFacts
<1> QED
  BY <1>1, <1>3, <1>5 DEF Below

LEMMA PushFacts ==
  ASSUME NEW fs \in Seq(GoodFrames), NEW f \in GoodFrames
  PROVE  /\ Append(fs, f) \in Seq(GoodFrames)
         /\ Len(Append(fs, f)) = Len(fs) + 1
         /\ \A i \in 1 .. Len(fs) : Append(fs, f)[i] = fs[i]
         /\ Append(fs, f)[Len(fs) + 1] = f
  OBVIOUS

LEMMA SetFacts ==
  ASSUME NEW fs \in Seq(GoodFrames), NEW k \in 1 .. Len(fs), NEW f \in GoodFrames
  PROVE  /\ [fs EXCEPT ![k] = f] \in Seq(GoodFrames)
         /\ Len([fs EXCEPT ![k] = f]) = Len(fs)
         /\ \A i \in 1 .. Len(fs) :
              [fs EXCEPT ![k] = f][i] = IF i = k THEN f ELSE fs[i]
  OBVIOUS

(* A frame more, or in place of the top one.                                 *)
LEMMA PushSound ==
  ASSUME Sound(coroutine, frames), NEW f \in GoodFrames, f.err = NoError,
         Depth < MaxFrames
  PROVE  Sound(coroutine, Append(frames, f))
<1>1. Len(frames) \in Nat /\ frames \in Seq(GoodFrames)
  BY DEF Sound
<1>2. Sound(coroutine, Append(frames, f))
  <2> DEFINE fs == Append(frames, f)
  <2>1. /\ fs \in Seq(GoodFrames) /\ Len(fs) = Len(frames) + 1
        /\ \A i \in 1 .. Len(frames) : fs[i] = frames[i]
        /\ fs[Len(frames) + 1] = f
    BY <1>1, PushFacts
  <2> HIDE DEF fs
  <2>2. Len(fs) <= MaxFrames /\ Len(frames) \in 0 .. Len(fs)
    BY <1>1, <2>1, FramesAssumption DEF Depth
  <2>3. \A i \in Len(frames) + 1 .. Len(fs) : fs[i].err = NoError
    BY <1>1, <2>1
  <2>4. Sound(coroutine, fs)
    BY <1>1, <2>1, <2>2, <2>3, KeptFrames
  <2> QED
    BY <2>4 DEF fs
<1> QED
  BY <1>2

LEMMA PopSound ==
  ASSUME Sound(coroutine, frames), frames # <<>>
  PROVE  Sound(coroutine, Below(frames))
<1> DEFINE fs == Below(frames)
<1>1. /\ frames \in Seq(GoodFrames) /\ Len(frames) \in Nat \ {0}
      /\ fs \in Seq(GoodFrames) /\ Len(fs) = Len(frames) - 1
      /\ \A i \in 1 .. Len(fs) : fs[i] = frames[i]
      /\ Len(frames) <= MaxFrames
  BY BelowFacts DEF Sound
<1> HIDE DEF fs
<1>2. Sound(coroutine, fs)
  <2>1. Len(fs) \in 0 .. Len(fs) /\ Len(fs) <= Len(frames) /\ Len(fs) <= MaxFrames
    BY <1>1, FramesAssumption
  <2>2. \A i \in Len(fs) + 1 .. Len(fs) : fs[i].err = NoError
    BY <1>1
  <2> QED
    BY <1>1, <2>1, <2>2, KeptFrames
<1> QED
  BY <1>2 DEF fs

LEMMA ReplaceSound ==
  ASSUME Sound(coroutine, frames), frames # <<>>, NEW f \in GoodFrames, f.err = NoError
  PROVE  Sound(coroutine, Append(Below(frames), f))
<1> DEFINE fs == Append(Below(frames), f)
<1>1. /\ frames \in Seq(GoodFrames) /\ Len(frames) \in Nat \ {0}
      /\ Below(frames) \in Seq(GoodFrames) /\ Len(Below(frames)) = Len(frames) - 1
      /\ \A i \in 1 .. Len(frames) - 1 : Below(frames)[i] = frames[i]
      /\ Len(frames) <= MaxFrames
  BY BelowFacts DEF Sound
<1>2. /\ fs \in Seq(GoodFrames) /\ Len(fs) = Len(frames)
      /\ \A i \in 1 .. Len(frames) - 1 : fs[i] = frames[i]
      /\ fs[Len(frames)] = f
  BY <1>1, PushFacts
<1> HIDE DEF fs
<1>3. Sound(coroutine, fs)
  <2>1. Len(frames) - 1 \in 0 .. Len(fs) /\ Len(frames) - 1 <= Len(frames)
    BY <1>1, <1>2
  <2>2. \A i \in (Len(frames) - 1) + 1 .. Len(fs) : fs[i].err = NoError
    BY <1>1, <1>2
  <2> QED
    BY <1>1, <1>2, <2>1, <2>2, KeptFrames
<1> QED
  BY <1>3 DEF fs

(* A field of the top frame changes.                                         *)
LEMMA TouchSound ==
  ASSUME Sound(coroutine, frames), frames # <<>>, NEW f \in GoodFrames,
         f.prot = Top.prot, f.err \in {Top.err, NoError}
  PROVE  Sound(coroutine, [frames EXCEPT ![Depth] = f])
<1> DEFINE fs == [frames EXCEPT ![Depth] = f]
<1>1. /\ frames \in Seq(GoodFrames) /\ Len(frames) \in Nat \ {0}
      /\ Len(frames) <= MaxFrames
  BY BelowFacts DEF Sound
<1>2. /\ fs \in Seq(GoodFrames) /\ Len(fs) = Len(frames)
      /\ \A i \in 1 .. Len(frames) : fs[i] = IF i = Len(frames) THEN f ELSE frames[i]
  BY <1>1, SetFacts DEF Depth
<1> HIDE DEF fs
<1>3. \A i \in 1 .. Len(frames) :
        fs[i].prot = frames[i].prot /\ fs[i].err \in {frames[i].err, NoError}
  BY <1>1, <1>2 DEF Top, Depth
<1>4. Sound(coroutine, fs)
  <2>1. Len(frames) \in 0 .. Len(fs)
    BY <1>1, <1>2
  <2>2. \A i \in Len(frames) + 1 .. Len(fs) : fs[i].err = NoError
    BY <1>1, <1>2
  <2> QED
    BY <1>1, <1>2, <1>3, <2>1, <2>2, KeptFrames
<1> QED
  BY <1>4 DEF fs

-----------------------------------------------------------------------------
(* The frames a step makes.                                                  *)

LEMMA ReplacingGood ==
  ASSUME NEW f \in GoodFrames
  PROVE  /\ Replacing(f) \in GoodFrames
         /\ Replacing(f).err = NoError
<1>1. /\ NewFrame \in FrameSet /\ NewFrame.err = NoError /\ f \in FrameSet
      /\ f.prot # "handler" => f.depth = 0
  BY NewFrameGood DEF GoodFrames, NewFrame
<1>2. Replacing(f) \in FrameSet
  BY <1>1 DEF Replacing, FrameSet
<1>3. /\ Replacing(f).prot = f.prot /\ Replacing(f).depth = f.depth
      /\ Replacing(f).err = NoError
  BY <1>1 DEF Replacing, FrameSet
<1> QED
  BY <1>1, <1>2, <1>3 DEF GoodFrames

LEMMA TrampolineGood ==
  ASSUME NEW f \in GoodFrames
  PROVE  Trampoline(f) \in GoodFrames /\ Trampoline(f).err = f.err
<1>1. f \in FrameSet /\ (f.prot # "handler" => f.depth = 0)
  BY DEF GoodFrames
<1>2. Trampoline(f) \in FrameSet
  BY <1>1 DEF Trampoline, FrameSet
<1>3. /\ Trampoline(f).prot = f.prot /\ Trampoline(f).depth = f.depth
      /\ Trampoline(f).err = f.err
  BY <1>1 DEF Trampoline, FrameSet
<1> QED
  BY <1>1, <1>2, <1>3 DEF GoodFrames

LEMMA HandlerGood ==
  ASSUME NEW f \in FrameSet, f.depth < MaxHandlers
  PROVE  Handler(f) \in GoodFrames /\ Handler(f).err = f.err
<1>1. f.depth + 1 \in 0 .. MaxHandlers /\ "handler" \in Protections
  BY FramesAssumption DEF FrameSet, Protections
<1>2. Handler(f) \in FrameSet
  BY <1>1 DEF Handler, FrameSet
<1>3. Handler(f).prot = "handler" /\ Handler(f).err = f.err
  BY DEF Handler, FrameSet
<1> QED
  BY <1>2, <1>3 DEF GoodFrames

LEMMA NewErr == NewFrame.err = NoError /\ NewFrame.depth = 0 /\ NewFrame \in FrameSet
  BY NewFrameGood DEF GoodFrames, NewFrame

-----------------------------------------------------------------------------
(* Results and errors.                                                       *)

LEMMA HeadFacts ==
  /\ <<>> \in Seq(Heads) /\ <<TRUE>> \in Seq(Heads) /\ <<FALSE>> \in Seq(Heads)
  /\ \A e \in Errors : <<FALSE, e>> \in Seq(Heads)
  BY DEF Heads

LEMMA PassedHeads ==
  ASSUME NEW p, NEW r \in Seq(Heads)
  PROVE  Passed(p, r) \in Seq(Heads)
<1>1. \A t \in Seq(Heads) : <<TRUE>> \o t \in Seq(Heads) /\ <<FALSE>> \o t \in Seq(Heads)
  <2>1. \A u, t \in Seq(Heads) : u \o t \in Seq(Heads)
    OBVIOUS
  <2> QED
    BY <2>1, HeadFacts
<1>2. SubSeq(r, 1, IF Len(r) > 0 THEN 1 ELSE 0) \in Seq(Heads)
  <2>1. \A k \in 0 .. Len(r) : SubSeq(r, 1, k) \in Seq(Heads)
    OBVIOUS
  <2>2. (IF Len(r) > 0 THEN 1 ELSE 0) \in 0 .. Len(r)
    OBVIOUS
  <2> QED
    BY <2>1, <2>2
<1> QED
  BY <1>1, <1>2 DEF Passed

LEMMA ReturnsFacts ==
  ASSUME Inv, frames # <<>>, NEW r \in Seq(Heads), Returns(frames, r)
  PROVE  Sound(coroutine, frames') /\ got' \in Seq(Heads)
<1>1. Sound(coroutine, Below(frames))
  BY PopSound DEF Inv
<1>2. frames' = Below(frames)
  BY DEF Returns
<1>3. got' \in {<<>>, Passed(frames[Len(frames)].prot, r)}
  BY DEF Returns
<1> QED
  BY <1>1, <1>2, <1>3, HeadFacts, PassedHeads

(* The loop of a coroutine marks a frame with an error only when a protected   *)
(* one is there to catch it.                                                *)
LEMMA RaisesFacts ==
  ASSUME Inv, NEW fs, Sound(coroutine, fs), NEW e \in Errors, Raises(fs, e)
  PROVE  Sound(coroutine, frames') /\ dead' \in Errors \cup {NoError}
<1>1. CASE fs = <<>> \/ (coroutine /\ \A i \in DOMAIN fs : fs[i].prot = "none")
  BY <1>1 DEF Raises
<1>2. CASE ~(fs = <<>> \/ (coroutine /\ \A i \in DOMAIN fs : fs[i].prot = "none"))
  <2> DEFINE g == [fs[Len(fs)] EXCEPT !.err = e]
             gs == [fs EXCEPT ![Len(fs)] = g]
  <2>1. frames' = gs /\ dead' = dead
    BY <1>2 DEF Raises
  <2>2. /\ fs \in Seq(GoodFrames) /\ Len(fs) \in Nat \ {0} /\ Len(fs) <= MaxFrames
        /\ fs[Len(fs)] \in GoodFrames
    BY <1>2, BelowFacts DEF Sound
  <2>3. /\ g \in GoodFrames /\ g.prot = fs[Len(fs)].prot
    BY <2>2 DEF GoodFrames, FrameSet
  <2>4. /\ gs \in Seq(GoodFrames) /\ Len(gs) = Len(fs)
        /\ \A i \in 1 .. Len(fs) : gs[i] = IF i = Len(fs) THEN g ELSE fs[i]
    BY <2>2, <2>3, SetFacts
  <2>5. \A i \in 1 .. Len(fs) : gs[i].prot = fs[i].prot
    BY <2>3, <2>4
  <2>6. coroutine => Caught(gs)
    <3> SUFFICES ASSUME coroutine, NEW i \in 1 .. Len(fs), gs[i].err # NoError
                 PROVE  \E j \in 1 .. i : gs[j].prot # "none"
      BY <2>4 DEF Caught
    <3>1. CASE i = Len(fs)
      <4>1. DOMAIN fs = 1 .. Len(fs)
        BY <2>2
      <4>2. PICK j \in 1 .. Len(fs) : fs[j].prot # "none"
        BY <1>2, <4>1
      <4> QED
        BY <3>1, <4>2, <2>5
    <3>2. CASE i # Len(fs)
      <4>1. fs[i].err # NoError
        BY <3>2, <2>4
      <4>2. PICK j \in 1 .. i : fs[j].prot # "none"
        BY <4>1 DEF Sound, Caught
      <4>3. j \in 1 .. Len(fs)
        BY <2>2
      <4> QED
        BY <4>2, <4>3, <2>5
    <3> QED
      BY <3>1, <3>2
  <2> HIDE DEF g, gs
  <2> QED
    BY <2>1, <2>2, <2>4, <2>6 DEF Sound, Inv
<1> QED
  BY <1>1, <1>2

LEMMA GivesFacts ==
  ASSUME Inv, frames # <<>>, NEW tail, NEW r \in Seq(Heads), Gives(tail, r)
  PROVE  Sound(coroutine, frames') /\ got' \in Seq(Heads)
<1>1. CASE tail
  BY <1>1, ReturnsFacts DEF Gives
<1>2. CASE ~tail
  BY <1>2 DEF Gives, Inv
<1> QED
  BY <1>1, <1>2

LEMMA CallHandlerFacts ==
  ASSUME Inv, frames # <<>>, NEW kind \in Kinds, NEW tail \in BOOLEAN, NEW e \in Errors,
         CallHandler(kind, tail, e)
  PROVE  Sound(coroutine, frames') /\ got' \in Seq(Heads)
<1> DEFINE astray == [NewFrame EXCEPT !.astray = TRUE]
<1>1. /\ astray \in FrameSet /\ astray.depth = 0 /\ astray.err = NoError
  BY NewErr DEF FrameSet
<1>2. /\ Handler(astray) \in GoodFrames /\ Handler(astray).err = NoError
      /\ Handler(NewFrame) \in GoodFrames /\ Handler(NewFrame).err = NoError
  <2>1. 0 < MaxHandlers
    BY FramesAssumption
  <2> HIDE DEF astray
  <2> QED
    BY <1>1, <2>1, NewErr, HandlerGood
<1>3. CASE kind = "plain"
  BY <1>3, GivesFacts, HeadFacts DEF CallHandler
<1>4. CASE kind = "host"
  BY <1>4, GivesFacts, HeadFacts DEF CallHandler
<1>5. CASE kind = "lua" /\ tail
  <2>1. frames' = Append(Below(frames), Handler(astray)) /\ got' = <<>>
    BY <1>5 DEF CallHandler
  <2> QED
    BY <2>1, <1>2, ReplaceSound, HeadFacts DEF Inv
<1>6. CASE kind = "lua" /\ ~tail
  <2>1. CASE Depth >= MaxFrames
    <3>1. Gives(FALSE, <<FALSE, InHandling>>)
      BY <1>6, <2>1 DEF CallHandler
    <3>2. InHandling \in Errors
      BY DEF Errors
    <3> QED
      BY <3>1, <3>2, GivesFacts, HeadFacts
  <2>2. CASE ~(Depth >= MaxFrames)
    <3>1. frames' = Append(frames, Handler(NewFrame)) /\ got' = <<>>
      BY <1>6, <2>2 DEF CallHandler
    <3>2. Depth < MaxFrames
      BY <2>2, FramesAssumption DEF Depth, Inv, Sound
    <3> QED
      BY <3>1, <3>2, <1>2, PushSound, HeadFacts DEF Inv
  <2> QED
    BY <2>1, <2>2
<1> QED
  BY <1>3, <1>4, <1>5, <1>6 DEF Kinds

-----------------------------------------------------------------------------
(* The steps.                                                               *)

LEMMA TopFacts ==
  ASSUME Inv, frames # <<>>
  PROVE  /\ Depth \in 1 .. MaxFrames /\ Top \in GoodFrames
         /\ frames \in Seq(GoodFrames)
  BY BelowFacts, FramesAssumption DEF Inv, Sound, Depth, Top

(* A step that neither begins nor yields keeps the invariant when it keeps     *)
(* the frames, the last result and the error sound.                          *)
LEMMA InvKept ==
  ASSUME Inv, coroutine' = coroutine, Sound(coroutine, frames'), got' \in Seq(Heads),
         dead' \in Errors \cup {NoError}, fate' \in {"none", "closed", "full", "stopped"},
         nest' \in Nests, yielded' \in Yields, ~yielded'.on
  PROVE  Inv'
  BY DEF Inv, Sound, Caught, Heads, Yields, Nests, GoodFrames, FrameSet, Protections, Open

LEMMA PlainKept ==
  ASSUME Inv, Plain, ~yielded.on, Sound(coroutine, frames'), got' \in Seq(Heads),
         dead' \in Errors \cup {NoError}
  PROVE  Inv'
  BY InvKept DEF Plain, Inv

LEMMA BeginInv == ASSUME Inv, NEW co \in BOOLEAN, Begin(co) PROVE Inv'
<1>1. /\ <<NewFrame>> \in Seq(GoodFrames) /\ Len(<<NewFrame>>) = 1 /\ <<NewFrame>> # <<>>
      /\ \A i \in 1 .. 1 : <<NewFrame>>[i].err = NoError
  BY NewFrameGood, NewErr
<1>2. Sound(co, <<NewFrame>>)
  BY <1>1, FramesAssumption DEF Sound, Caught
<1>3. NoNest \in Nests /\ NotYielded \in Yields
  BY FramesAssumption DEF NoNest, Nests, NotYielded, Yields
<1> QED
  BY <1>1, <1>2, <1>3, HeadFacts
  DEF Begin, Inv, Sound, Caught, Heads, Yields, Nests, GoodFrames, FrameSet, Protections, Open

LEMMA InstructionInv ==
  ASSUME Inv, \/ Step \/ OpenTbc \/ Call \/ TailCall \/ Return
              \/ \E n \in 0 .. MaxTbc : CloseScope(n)
              \/ \E e \in Thrown : Raise(e)
  PROVE  Inv'
<1>1. ~yielded.on /\ frames # <<>> /\ Plain
  BY DEF Step, OpenTbc, Call, TailCall, Return, CloseScope, Raise, Leaves, Runs, Ready
<1>2. Depth \in 1 .. MaxFrames /\ Top \in GoodFrames /\ Sound(coroutine, frames)
  BY <1>1, TopFacts DEF Inv
<1>3. CASE Step
  BY <1>1, <1>2, <1>3, PlainKept, HeadFacts DEF Step, Inv
<1>4. CASE OpenTbc
  <2> DEFINE f == [Top EXCEPT !.tbc = @ + 1]
  <2>1. f \in GoodFrames /\ f.prot = Top.prot /\ f.err = Top.err
    BY <1>2, <1>4, FramesAssumption DEF OpenTbc, GoodFrames, FrameSet
  <2>2. frames' = [frames EXCEPT ![Depth] = f]
    BY <1>4 DEF OpenTbc, Top
  <2> HIDE DEF f
  <2>3. Sound(coroutine, frames')
    BY <1>1, <1>2, <2>1, <2>2, TouchSound
  <2> QED
    BY <1>1, <1>4, <2>3, PlainKept, HeadFacts DEF OpenTbc, Inv
<1>5. CASE Call
  <2>1. CASE Depth >= MaxFrames
    <3>1. Raises(frames, Overflow) /\ Overflow \in Errors
      BY <1>5, <2>1 DEF Call, Errors
    <3> QED
      BY <1>1, <1>2, <1>5, <3>1, RaisesFacts, PlainKept, HeadFacts DEF Call
  <2>2. CASE ~(Depth >= MaxFrames)
    <3>1. frames' = Append(frames, NewFrame) /\ UNCHANGED dead /\ Depth < MaxFrames
      BY <1>2, <1>5, <2>2, FramesAssumption DEF Call
    <3>2. Sound(coroutine, frames')
      BY <1>2, <3>1, NewFrameGood, NewErr, PushSound
    <3> QED
      BY <1>1, <1>5, <3>1, <3>2, PlainKept, HeadFacts DEF Call, Inv
  <2> QED
    BY <2>1, <2>2
<1>6. CASE TailCall
  <2>1. Sound(coroutine, frames')
    BY <1>1, <1>2, <1>6, ReplacingGood, ReplaceSound DEF TailCall
  <2> QED
    BY <1>1, <1>6, <2>1, PlainKept, HeadFacts DEF TailCall, Inv
<1>7. CASE Return
  <2>1. (IF Top.tramp THEN got ELSE <<>>) \in Seq(Heads)
    BY HeadFacts DEF Inv
  <2>2. Sound(coroutine, frames') /\ got' \in Seq(Heads)
    BY <1>1, <1>7, <2>1, ReturnsFacts DEF Return
  <2> QED
    BY <1>1, <1>7, <2>2, PlainKept DEF Return, Inv
<1>8. ASSUME NEW n \in 0 .. MaxTbc, CloseScope(n)
      PROVE  Inv'
  <2> DEFINE f == [Top EXCEPT !.target = n]
  <2>1. f \in GoodFrames /\ f.prot = Top.prot /\ f.err = Top.err
    BY <1>2, FramesAssumption DEF GoodFrames, FrameSet, Open
  <2>2. frames' = [frames EXCEPT ![Depth] = f]
    BY <1>8 DEF CloseScope, Top
  <2> HIDE DEF f
  <2>3. Sound(coroutine, frames')
    BY <1>1, <1>2, <2>1, <2>2, TouchSound
  <2> QED
    BY <1>1, <1>8, <2>3, PlainKept, HeadFacts DEF CloseScope, Inv
<1>9. ASSUME NEW e \in Thrown, Raise(e)
      PROVE  Inv'
  BY <1>1, <1>2, <1>9, RaisesFacts, PlainKept, HeadFacts DEF Raise, Errors
<1> QED
  BY <1>3, <1>4, <1>5, <1>6, <1>7, <1>8, <1>9

(* pcall and xpcall.                                                        *)

LEMMA MayProtectFacts ==
  ASSUME Inv, NEW tail \in BOOLEAN, MayProtect(tail)
  PROVE  ~yielded.on /\ frames # <<>>
  BY DEF MayProtect, Leaves, Runs, Ready

LEMMA NestFacts == NoNest \in Nests /\ NotYielded \in Yields /\ ~NotYielded.on
  BY FramesAssumption DEF NoNest, Nests, NotYielded, Yields

LEMMA Joined ==
  ASSUME NEW S, NEW s \in Seq(S), NEW t \in Seq(S)
  PROVE  /\ s \o t \in Seq(S) /\ Len(s \o t) = Len(s) + Len(t) /\ Len(s) \in Nat
         /\ \A i \in 1 .. Len(s) : (s \o t)[i] = s[i]
         /\ \A i \in 1 .. Len(t) : (s \o t)[Len(s) + i] = t[i]
<1>1. s \o t \in Seq(S) /\ Len(s \o t) = Len(s) + Len(t) /\ Len(s) \in Nat
  OBVIOUS
<1>2. \A i \in 1 .. Len(s) : (s \o t)[i] = s[i]
  OBVIOUS
<1>3. \A i \in 1 .. Len(t) : (s \o t)[Len(s) + i] = t[i]
  OBVIOUS
<1> QED
  BY <1>1, <1>2, <1>3

LEMMA PairPushed ==
  ASSUME NEW S, NEW s \in Seq(S), NEW a \in S, NEW b \in S
  PROVE  /\ s \o <<a, b>> \in Seq(S) /\ Len(s \o <<a, b>>) = Len(s) + 2
         /\ \A i \in 1 .. Len(s) : (s \o <<a, b>>)[i] = s[i]
         /\ (s \o <<a, b>>)[Len(s) + 1] = a
         /\ (s \o <<a, b>>)[Len(s) + 2] = b
<1>1. <<a, b>> \in Seq(S) /\ Len(<<a, b>>) = 2 /\ <<a, b>>[1] = a /\ <<a, b>>[2] = b
  OBVIOUS
<1>2. PICK t \in Seq(S) : t = <<a, b>>
  BY <1>1
<1>3. Len(t) = 2 /\ t[1] = a /\ t[2] = b
  BY <1>1, <1>2
<1>4. /\ s \o t \in Seq(S) /\ Len(s \o t) = Len(s) + Len(t) /\ Len(s) \in Nat
      /\ \A i \in 1 .. Len(s) : (s \o t)[i] = s[i]
      /\ \A i \in 1 .. Len(t) : (s \o t)[Len(s) + i] = t[i]
  BY Joined
<1>5. PICK u : u = s \o t
  OBVIOUS
<1>6. /\ u \in Seq(S) /\ Len(u) = Len(s) + 2 /\ \A i \in 1 .. Len(s) : u[i] = s[i]
      /\ \A i \in 1 .. 2 : u[Len(s) + i] = t[i]
  BY <1>3, <1>4, <1>5
<1>7. u[Len(s) + 1] = a /\ u[Len(s) + 2] = b
  BY <1>3, <1>6
<1>8. u = s \o <<a, b>>
  BY <1>2, <1>5
<1> QED
  BY <1>6, <1>7, <1>8

LEMMA ProtectedCallInv ==
  ASSUME Inv, NEW kind \in Kinds, NEW tail \in BOOLEAN, ProtectedCall(kind, tail)
  PROVE  Inv'
<1> DEFINE target == [NewFrame EXCEPT !.prot = kind]
           tramp == Trampoline(Replacing(Top))
<1>1. ~yielded.on /\ frames # <<>>
  BY MayProtectFacts DEF ProtectedCall
<1>2. Depth \in 1 .. MaxFrames /\ Top \in GoodFrames /\ Sound(coroutine, frames)
  BY <1>1, TopFacts DEF Inv
<1>3. target \in GoodFrames /\ target.err = NoError
  <2>1. kind \in Protections \ {"handler"}
    BY DEF Kinds, Protections
  <2> QED
    BY <2>1, NewFrameGood, NewErr DEF FrameSet
<1>4. tramp \in GoodFrames /\ tramp.err = NoError
  <2>1. Replacing(Top) \in GoodFrames /\ Replacing(Top).err = NoError
    BY <1>2, ReplacingGood
  <2> QED
    BY <2>1, TrampolineGood
<1>5. Sound(coroutine, frames') /\ got' \in Seq(Heads)
  <2>1. CASE Depth >= MaxFrames
    <3>1. CallHandler(kind, tail, Overflow) /\ Overflow \in Errors
      BY <2>1 DEF ProtectedCall, Errors
    <3> QED
      BY <1>1, <3>1, CallHandlerFacts
  <2>2. CASE ~(Depth >= MaxFrames) /\ ~tail
    <3>1. frames' = Append(frames, target) /\ got' = <<>> /\ Depth < MaxFrames
      BY <1>2, <2>2, FramesAssumption DEF ProtectedCall
    <3> HIDE DEF target
    <3> QED
      BY <1>2, <1>3, <3>1, PushSound, HeadFacts
  <2>3. CASE ~(Depth >= MaxFrames) /\ tail
    <3> DEFINE fs == Below(frames) \o <<tramp, target>>
    <3>1. frames' = fs /\ got' = <<>> /\ Depth < MaxFrames
      <4>1. frames' = fs /\ got' = <<>>
        BY <2>3 DEF ProtectedCall
      <4>2. Depth < MaxFrames
        BY <1>2, <2>3, FramesAssumption
      <4> QED
        BY <4>1, <4>2
    <3> HIDE DEF target, tramp
    <3>2. /\ Below(frames) \in Seq(GoodFrames) /\ Len(Below(frames)) = Depth - 1
          /\ \A i \in 1 .. Depth - 1 : Below(frames)[i] = frames[i]
      BY <1>1, <1>2, BelowFacts DEF Sound, Depth
    <3>3. /\ fs \in Seq(GoodFrames) /\ Len(fs) = Depth + 1
          /\ \A i \in 1 .. Depth - 1 : fs[i] = frames[i]
          /\ fs[Depth] = tramp /\ fs[Depth + 1] = target
      <4> DEFINE b == Below(frames)
      <4>1. b \in Seq(GoodFrames) /\ Len(b) = Depth - 1
        BY <3>2
      <4>2. \A i \in 1 .. Depth - 1 : b[i] = frames[i]
        BY <3>2
      <4> HIDE DEF b
      <4>3. /\ b \o <<tramp, target>> \in Seq(GoodFrames)
            /\ Len(b \o <<tramp, target>>) = Len(b) + 2
            /\ \A i \in 1 .. Len(b) : (b \o <<tramp, target>>)[i] = b[i]
            /\ (b \o <<tramp, target>>)[Len(b) + 1] = tramp
            /\ (b \o <<tramp, target>>)[Len(b) + 2] = target
        BY <1>3, <1>4, <4>1, PairPushed
      <4>4. fs = b \o <<tramp, target>>
        BY DEF b
      <4> HIDE DEF fs
      <4> QED
        BY <1>2, <4>1, <4>2, <4>3, <4>4
    <3> HIDE DEF fs
    <3>4. Len(fs) <= MaxFrames /\ Depth - 1 \in 0 .. Len(fs) /\ Depth - 1 <= Len(frames)
      BY <1>2, <3>1, <3>3, FramesAssumption DEF Depth
    <3>5. \A i \in (Depth - 1) + 1 .. Len(fs) : fs[i].err = NoError
      BY <1>2, <1>3, <1>4, <3>3
    <3>6. Sound(coroutine, fs)
      BY <1>2, <3>3, <3>4, <3>5, KeptFrames
    <3> QED
      BY <3>1, <3>6, HeadFacts
  <2> QED
    BY <2>1, <2>2, <2>3
<1> QED
  BY <1>1, <1>5, NestFacts, InvKept DEF ProtectedCall, Inv

LEMMA NestedCallInv ==
  ASSUME Inv, NEW kind \in Kinds, NEW tail \in BOOLEAN, NestedCall(kind, tail)
  PROVE  Inv'
<1> DEFINE plain == [NewFrame EXCEPT !.prot = kind]
           tramp == Trampoline(plain)
           heir == [tramp EXCEPT !.drop = Top.drop, !.astray = Top.astray]
<1>1. ~yielded.on /\ frames # <<>>
  BY MayProtectFacts DEF NestedCall
<1>2. Depth \in 1 .. MaxFrames /\ Top \in GoodFrames /\ Sound(coroutine, frames)
  BY <1>1, TopFacts DEF Inv
<1>3. plain \in GoodFrames /\ plain.err = NoError
  <2>1. kind \in Protections \ {"handler"}
    BY DEF Kinds, Protections
  <2> QED
    BY <2>1, NewFrameGood, NewErr DEF FrameSet
<1>4. tramp \in GoodFrames /\ tramp.err = NoError
  <2> HIDE DEF plain
  <2> QED
    BY <1>3, TrampolineGood
<1>5. heir \in GoodFrames /\ heir.err = NoError
  <2> HIDE DEF tramp
  <2> QED
    BY <1>2, <1>4 DEF GoodFrames, FrameSet
<1>6. nest' \in Nests
  <2>1. [on |-> TRUE, base |-> Depth, tail |-> tail] \in Nests
    BY <1>2 DEF Nests
  <2>2. nest' \in {NoNest, nest, [on |-> TRUE, base |-> Depth, tail |-> tail]}
    BY Zenon DEF NestedCall
  <2> QED
    BY <2>1, <2>2, NestFacts DEF Inv
<1>7. Sound(coroutine, frames') /\ got' \in Seq(Heads)
  <2>1. CASE ~tail /\ Depth >= MaxFrames
    <3>1. CallHandler(kind, tail, Overflow) /\ Overflow \in Errors
      BY <2>1 DEF NestedCall, Errors
    <3> QED
      BY <1>1, <3>1, CallHandlerFacts
  <2>2. CASE ~tail /\ ~(Depth >= MaxFrames)
    <3>1. frames' = Append(frames, tramp) /\ got' = <<>>
      BY <2>2, Zenon DEF NestedCall
    <3>2. Depth < MaxFrames
      BY <1>2, <2>2, FramesAssumption
    <3> HIDE DEF tramp
    <3> QED
      BY <1>2, <1>4, <3>1, <3>2, PushSound, HeadFacts
  <2>3. CASE tail
    <3>1. frames' = Append(Below(frames), heir) /\ got' = <<>>
      BY <2>3 DEF NestedCall
    <3> HIDE DEF heir
    <3> QED
      BY <1>1, <1>2, <1>5, <3>1, ReplaceSound, HeadFacts
  <2> QED
    BY <2>1, <2>2, <2>3
<1> QED
  BY <1>1, <1>6, <1>7, InvKept DEF NestedCall, Inv

LEMMA ProtectedHostCallInv ==
  ASSUME Inv, NEW kind \in Kinds, NEW tail \in BOOLEAN, NEW e \in Thrown \cup {NoError},
         ProtectedHostCall(kind, tail, e)
  PROVE  Inv'
<1>1. ~yielded.on /\ frames # <<>>
  BY MayProtectFacts DEF ProtectedHostCall
<1>2. Sound(coroutine, frames') /\ got' \in Seq(Heads)
  <2>1. CASE e = NoError
    BY <1>1, <2>1, GivesFacts, HeadFacts DEF ProtectedHostCall
  <2>2. CASE e # NoError
    <3>1. e \in Errors /\ CallHandler(kind, tail, e)
      BY <2>2 DEF ProtectedHostCall, Errors
    <3> QED
      BY <1>1, <3>1, CallHandlerFacts
  <2> QED
    BY <2>1, <2>2
<1> QED
  BY <1>1, <1>2, NestFacts, InvKept DEF ProtectedHostCall, Inv

LEMMA BareCallInv == ASSUME Inv, NEW e \in Thrown, BareCall(e) PROVE Inv'
<1>1. ~yielded.on /\ <<FALSE, e>> \in Seq(Heads)
  BY MayProtectFacts, HeadFacts DEF BareCall, Errors
<1> QED
  BY <1>1, NestFacts, InvKept DEF BareCall, Inv

-----------------------------------------------------------------------------
(* Coroutines.                                                              *)

LEMMA YieldInv ==
  ASSUME Inv, NEW tail \in BOOLEAN, NEW status \in BOOLEAN, Yield(tail, status)
  PROVE  Inv'
<1>1. frames # <<>>
  BY DEF Yield, MayProtect, Leaves, Runs, Ready
<1>2. Depth \in 0 .. MaxFrames
  BY <1>1, TopFacts, FramesAssumption
<1>3. yielded' \in Yields
  BY <1>2 DEF Yield, Yields, Inv, Nests
<1>4. /\ frames' = frames /\ coroutine' = coroutine /\ dead' = dead
      /\ nest' \in Nests /\ got' \in Seq(Heads) /\ fate' = "none"
  BY NestFacts, HeadFacts DEF Yield
<1> QED
  BY <1>1, <1>3, <1>4
  DEF Inv, Sound, Caught, Heads, Yields, Nests, GoodFrames, FrameSet, Protections, Open

LEMMA ResumeInv == ASSUME Inv, Resume PROVE Inv'
<1>1. frames # <<>> /\ yielded \in Yields
  BY DEF Resume, Inv
<1> DEFINE r == IF yielded.status THEN <<TRUE>> ELSE <<>>
<1>2. r \in Seq(Heads)
  BY HeadFacts
<1>3. Sound(coroutine, frames') /\ got' \in Seq(Heads)
  <2>1. CASE yielded.tail
    BY <1>1, <1>2, <2>1, ReturnsFacts DEF Resume
  <2>2. CASE ~yielded.tail
    BY <1>2, <2>2, HeadFacts DEF Resume, Inv
  <2> QED
    BY <2>1, <2>2
<1> QED
  BY <1>3, NestFacts, InvKept DEF Resume, Inv

-----------------------------------------------------------------------------
(* _drive_pending.                                                          *)

LEMMA CloseValueInv == ASSUME Inv, CloseValue PROVE Inv'
<1> DEFINE f == [Top EXCEPT !.tbc = @ - 1]
           fs == [frames EXCEPT ![Depth] = f]
           called == [NewFrame EXCEPT !.drop = TRUE]
<1>1. ~yielded.on /\ frames # <<>>
  BY DEF CloseValue, Driven
<1>2. Depth \in 1 .. MaxFrames /\ Top \in GoodFrames /\ Sound(coroutine, frames)
  BY <1>1, TopFacts DEF Inv
<1>3. f \in GoodFrames /\ f.prot = Top.prot /\ f.err = Top.err
  <2>1. Top.tbc \in 0 .. MaxTbc /\ Top.tbc > 0
    <3>1. Top.tbc \in 0 .. MaxTbc /\ Top.target \in 0 .. Open
      BY <1>2 DEF GoodFrames, FrameSet
    <3> QED
      BY <3>1, FramesAssumption DEF CloseValue, Open
  <2>2. Top.tbc - 1 \in 0 .. MaxTbc
    BY <2>1, FramesAssumption
  <2> QED
    BY <1>2, <2>2 DEF GoodFrames, FrameSet
<1>4. Sound(coroutine, fs)
  <2> HIDE DEF f
  <2> QED
    BY <1>1, <1>2, <1>3, TouchSound
<1>5. called \in GoodFrames /\ called.err = NoError
  BY NewFrameGood, NewErr DEF GoodFrames, FrameSet
<1>6. /\ coroutine' = coroutine /\ nest' = nest /\ yielded' = yielded /\ got' = <<>>
      /\ PopValue
  BY DEF CloseValue
<1>7. fs = [frames EXCEPT ![Depth].tbc = @ - 1]
  BY DEF Top
<1>8. /\ Sound(coroutine, frames') /\ dead' \in Errors \cup {NoError}
      /\ fate' \in {"closed", "full"}
  <2>1. CASE frames' = fs /\ fate' = "closed" /\ UNCHANGED dead
    BY <1>4, <2>1 DEF Inv
  <2>2. ASSUME NEW e \in Thrown, Raises(fs, e), fate' = "closed"
        PROVE  /\ Sound(coroutine, frames') /\ dead' \in Errors \cup {NoError}
               /\ fate' \in {"closed", "full"}
    BY <1>4, <2>2, RaisesFacts DEF Errors
  <2>3. CASE Depth >= MaxFrames /\ Raises(fs, Overflow) /\ fate' = "full"
    BY <1>4, <2>3, RaisesFacts DEF Errors
  <2>4. CASE /\ ~(Depth >= MaxFrames) /\ frames' = Append(fs, called)
             /\ fate' = "closed" /\ UNCHANGED dead
    <3> HIDE DEF called
    <3>1. /\ fs \in Seq(GoodFrames) /\ Len(fs) = Len(frames)
          /\ \A i \in 1 .. Len(frames) : fs[i] = IF i = Len(frames) THEN f ELSE frames[i]
      <4> HIDE DEF f
      <4> QED
        BY <1>2, <1>3, SetFacts DEF Sound, Depth
    <3> DEFINE gs == Append(fs, called)
    <3>2. /\ gs \in Seq(GoodFrames) /\ Len(gs) = Len(frames) + 1
          /\ \A i \in 1 .. Len(frames) : gs[i] = fs[i]
          /\ gs[Len(frames) + 1] = called
      <4> HIDE DEF fs
      <4> QED
        BY <1>5, <3>1, PushFacts
    <3> HIDE DEF fs, gs, f
    <3>3. \A i \in 1 .. Len(frames) :
            gs[i].prot = frames[i].prot /\ gs[i].err \in {frames[i].err, NoError}
      BY <1>3, <3>1, <3>2 DEF Top, Depth
    <3>4. /\ Len(gs) <= MaxFrames /\ Len(frames) \in 0 .. Len(gs)
          /\ \A i \in Len(frames) + 1 .. Len(gs) : gs[i].err = NoError
      BY <1>2, <1>5, <2>4, <3>2, FramesAssumption DEF Depth
    <3>5. Sound(coroutine, gs)
      BY <1>2, <3>2, <3>3, <3>4, KeptFrames
    <3> QED
      BY <2>4, <3>5 DEF gs, Inv
  <2> QED
    BY <1>6, <1>7, <2>1, <2>2, <2>3, <2>4 DEF PopValue
<1> QED
  BY <1>1, <1>6, <1>8, HeadFacts, InvKept DEF Inv

LEMMA ScopeClosedInv == ASSUME Inv, ScopeClosed PROVE Inv'
<1> DEFINE f == [Top EXCEPT !.target = Open]
<1>1. ~yielded.on /\ frames # <<>> /\ Plain
  BY DEF ScopeClosed, Driven
<1>2. Depth \in 1 .. MaxFrames /\ Top \in GoodFrames /\ Sound(coroutine, frames)
  BY <1>1, TopFacts DEF Inv
<1>3. f \in GoodFrames /\ f.prot = Top.prot /\ f.err = Top.err
  BY <1>2, FramesAssumption DEF GoodFrames, FrameSet, Open
<1>4. frames' = [frames EXCEPT ![Depth] = f]
  BY DEF ScopeClosed, Top
<1> HIDE DEF f
<1>5. Sound(coroutine, frames')
  BY <1>1, <1>2, <1>3, <1>4, TouchSound
<1> QED
  BY <1>1, <1>5, PlainKept, HeadFacts DEF ScopeClosed, Inv

(* The frame that receives the error in a coroutine has a protected one below  *)
(* it or is protected, because the frame that is left was not.               *)
LEMMA UnwindInv == ASSUME Inv, Unwind PROVE Inv'
<1>1. /\ ~yielded.on /\ frames # <<>> /\ Plain /\ got' = <<>>
      /\ Top.err # NoError /\ Top.prot = "none"
  BY DEF Unwind, Driven
<1>2. Depth \in 1 .. MaxFrames /\ Top \in GoodFrames /\ Sound(coroutine, frames)
  BY <1>1, TopFacts DEF Inv
<1>3. Top.err \in Errors
  BY <1>1, <1>2 DEF GoodFrames, FrameSet
<1>4. CASE Depth = 1
  <2>1. frames' = <<>> /\ dead' \in Errors
    BY <1>3, <1>4 DEF Unwind
  <2>2. Sound(coroutine, <<>>)
    BY FramesAssumption DEF Sound, Caught
  <2> QED
    BY <1>1, <2>1, <2>2, PlainKept, HeadFacts
<1>5. CASE Depth # 1
  <2> DEFINE below == Below(frames)
             g == [below[Depth - 1] EXCEPT !.err = Top.err]
             gs == [below EXCEPT ![Depth - 1] = g]
  <2>1. frames' = gs /\ dead' = dead
    BY <1>5 DEF Unwind
  <2>2. /\ below \in Seq(GoodFrames) /\ Len(below) = Depth - 1 /\ Depth - 1 \in 1 .. Len(below)
        /\ \A i \in 1 .. Depth - 1 : below[i] = frames[i]
    <3>1. /\ below \in Seq(GoodFrames) /\ Len(below) = Depth - 1
          /\ \A i \in 1 .. Depth - 1 : below[i] = frames[i]
      BY <1>1, <1>2, BelowFacts DEF Sound, Depth
    <3> HIDE DEF below
    <3>2. Depth - 1 \in 1 .. Depth - 1
      BY <1>2, <1>5, FramesAssumption
    <3> QED
      BY <3>1, <3>2
  <2> HIDE DEF below
  <2>3. below[Depth - 1] \in GoodFrames
    BY <2>2
  <2>4. g \in GoodFrames /\ g.prot = below[Depth - 1].prot
    BY <1>3, <2>3 DEF GoodFrames, FrameSet
  <2> HIDE DEF g
  <2>5. /\ gs \in Seq(GoodFrames) /\ Len(gs) = Depth - 1
        /\ \A i \in 1 .. Depth - 1 : gs[i] = IF i = Depth - 1 THEN g ELSE below[i]
    BY <2>2, <2>4, SetFacts
  <2> HIDE DEF gs
  <2>6. \A i \in 1 .. Depth - 1 : gs[i].prot = frames[i].prot
    BY <2>2, <2>4, <2>5
  <2>7. coroutine => Caught(gs)
    <3> SUFFICES ASSUME coroutine, NEW i \in 1 .. Depth - 1, gs[i].err # NoError
                 PROVE  \E j \in 1 .. i : gs[j].prot # "none"
      BY <2>5 DEF Caught
    <3>1. CASE i = Depth - 1
      <4>1. PICK j \in 1 .. Depth : frames[j].prot # "none"
        BY <1>1, <1>2 DEF Sound, Caught, Top, Depth
      <4>2. j \in 1 .. i
        BY <1>1, <1>2, <3>1, <4>1 DEF Top
      <4> QED
        BY <3>1, <4>1, <4>2, <2>6
    <3>2. CASE i # Depth - 1
      <4>1. frames[i].err # NoError /\ i \in 1 .. Len(frames)
        BY <1>2, <2>2, <2>5, <3>2 DEF Depth
      <4>2. PICK j \in 1 .. i : frames[j].prot # "none"
        BY <1>2, <4>1 DEF Sound, Caught
      <4>3. j \in 1 .. Depth - 1
        BY <1>2
      <4> QED
        BY <4>2, <4>3, <2>6
    <3> QED
      BY <3>1, <3>2
  <2>8. Sound(coroutine, gs)
    BY <1>2, <2>5, <2>7, FramesAssumption DEF Sound
  <2> QED
    BY <1>1, <2>1, <2>8, PlainKept, HeadFacts DEF Inv
<1> QED
  BY <1>4, <1>5

LEMMA FinishProtectedInv == ASSUME Inv, FinishProtected PROVE Inv'
<1> DEFINE f == [NewFrame EXCEPT !.depth = Top.depth, !.drop = Top.drop, !.astray = Top.astray]
<1>1. ~yielded.on /\ frames # <<>> /\ Plain /\ Top.err # NoError
  BY DEF FinishProtected, Driven
<1>2. Depth \in 1 .. MaxFrames /\ Top \in GoodFrames /\ Sound(coroutine, frames)
  BY <1>1, TopFacts DEF Inv
<1>3. Top.err \in Errors
  BY <1>1, <1>2 DEF GoodFrames, FrameSet
<1>4. CASE Depth = 1
  <2>1. frames' = <<>> /\ dead' \in Errors /\ got' = <<>>
    BY <1>3, <1>4 DEF FinishProtected
  <2>2. Sound(coroutine, <<>>)
    BY FramesAssumption DEF Sound, Caught
  <2> QED
    BY <1>1, <2>1, <2>2, PlainKept, HeadFacts
<1>5. CASE Depth # 1 /\ Top.prot \in {"lua", "handler"} /\ ~Exhausted
  <2>1. frames' = Append(Below(frames), Handler(f)) /\ got' = <<>> /\ dead' = dead
    BY <1>5 DEF FinishProtected
  <2>2. Top.depth \in 0 .. MaxHandlers /\ Top.depth < MaxHandlers
    <3>1. Top.depth \in 0 .. MaxHandlers /\ (Top.prot # "handler" => Top.depth = 0)
      BY <1>2 DEF GoodFrames, FrameSet
    <3> QED
      BY <1>5, <3>1, FramesAssumption DEF Exhausted
  <2>3. f \in FrameSet /\ f.depth = Top.depth /\ f.err = NoError
    BY <1>2, NewErr DEF GoodFrames, FrameSet
  <2> HIDE DEF f
  <2>4. Handler(f) \in GoodFrames /\ Handler(f).err = NoError
    BY <2>2, <2>3, HandlerGood
  <2>5. Sound(coroutine, frames')
    BY <1>1, <1>2, <2>1, <2>4, ReplaceSound
  <2> QED
    BY <1>1, <2>1, <2>5, PlainKept, HeadFacts DEF Inv
<1>6. CASE Depth # 1 /\ ~(Top.prot \in {"lua", "handler"} /\ ~Exhausted)
  <2>1. frames' = Below(frames) /\ dead' = dead
    BY <1>6 DEF FinishProtected
  <2>2. got' \in {<<>>, <<FALSE, Top.err>>, <<FALSE>>, <<FALSE, InHandling>>}
    BY <1>6 DEF FinishProtected
  <2>3. got' \in Seq(Heads)
    BY <1>3, <2>2, HeadFacts DEF Errors
  <2> QED
    BY <1>1, <1>2, <2>1, <2>3, PopSound, PlainKept DEF Inv
<1> QED
  BY <1>4, <1>5, <1>6

LEMMA QuotaExceededInv == ASSUME Inv, QuotaExceeded PROVE Inv'
<1>1. ~yielded.on /\ Sound(coroutine, <<>>)
  BY FramesAssumption DEF QuotaExceeded, Ready, Sound, Caught
<1> QED
  BY <1>1, NestFacts, HeadFacts, InvKept DEF QuotaExceeded, Inv

-----------------------------------------------------------------------------
THEOREM InitInv == Init => Inv
<1>1. ASSUME Init
      PROVE  Sound(coroutine, frames)
  BY <1>1, FramesAssumption DEF Init, Sound, Caught
<1> QED
  BY <1>1, NestFacts, HeadFacts DEF Init, Inv

THEOREM StepInv == Inv /\ [Next]_vars => Inv'
<1> SUFFICES ASSUME Inv, [Next]_vars
             PROVE  Inv'
  OBVIOUS
<1>1. ASSUME NEW co \in BOOLEAN, Begin(co)
      PROVE  Inv'
  BY <1>1, BeginInv
<1>2. CASE \/ Step \/ OpenTbc \/ Call \/ TailCall \/ Return
           \/ \E n \in 0 .. MaxTbc : CloseScope(n)
           \/ \E e \in Thrown : Raise(e)
  BY <1>2, InstructionInv
<1>3. ASSUME NEW e \in Thrown, BareCall(e)
      PROVE  Inv'
  BY <1>3, BareCallInv
<1>4. ASSUME NEW kind \in Kinds, NEW tail \in BOOLEAN,
             ProtectedCall(kind, tail) \/ NestedCall(kind, tail)
      PROVE  Inv'
  BY <1>4, ProtectedCallInv, NestedCallInv
<1>5. ASSUME NEW kind \in Kinds, NEW tail \in BOOLEAN, NEW e \in Thrown \cup {NoError},
             ProtectedHostCall(kind, tail, e)
      PROVE  Inv'
  BY <1>5, ProtectedHostCallInv
<1>6. ASSUME NEW tail \in BOOLEAN, NEW status \in BOOLEAN, Yield(tail, status)
      PROVE  Inv'
  BY <1>6, YieldInv
<1>7. CASE Resume
  BY <1>7, ResumeInv
<1>8. CASE CloseValue
  BY <1>8, CloseValueInv
<1>9. CASE ScopeClosed
  BY <1>9, ScopeClosedInv
<1>10. CASE Unwind
  BY <1>10, UnwindInv
<1>11. CASE FinishProtected
  BY <1>11, FinishProtectedInv
<1>12. CASE QuotaExceeded
  BY <1>12, QuotaExceededInv
<1>13. CASE UNCHANGED vars
  BY <1>13 DEF vars, Inv, Sound, Caught, Heads, Yields, Nests, GoodFrames, FrameSet,
     Protections, Open
<1> QED
  BY <1>1, <1>2, <1>3, <1>4, <1>5, <1>6, <1>7, <1>8, <1>9, <1>10, <1>11, <1>12, <1>13
  DEF Next

(* Frames keep to their types: the number of frames to max_frames, and the     *)
(* handlers of xpcall that handle one another's errors to their limit.        *)
THEOREM TypeCorrect == Spec => []TypeOK
<1>1. Inv => TypeOK
  BY DEF Inv, Sound, GoodFrames, TypeOK, Heads, Yields
<1> QED
  BY <1>1, InitInv, StepInv, PTL DEF Spec

(* An error in a coroutine unwinds a frame only when a protected call is there *)
(* to catch it; otherwise the frames stay for coroutine.close.               *)
THEOREM UnwindsProtected == Spec => []UnwindsToProtection
<1>1. Inv => UnwindsToProtection
  BY DEF Inv, Sound, Caught, UnwindsToProtection, Depth
<1> QED
  BY <1>1, InitInv, StepInv, PTL DEF Spec

-----------------------------------------------------------------------------
(* What is computed over a list from the bottom: there is such a course, and   *)
(* two that start and go on alike are alike.                                 *)

LEMMA LeastNumber ==
  ASSUME NEW S \in SUBSET Nat, S # {}
  PROVE  \E x \in S : \A y \in S : x <= y
<1>1. IsWellFoundedOn({ss \in Nat \X Nat : ss[1] < ss[2]}, Nat)
  BY NatLessThanWellFounded DEF OpToRel
<1>2. PICK x \in S : \A y \in S : ~(<<y, x>> \in {ss \in Nat \X Nat : ss[1] < ss[2]})
  BY <1>1, WFMin
<1>3. \A y \in S : ~(y < x)
  BY <1>2
<1>4. \A y \in S : x <= y
  BY <1>3
<1> QED
  BY <1>4

(* Two functions that start alike and go on alike are alike.                  *)
GoesAlike(m, s, t) == s[0] = t[0] /\ \A i \in 1 .. m : s[i - 1] = t[i - 1] => s[i] = t[i]
Alike(m, s, t) == \A i \in 0 .. m : s[i] = t[i]

LEMMA GoOnAlike ==
  ASSUME NEW m \in Nat, NEW s, NEW t, GoesAlike(m, s, t)
  PROVE  Alike(m, s, t)
<1> DEFINE bad == {i \in 0 .. m : s[i] # t[i]}
<1> SUFFICES ASSUME bad # {}
             PROVE  FALSE
  BY DEF Alike
<1>1. PICK x \in bad : \A y \in bad : x <= y
  <2>1. bad \in SUBSET Nat
    OBVIOUS
  <2> HIDE DEF bad
  <2> QED
    BY <2>1, LeastNumber
<1>2. x \in 1 .. m
  BY DEF GoesAlike
<1>3. x - 1 \in 0 .. m /\ x - 1 \notin bad
  BY <1>1, <1>2
<1> QED
  BY <1>2, <1>3 DEF GoesAlike

(* s goes from z by the n steps F, in the set T.                             *)
Course(n, T, z, F, s) ==
  s \in [0 .. n -> T] /\ s[0] = z /\ \A i \in 1 .. n : s[i] = F[i][s[i - 1]]

LEMMA GoOn ==
  ASSUME NEW n \in Nat, NEW T, NEW z \in T, NEW F \in [1 .. n -> [T -> T]]
  PROVE  \E s : Course(n, T, z, F, s)
<1> DEFINE Goes(m) ==
      \E s : /\ s \in [0 .. m -> T]
             /\ s[0] = z /\ \A i \in 1 .. m : s[i] = F[i][s[i - 1]]
<1> DEFINE bad == {m \in 0 .. n : ~Goes(m)}
<1>0. Goes(0)
  <2> DEFINE t == [i \in 0 .. 0 |-> z]
  <2>1. t \in [0 .. 0 -> T] /\ t[0] = z
    OBVIOUS
  <2>2. \A i \in 1 .. 0 : t[i] = F[i][t[i - 1]]
    OBVIOUS
  <2> HIDE DEF t
  <2> QED
    BY <2>1, <2>2
<1>1. ASSUME NEW m \in 1 .. n, Goes(m - 1)
      PROVE  Goes(m)
  <2>1. PICK s \in [0 .. m - 1 -> T] :
          s[0] = z /\ \A i \in 1 .. m - 1 : s[i] = F[i][s[i - 1]]
    BY <1>1
  <2> DEFINE t == [i \in 0 .. m |-> IF i = m THEN F[m][s[m - 1]] ELSE s[i]]
  <2>2. F[m][s[m - 1]] \in T
    <3>1. s[m - 1] \in T /\ F[m] \in [T -> T]
      BY <2>1
    <3> QED
      BY <3>1
  <2>3. t \in [0 .. m -> T]
    BY <2>1, <2>2
  <2>4. t[0] = z
    BY <2>1
  <2>5. ASSUME NEW i \in 1 .. m
        PROVE  t[i] = F[i][t[i - 1]]
    BY <2>1
  <2> QED
    BY <2>3, <2>4, <2>5
<1> SUFFICES Goes(n)
  BY DEF Course
<1> HIDE DEF Goes
<1> SUFFICES ASSUME bad # {}
             PROVE  FALSE
  OBVIOUS
<1>2. PICK x \in bad : \A y \in bad : x <= y
  <2>1. bad \in SUBSET Nat
    OBVIOUS
  <2> HIDE DEF bad
  <2> QED
    BY <2>1, LeastNumber
<1>3. x \in 1 .. n
  BY <1>0
<1>4. x - 1 \in 0 .. n /\ x - 1 \notin bad
  BY <1>2, <1>3
<1> QED
  BY <1>1, <1>3, <1>4

-----------------------------------------------------------------------------
LEMMA PendingFacts ==
  ASSUME NEW fs \in Seq(GoodFrames)
  PROVE  \E s :
           /\ s \in [0 .. Len(fs) -> Nat]
           /\ s[0] = 0 /\ \A i \in 1 .. Len(fs) : s[i] = s[i - 1] + fs[i].tbc
           /\ PendingIn(fs) = s[Len(fs)]
<1> DEFINE n == Len(fs)
           F == [i \in 1 .. n |-> [x \in Nat |-> x + fs[i].tbc]]
           Sums(s) == s = [i \in 0 .. n |-> IF i = 0 THEN 0 ELSE s[i - 1] + fs[i].tbc]
           c == CHOOSE s : Sums(s)
<1>1. n \in Nat
  OBVIOUS
<1>2. \A i \in 1 .. n : fs[i].tbc \in Nat
  <2>1. \A f \in GoodFrames : f.tbc \in Nat
    BY DEF GoodFrames, FrameSet
  <2>2. \A i \in 1 .. n : fs[i] \in GoodFrames
    OBVIOUS
  <2> QED
    BY <2>1, <2>2
<1>3. F \in [1 .. n -> [Nat -> Nat]]
  BY <1>2
<1>4. PICK t : Course(n, Nat, 0, F, t)
  <2> HIDE DEF n, F
  <2>1. 0 \in Nat
    OBVIOUS
  <2> QED
    BY <1>1, <1>3, <2>1, GoOn, Zenon
<1>40. t \in [0 .. n -> Nat] /\ t[0] = 0 /\ \A i \in 1 .. n : t[i] = F[i][t[i - 1]]
  BY <1>4 DEF Course
<1>5. \A i \in 1 .. n : t[i - 1] \in Nat /\ t[i] = t[i - 1] + fs[i].tbc
  <2> TAKE i \in 1 .. n
  <2>1. t[i - 1] \in Nat
    BY <1>1, <1>40
  <2> QED
    BY <1>40, <2>1
<1>6. t = [i \in 0 .. n |-> IF i = 0 THEN 0 ELSE t[i - 1] + fs[i].tbc]
  <2> HIDE DEF n, F
  <2>1. \A i \in 0 .. n : t[i] = IF i = 0 THEN 0 ELSE t[i - 1] + fs[i].tbc
    BY <1>1, <1>40, <1>5
  <2> QED
    BY <1>40, <2>1
<1>7. Sums(c)
  BY <1>6
<1>8. c[0] = 0 /\ \A i \in 1 .. n : c[i] = c[i - 1] + fs[i].tbc
  <2> HIDE DEF c, n
  <2>1. \A i \in 0 .. n : c[i] = IF i = 0 THEN 0 ELSE c[i - 1] + fs[i].tbc
    BY <1>7
  <2> QED
    BY <1>1, <2>1
<1>9. \A i \in 0 .. n : c[i] = t[i]
  <2> HIDE DEF c, n, F
  <2>1. c[0] = t[0] /\ \A i \in 1 .. n : c[i - 1] = t[i - 1] => c[i] = t[i]
    BY <1>40, <1>5, <1>8
  <2>2. n \in Nat /\ GoesAlike(n, c, t)
    BY <1>1, <2>1 DEF GoesAlike
  <2>3. Alike(n, c, t)
    BY <2>2, GoOnAlike
  <2> QED
    BY <2>3 DEF Alike
<1>10. PendingIn(fs) = c[n]
  BY DEF PendingIn
<1>11. PendingIn(fs) = t[n]
  <2> HIDE DEF c, n
  <2> QED
    BY <1>1, <1>9, <1>10
<1> QED
  BY <1>40, <1>5, <1>11

LEMMA PendingPush ==
  ASSUME NEW fs \in Seq(GoodFrames), NEW f \in GoodFrames
  PROVE  /\ PendingIn(fs) \in Nat
         /\ PendingIn(Append(fs, f)) = PendingIn(fs) + f.tbc
<1> DEFINE gs == Append(fs, f)
<1>1. /\ gs \in Seq(GoodFrames) /\ Len(gs) = Len(fs) + 1 /\ Len(fs) \in Nat
      /\ \A i \in 1 .. Len(fs) : gs[i] = fs[i]
      /\ gs[Len(fs) + 1] = f
  BY PushFacts
<1> HIDE DEF gs
<1>2. PICK s :
        /\ s \in [0 .. Len(fs) -> Nat]
        /\ s[0] = 0 /\ \A i \in 1 .. Len(fs) : s[i] = s[i - 1] + fs[i].tbc
        /\ PendingIn(fs) = s[Len(fs)]
  BY PendingFacts
<1>3. PICK t :
        /\ t \in [0 .. Len(gs) -> Nat]
        /\ t[0] = 0 /\ \A i \in 1 .. Len(gs) : t[i] = t[i - 1] + gs[i].tbc
        /\ PendingIn(gs) = t[Len(gs)]
  BY <1>1, PendingFacts
<1>4. s[0] = t[0] /\ \A i \in 1 .. Len(fs) : s[i - 1] = t[i - 1] => s[i] = t[i]
  <2>1. \A i \in 1 .. Len(fs) : i \in 1 .. Len(gs) /\ gs[i] = fs[i]
    BY <1>1
  <2> QED
    BY <1>2, <1>3, <2>1
<1>5. s[Len(fs)] = t[Len(fs)]
  <2>1. Len(fs) \in Nat
    BY <1>1
  <2>2. GoesAlike(Len(fs), s, t)
    BY <1>4 DEF GoesAlike
  <2>3. Alike(Len(fs), s, t)
    BY <2>1, <2>2, GoOnAlike
  <2> QED
    BY <2>1, <2>3 DEF Alike
<1>6. PendingIn(gs) = t[Len(fs)] + f.tbc
  BY <1>1, <1>3
<1> QED
  BY <1>1, <1>2, <1>5, <1>6 DEF gs

LEMMA PendingNone == PendingIn(<<>>) = 0
<1>1. <<>> \in Seq(GoodFrames) /\ Len(<<>>) = 0
  OBVIOUS
<1>2. PICK s : s[0] = 0 /\ PendingIn(<<>>) = s[0]
  BY <1>1, PendingFacts
<1> QED
  BY <1>2

-----------------------------------------------------------------------------
(* How one frame rests on another.                                          *)

(* A trampoline holds nothing and is left by no error.                        *)
Neat(f) ==
  /\ f.tramp => f.tbc = 0 /\ f.target = Open /\ f.err = NoError
  /\ Odd = {} => ~f.astray

(* g is on f: a trampoline waits for a protected call, and an error for a      *)
(* __close handler, whose result is dropped.                                 *)
Fits(f, g) ==
  /\ f.tramp => g.prot # "none"
  /\ Odd = {} /\ f.err # NoError => g.drop

(* g is a frame that may be on top of fs.                                    *)
Rests(fs, g) ==
  /\ Neat(g)
  /\ fs # <<>> => Fits(fs[Len(fs)], g)
  /\ fs = <<>> /\ Odd = {} => g.prot = "none" /\ ~g.drop

Tidy(fs) == \A i \in 1 .. Len(fs) : Rests(SubSeq(fs, 1, i - 1), fs[i])

(* What has still to call is a trampoline; what has yielded was running.      *)
NestTidy ==
  nest.on =>
    /\ frames # <<>> /\ Top.tramp /\ Top.prot # "none" /\ dead = NoError /\ ~yielded.on

YieldTidy ==
  yielded.on =>
    /\ frames # <<>> /\ dead = NoError /\ got = <<>> /\ ~nest.on
    /\ Top.err = NoError /\ Top.target = Open
    /\ yielded.tail => Top.tbc = 0
    /\ Odd = {} => yielded.base = Depth /\ ~Top.tramp

TidyInv == Tidy(frames) /\ NestTidy /\ YieldTidy

-----------------------------------------------------------------------------
LEMMA PushCuts ==
  ASSUME NEW fs \in Seq(GoodFrames), NEW f \in GoodFrames, NEW i \in 1 .. Len(fs) + 1
  PROVE  SubSeq(Append(fs, f), 1, i - 1) = SubSeq(fs, 1, i - 1)
<1> DEFINE gs == Append(fs, f)
<1>1. /\ gs \in Seq(GoodFrames) /\ Len(gs) = Len(fs) + 1 /\ Len(fs) \in Nat
      /\ \A j \in 1 .. Len(fs) : gs[j] = fs[j]
  BY PushFacts
<1>2. i - 1 \in 0 .. Len(fs) /\ i - 1 \in 0 .. Len(gs)
  BY <1>1
<1> HIDE DEF gs
<1>3. /\ SubSeq(fs, 1, i - 1) \in Seq(GoodFrames) /\ Len(SubSeq(fs, 1, i - 1)) = i - 1
      /\ \A j \in 1 .. i - 1 : SubSeq(fs, 1, i - 1)[j] = fs[j]
  BY <1>2, CutFacts
<1>4. /\ SubSeq(gs, 1, i - 1) \in Seq(GoodFrames) /\ Len(SubSeq(gs, 1, i - 1)) = i - 1
      /\ \A j \in 1 .. i - 1 : SubSeq(gs, 1, i - 1)[j] = gs[j]
  BY <1>1, <1>2, CutFacts
<1>5. \A s, t \in Seq(GoodFrames) :
        Len(s) = Len(t) /\ (\A j \in 1 .. Len(s) : s[j] = t[j]) => s = t
  OBVIOUS
<1>6. \A j \in 1 .. i - 1 : gs[j] = fs[j]
  BY <1>1, <1>2
<1>7. SubSeq(gs, 1, i - 1) = SubSeq(fs, 1, i - 1)
  BY <1>3, <1>4, <1>5, <1>6
<1> QED
  BY <1>7 DEF gs

LEMMA WholeCut == \A fs \in Seq(GoodFrames) : SubSeq(fs, 1, Len(fs)) = fs
  OBVIOUS

LEMMA TidyPush ==
  ASSUME NEW fs \in Seq(GoodFrames), NEW f \in GoodFrames
  PROVE  Tidy(Append(fs, f)) <=> Tidy(fs) /\ Rests(fs, f)
<1> DEFINE gs == Append(fs, f)
<1>1. /\ gs \in Seq(GoodFrames) /\ Len(gs) = Len(fs) + 1 /\ Len(fs) \in Nat
      /\ \A j \in 1 .. Len(fs) : gs[j] = fs[j]
      /\ gs[Len(fs) + 1] = f
  BY PushFacts
<1>2. \A i \in 1 .. Len(fs) + 1 : SubSeq(gs, 1, i - 1) = SubSeq(fs, 1, i - 1)
  BY PushCuts
<1> HIDE DEF gs
<1>3. SubSeq(gs, 1, Len(fs) + 1 - 1) = fs
  <2>1. Len(fs) + 1 \in 1 .. Len(fs) + 1 /\ Len(fs) + 1 - 1 = Len(fs)
    BY <1>1
  <2>2. SubSeq(gs, 1, Len(fs) + 1 - 1) = SubSeq(fs, 1, Len(fs) + 1 - 1)
    BY <1>2, <2>1
  <2> QED
    BY <2>1, <2>2, WholeCut
<1>4. ASSUME Tidy(gs)
      PROVE  Tidy(fs) /\ Rests(fs, f)
  <2>1. \A i \in 1 .. Len(fs) : i \in 1 .. Len(gs) /\ i \in 1 .. Len(fs) + 1
    BY <1>1
  <2>2. \A i \in 1 .. Len(fs) : Rests(SubSeq(fs, 1, i - 1), fs[i])
    BY <1>1, <1>2, <1>4, <2>1 DEF Tidy
  <2>3. Len(fs) + 1 \in 1 .. Len(gs)
    BY <1>1
  <2>4. Rests(SubSeq(gs, 1, Len(fs) + 1 - 1), gs[Len(fs) + 1])
    BY <1>4, <2>3 DEF Tidy
  <2> QED
    BY <1>1, <1>3, <2>2, <2>4 DEF Tidy
<1>5. ASSUME Tidy(fs), Rests(fs, f), NEW i \in 1 .. Len(gs)
      PROVE  Rests(SubSeq(gs, 1, i - 1), gs[i])
  <2>1. CASE i = Len(fs) + 1
    <3>1. SubSeq(gs, 1, i - 1) = fs /\ gs[i] = f
      BY <1>1, <1>3, <2>1
    <3> QED
      BY <1>5, <3>1
  <2>2. CASE i # Len(fs) + 1
    <3>1. i \in 1 .. Len(fs) /\ i \in 1 .. Len(fs) + 1
      BY <1>1, <2>2
    <3>2. gs[i] = fs[i] /\ SubSeq(gs, 1, i - 1) = SubSeq(fs, 1, i - 1)
      BY <1>1, <1>2, <3>1
    <3> QED
      BY <1>5, <3>1, <3>2 DEF Tidy
  <2> QED
    BY <2>1, <2>2
<1>6. Tidy(gs) <=> Tidy(fs) /\ Rests(fs, f)
  BY <1>4, <1>5 DEF Tidy
<1> QED
  BY <1>6 DEF gs

LEMMA TidyNone == Tidy(<<>>)
  BY DEF Tidy

LEMMA Split ==
  ASSUME NEW fs \in Seq(GoodFrames), fs # <<>>
  PROVE  /\ fs = Append(Below(fs), fs[Len(fs)])
         /\ Below(fs) \in Seq(GoodFrames) /\ fs[Len(fs)] \in GoodFrames
         /\ Len(Below(fs)) = Len(fs) - 1
<1>1. /\ Below(fs) \in Seq(GoodFrames)
      /\ Len(Below(fs)) = Len(fs) - 1
      /\ \A i \in 1 .. Len(fs) - 1 : Below(fs)[i] = fs[i]
      /\ Len(fs) \in Nat \ {0}
      /\ fs[Len(fs)] \in GoodFrames
  BY BelowFacts
<1> DEFINE b == Below(fs)
           gs == Append(b, fs[Len(fs)])
<1> HIDE DEF b
<1>2. /\ gs \in Seq(GoodFrames) /\ Len(gs) = Len(fs)
      /\ \A i \in 1 .. Len(fs) - 1 : gs[i] = b[i]
      /\ gs[Len(fs)] = fs[Len(fs)]
  BY <1>1, PushFacts DEF b
<1> HIDE DEF gs
<1>3. \A i \in 1 .. Len(fs) : gs[i] = fs[i]
  <2> TAKE i \in 1 .. Len(fs)
  <2>1. CASE i = Len(fs)
    BY <1>2, <2>1
  <2>2. CASE i # Len(fs)
    <3>1. i \in 1 .. Len(fs) - 1
      BY <1>1, <2>2
    <3> QED
      BY <1>1, <1>2, <3>1 DEF b
  <2> QED
    BY <2>1, <2>2
<1>4. \A s, t \in Seq(GoodFrames) :
        Len(s) = Len(t) /\ (\A j \in 1 .. Len(s) : s[j] = t[j]) => s = t
  OBVIOUS
<1>5. gs = fs
  BY <1>2, <1>3, <1>4
<1> QED
  BY <1>1, <1>5 DEF gs, b

LEMMA PushBelow ==
  ASSUME NEW fs \in Seq(GoodFrames), NEW f \in GoodFrames
  PROVE  /\ Below(Append(fs, f)) = fs
         /\ Append(fs, f) # <<>> /\ Append(fs, f)[Len(Append(fs, f))] = f
<1> DEFINE gs == Append(fs, f)
<1>1. /\ gs \in Seq(GoodFrames) /\ Len(gs) = Len(fs) + 1 /\ Len(fs) \in Nat
      /\ gs[Len(fs) + 1] = f
  BY PushFacts
<1>2. SubSeq(gs, 1, Len(fs) + 1 - 1) = SubSeq(fs, 1, Len(fs) + 1 - 1)
  <2>1. Len(fs) + 1 \in 1 .. Len(fs) + 1
    BY <1>1
  <2> HIDE DEF gs
  <2> QED
    BY <2>1, PushCuts DEF gs
<1> HIDE DEF gs
<1>3. Len(fs) + 1 - 1 = Len(fs) /\ Len(gs) - 1 = Len(fs) /\ gs # <<>>
  BY <1>1
<1>4. Below(gs) = fs
  BY <1>2, <1>3, WholeCut DEF Below
<1> QED
  BY <1>1, <1>3, <1>4 DEF gs

(* A change of the top frame.                                                *)
LEMMA EditTop ==
  ASSUME NEW fs \in Seq(GoodFrames), fs # <<>>, NEW g
  PROVE  [fs EXCEPT ![Len(fs)] = g] = Append(Below(fs), g)
<1>1. /\ Below(fs) \in Seq(GoodFrames)
      /\ Len(Below(fs)) = Len(fs) - 1
      /\ \A i \in 1 .. Len(fs) - 1 : Below(fs)[i] = fs[i]
      /\ Len(fs) \in Nat \ {0}
  BY BelowFacts
<1> DEFINE b == Below(fs)
           T == GoodFrames \cup {g}
           gs == Append(b, g)
           hs == [fs EXCEPT ![Len(fs)] = g]
<1> HIDE DEF b
<1>2. fs \in Seq(T) /\ b \in Seq(T) /\ g \in T
  <2>1. \A s \in Seq(GoodFrames) : s \in Seq(T)
    OBVIOUS
  <2> QED
    BY <1>1, <2>1 DEF b
<1>3. /\ gs \in Seq(T) /\ Len(gs) = Len(b) + 1
      /\ \A i \in 1 .. Len(b) : gs[i] = b[i]
      /\ gs[Len(b) + 1] = g
  <2> HIDE DEF T
  <2> QED
    BY <1>2
<1>4. /\ hs \in Seq(T) /\ Len(hs) = Len(fs)
      /\ \A i \in 1 .. Len(fs) : hs[i] = IF i = Len(fs) THEN g ELSE fs[i]
  <2> HIDE DEF T
  <2> QED
    BY <1>1, <1>2
<1> HIDE DEF gs, hs, T
<1>5. \A i \in 1 .. Len(fs) : gs[i] = hs[i]
  <2> TAKE i \in 1 .. Len(fs)
  <2>1. CASE i = Len(fs)
    BY <1>1, <1>3, <1>4, <2>1 DEF b
  <2>2. CASE i # Len(fs)
    <3>1. i \in 1 .. Len(fs) - 1
      BY <1>1, <2>2
    <3> QED
      BY <1>1, <1>3, <1>4, <2>2, <3>1 DEF b
  <2> QED
    BY <2>1, <2>2
<1>6. Len(gs) = Len(fs)
  BY <1>1, <1>3 DEF b
<1>7. \A s, t \in Seq(T) :
        Len(s) = Len(t) /\ (\A j \in 1 .. Len(s) : s[j] = t[j]) => s = t
  OBVIOUS
<1>8. gs = hs
  BY <1>3, <1>4, <1>5, <1>6, <1>7
<1> QED
  BY <1>8 DEF gs, hs, b

LEMMA LastGood ==
  ASSUME NEW fs \in Seq(GoodFrames), NEW g, Append(fs, g) \in Seq(GoodFrames)
  PROVE  g \in GoodFrames
<1> DEFINE T == GoodFrames \cup {g}
           gs == Append(fs, g)
<1>1. fs \in Seq(T) /\ g \in T /\ Len(fs) \in Nat
  OBVIOUS
<1>2. gs[Len(fs) + 1] = g /\ Len(gs) = Len(fs) + 1
  <2> HIDE DEF T
  <2> QED
    BY <1>1
<1>3. Len(fs) + 1 \in 1 .. Len(gs) /\ gs \in Seq(GoodFrames)
  BY <1>1, <1>2
<1>4. \A s \in Seq(GoodFrames) : \A i \in 1 .. Len(s) : s[i] \in GoodFrames
  OBVIOUS
<1> HIDE DEF gs
<1> QED
  BY <1>2, <1>3, <1>4

-----------------------------------------------------------------------------
(* What ClosesAll says of a step.                                           *)
Counted ==
  Pending' < Pending =>
    fate' = "stopped" \/ (fate' \in {"closed", "full"} /\ Pending' = Pending - 1)

LEMMA TopNow ==
  ASSUME Inv, TidyInv, frames # <<>>
  PROVE  /\ frames = Append(Below(frames), Top)
         /\ Below(frames) \in Seq(GoodFrames) /\ Top \in GoodFrames
         /\ Depth = Len(Below(frames)) + 1 /\ Depth \in Nat \ {0}
         /\ Tidy(Below(frames)) /\ Rests(Below(frames), Top) /\ Neat(Top)
         /\ PendingIn(Below(frames)) \in Nat /\ Top.tbc \in Nat
         /\ Pending = PendingIn(Below(frames)) + Top.tbc
<1>1. frames \in Seq(GoodFrames)
  BY DEF Inv, Sound
<1>2. /\ frames = Append(Below(frames), Top)
      /\ Below(frames) \in Seq(GoodFrames) /\ Top \in GoodFrames
      /\ Len(Below(frames)) = Len(frames) - 1
  BY <1>1, Split DEF Top, Depth
<1>3. Len(frames) \in Nat \ {0}
  BY <1>1
<1>4. Tidy(Below(frames)) /\ Rests(Below(frames), Top)
  <2>1. Tidy(Append(Below(frames), Top))
    BY <1>2 DEF TidyInv
  <2> QED
    BY <1>2, <2>1, TidyPush
<1>5. /\ PendingIn(Below(frames)) \in Nat
      /\ PendingIn(Append(Below(frames), Top)) = PendingIn(Below(frames)) + Top.tbc
  BY <1>2, PendingPush
<1>6. Top.tbc \in Nat
  BY <1>2 DEF GoodFrames, FrameSet
<1>7. Pending = PendingIn(Append(Below(frames), Top))
  BY <1>2, Zenon DEF Pending
<1>8. Depth = Len(Below(frames)) + 1 /\ Depth \in Nat \ {0}
  BY <1>2, <1>3 DEF Depth
<1>9. Neat(Top)
  BY <1>4 DEF Rests
<1> QED
  BY <1>2, <1>4, <1>5, <1>6, <1>7, <1>8, <1>9

LEMMA NowPushed ==
  ASSUME NEW fs \in Seq(GoodFrames), NEW g, frames' = Append(fs, g),
         frames' \in Seq(GoodFrames), Tidy(fs), Rests(fs, g)
  PROVE  Tidy(frames') /\ Pending' = PendingIn(fs) + g.tbc
<1>1. g \in GoodFrames
  BY LastGood
<1>2. Tidy(Append(fs, g)) /\ PendingIn(Append(fs, g)) = PendingIn(fs) + g.tbc
  BY <1>1, TidyPush, PendingPush
<1>3. Pending' = PendingIn(frames')
  BY DEF Pending, PendingIn
<1> QED
  BY <1>2, <1>3

LEMMA NowUp ==
  ASSUME NEW fs, frames' = fs
  PROVE  Pending' = PendingIn(fs)
  BY DEF Pending, PendingIn

LEMMA NowRaised ==
  ASSUME NEW fs \in Seq(GoodFrames), Tidy(fs), fs # <<>>, ~fs[Len(fs)].tramp,
         NEW e, Raises(fs, e), frames' \in Seq(GoodFrames)
  PROVE  Tidy(frames') /\ Pending' = PendingIn(fs)
<1>1. CASE frames' = fs
  BY <1>1, NowUp
<1>2. CASE frames' = [fs EXCEPT ![Len(fs)].err = e]
  <2> DEFINE b == Below(fs)
             t == fs[Len(fs)]
             g == [t EXCEPT !.err = e]
  <2>1. fs = Append(b, t) /\ b \in Seq(GoodFrames) /\ t \in GoodFrames
    BY Split
  <2>2. frames' = Append(b, g)
    <3>1. frames' = [fs EXCEPT ![Len(fs)] = g]
      BY <1>2
    <3> HIDE DEF g
    <3> QED
      BY <3>1, EditTop
  <2>3. Tidy(b) /\ Rests(b, t) /\ PendingIn(fs) = PendingIn(b) + t.tbc
    <3> HIDE DEF b, t
    <3>1. Tidy(Append(b, t))
      BY <2>1
    <3> QED
      BY <2>1, <3>1, TidyPush, PendingPush
  <2>4. ~t.tramp
    OBVIOUS
  <2>5. /\ g.tbc = t.tbc /\ g.tramp = t.tramp /\ g.astray = t.astray
        /\ g.prot = t.prot /\ g.drop = t.drop
    BY <2>1 DEF GoodFrames, FrameSet
  <2> HIDE DEF b, t, g
  <2>6. Rests(b, g)
    BY <2>3, <2>4, <2>5 DEF Rests, Neat, Fits
  <2> QED
    BY <2>1, <2>2, <2>3, <2>5, <2>6, NowPushed
<1> QED
  BY <1>1, <1>2 DEF Raises

LEMMA NowOff ==
  ASSUME Tidy(frames'), ~nest'.on, ~yielded'.on
  PROVE  TidyInv'
  BY DEF TidyInv, NestTidy, YieldTidy, Tidy, Rests, Neat, Fits, Open

LEMMA NotNested ==
  ASSUME Inv, TidyInv, \/ Leaves \/ Runs \/ yielded.on
                       \/ Driven /\ (Top.err # NoError \/ Top.target # Open)
  PROVE  ~nest.on
<1>1. CASE Leaves \/ Runs
  BY <1>1 DEF Leaves, Runs, TidyInv, NestTidy
<1>2. CASE yielded.on
  BY <1>2 DEF TidyInv, YieldTidy
<1>3. CASE Driven /\ (Top.err # NoError \/ Top.target # Open)
  <2>1. ~Top.tramp
    BY <1>3, TopNow DEF Driven, Neat
  <2> QED
    BY <2>1 DEF TidyInv, NestTidy
<1> QED
  BY <1>1, <1>2, <1>3

(* The frames a step makes.                                                  *)
LEMMA MadeFacts ==
  /\ Neat(NewFrame) /\ NewFrame.tbc = 0 /\ ~NewFrame.tramp /\ NewFrame.err = NoError
  /\ NewFrame.prot = "none" /\ ~NewFrame.drop /\ ~NewFrame.astray
  BY DEF NewFrame, Neat

LEMMA ReplacingFacts ==
  ASSUME NEW f \in GoodFrames, Neat(f)
  PROVE  LET g == Replacing(f) IN
         /\ Neat(g) /\ g.tbc = 0 /\ ~g.tramp /\ g.err = NoError /\ g.target = Open
         /\ g.prot = f.prot /\ g.drop = f.drop /\ g.astray = f.astray
  BY DEF Replacing, NewFrame, Neat

LEMMA TrampolineFacts ==
  ASSUME NEW f \in GoodFrames, f.tbc = 0, f.err = NoError, f.target = Open, Neat(f)
  PROVE  LET g == Trampoline(f) IN
         /\ Neat(g) /\ g.tbc = 0 /\ g.tramp /\ g.err = NoError
         /\ g.prot = f.prot /\ g.drop = f.drop /\ g.astray = f.astray
  BY DEF Trampoline, Neat, GoodFrames, FrameSet

(* What stands on fs may be replaced by a frame that is protected and whose     *)
(* result is dropped when that is so of it.                                   *)
LEMMA StandsIn ==
  ASSUME NEW fs, NEW f, NEW g, Rests(fs, f), Neat(g), g.drop = f.drop,
         g.prot = "none" <=> f.prot = "none"
  PROVE  Rests(fs, g)
  BY DEF Rests, Fits

LEMMA StandsOn ==
  ASSUME NEW fs \in Seq(GoodFrames), NEW f \in GoodFrames, NEW g, Neat(g), Fits(f, g)
  PROVE  Rests(Append(fs, f), g)
<1>1. Append(fs, f) # <<>> /\ Append(fs, f)[Len(Append(fs, f))] = f
  BY PushBelow
<1> QED
  BY <1>1 DEF Rests

-----------------------------------------------------------------------------
Kept == TidyInv' /\ Counted

LEMMA FramesNow == Inv => frames \in Seq(GoodFrames)
  BY DEF Inv, Sound

LEMMA FramesNext == ASSUME Inv' PROVE frames' \in Seq(GoodFrames)
  BY DEF Inv, Sound, GoodFrames, FrameSet, Protections, Open

LEMMA KeptWhen ==
  ASSUME Tidy(frames'), ~nest'.on, ~yielded'.on, Pending \in Nat, Pending' \in Nat,
         Pending' >= Pending
  PROVE  Kept
<1>1. ~(Pending' < Pending)
  OBVIOUS
<1> QED
  BY <1>1, NowOff DEF Kept, Counted

LEMMA ReturnsKept ==
  ASSUME Inv, TidyInv, frames # <<>>, Top.tbc = 0, NEW r, Returns(frames, r),
         ~nest'.on, ~yielded'.on
  PROVE  Kept
<1>1. frames' = Below(frames)
  BY DEF Returns
<1>2. /\ Tidy(Below(frames)) /\ PendingIn(Below(frames)) \in Nat /\ Top.tbc \in Nat
      /\ Pending = PendingIn(Below(frames)) + Top.tbc
  BY TopNow
<1>3. Pending' = PendingIn(Below(frames)) /\ Tidy(frames')
  BY <1>1, <1>2, NowUp
<1> QED
  BY <1>2, <1>3, KeptWhen

LEMMA SameKept ==
  ASSUME Inv, TidyInv, frames # <<>>, frames' = frames, ~nest'.on, ~yielded'.on
  PROVE  Kept
<1>1. Pending' = Pending
  BY NowUp DEF Pending
<1>2. Pending \in Nat
  <2>1. /\ PendingIn(Below(frames)) \in Nat /\ Top.tbc \in Nat
        /\ Pending = PendingIn(Below(frames)) + Top.tbc
    BY TopNow
  <2> QED
    BY <2>1
<1>3. Tidy(frames')
  BY DEF TidyInv
<1> QED
  BY <1>1, <1>2, <1>3, KeptWhen

(* A frame takes the place of the top one.                                   *)
LEMMA ReplacedKept ==
  ASSUME Inv, Inv', TidyInv, frames # <<>>, NEW g, frames' = Append(Below(frames), g),
         Neat(g), g.drop = Top.drop, g.prot = "none" <=> Top.prot = "none",
         g.tbc \in Nat, g.tbc >= Top.tbc, ~nest'.on, ~yielded'.on
  PROVE  Kept
<1>1. /\ Below(frames) \in Seq(GoodFrames)
      /\ Tidy(Below(frames)) /\ Rests(Below(frames), Top)
      /\ PendingIn(Below(frames)) \in Nat /\ Top.tbc \in Nat
      /\ Pending = PendingIn(Below(frames)) + Top.tbc
  BY TopNow
<1>2. Rests(Below(frames), g)
  BY <1>1, StandsIn
<1>3. Tidy(frames') /\ Pending' = PendingIn(Below(frames)) + g.tbc
  BY <1>1, <1>2, NowPushed, FramesNext
<1>4. Pending \in Nat /\ Pending' \in Nat /\ Pending' >= Pending
  <2>1. PICK p \in Nat : p = PendingIn(Below(frames))
    BY <1>1
  <2>2. PICK q \in Nat : q = Top.tbc
    BY <1>1
  <2>3. Pending = p + q /\ Pending' = p + g.tbc /\ g.tbc >= q
    BY <1>1, <1>3, <2>1, <2>2
  <2> QED
    BY <2>3
<1> QED
  BY <1>3, <1>4, KeptWhen

(* A frame is put on the top one.                                            *)
LEMMA PushedKept ==
  ASSUME Inv, Inv', TidyInv, frames # <<>>, NEW g, frames' = Append(frames, g),
         Neat(g), Fits(Top, g), g.tbc \in Nat, ~nest'.on, ~yielded'.on
  PROVE  Kept
<1>1. /\ Below(frames) \in Seq(GoodFrames) /\ Top \in GoodFrames
      /\ frames = Append(Below(frames), Top)
      /\ PendingIn(Below(frames)) \in Nat /\ Top.tbc \in Nat
      /\ Pending = PendingIn(Below(frames)) + Top.tbc
  BY TopNow
<1>2. Rests(Append(Below(frames), Top), g)
  BY <1>1, StandsOn
<1>3. Rests(frames, g) /\ Tidy(frames)
  BY <1>1, <1>2, Zenon DEF TidyInv
<1>4. Tidy(frames') /\ Pending' = PendingIn(frames) + g.tbc
  BY <1>3, FramesNow, FramesNext, NowPushed
<1>5. Pending \in Nat /\ Pending' \in Nat /\ Pending' >= Pending
  BY <1>1, <1>4 DEF Pending
<1> QED
  BY <1>4, <1>5, KeptWhen

LEMMA RaisesKept ==
  ASSUME Inv, Inv', TidyInv, frames # <<>>, ~Top.tramp, NEW e, Raises(frames, e),
         ~nest'.on, ~yielded'.on
  PROVE  Kept
<1>1. Tidy(frames') /\ Pending' = PendingIn(frames)
  BY FramesNow, FramesNext, NowRaised DEF TidyInv, Top, Depth
<1>2. /\ PendingIn(Below(frames)) \in Nat /\ Top.tbc \in Nat
      /\ Pending = PendingIn(Below(frames)) + Top.tbc
  BY TopNow
<1>3. Pending' = Pending /\ Pending \in Nat
  BY <1>1, <1>2 DEF Pending
<1> QED
  BY <1>1, <1>3, KeptWhen

LEMMA EditedTop ==
  ASSUME Inv, frames # <<>>, NEW g, frames' = [frames EXCEPT ![Depth] = g]
  PROVE  frames' = Append(Below(frames), g)
  BY FramesNow, EditTop DEF Depth

-----------------------------------------------------------------------------
LEMMA BeginKept == ASSUME Inv, Inv', TidyInv, NEW co \in BOOLEAN, Begin(co) PROVE Kept
<1>1. frames' = <<NewFrame>> /\ ~nest'.on /\ ~yielded'.on /\ fate' = "stopped"
  BY DEF Begin, NoNest, NotYielded
<1>2. frames' = Append(<<>>, NewFrame) /\ <<>> \in Seq(GoodFrames)
  BY <1>1
<1>3. Rests(<<>>, NewFrame)
  BY MadeFacts DEF Rests
<1>4. Tidy(frames')
  BY <1>2, <1>3, TidyNone, NowPushed, FramesNext
<1> QED
  BY <1>1, <1>4, NowOff DEF Kept, Counted

LEMMA InstructionKept ==
  ASSUME Inv, Inv', TidyInv,
         \/ Step \/ OpenTbc \/ Call \/ TailCall \/ Return
         \/ \E n \in 0 .. MaxTbc : CloseScope(n)
         \/ \E e \in Thrown : Raise(e)
  PROVE  Kept
<1>1. /\ ~yielded.on /\ ~yielded'.on /\ frames # <<>> /\ Plain
      /\ Top.err = NoError /\ Top.target = Open
  BY DEF Step, OpenTbc, Call, TailCall, Return, CloseScope, Raise, Leaves, Runs, Ready, Plain
<1>2. ~nest.on /\ ~nest'.on
  <2>1. CASE Return
    BY <2>1, <1>1, NotNested DEF Return, Plain
  <2>2. CASE ~Return
    <3>1. Runs
      BY <2>2 DEF Step, OpenTbc, Call, TailCall, CloseScope, Raise, Leaves
    <3> QED
      BY <1>1, <3>1, NotNested DEF Plain
  <2> QED
    BY <2>1, <2>2
<1>3. /\ Below(frames) \in Seq(GoodFrames) /\ Top \in GoodFrames /\ Neat(Top)
      /\ Top.tbc \in Nat
  BY <1>1, TopNow
<1>4. CASE Step
  BY <1>1, <1>2, <1>4, SameKept DEF Step
<1>5. CASE OpenTbc
  <2> DEFINE g == [Top EXCEPT !.tbc = @ + 1]
  <2>1. /\ g.tbc = Top.tbc + 1 /\ g.drop = Top.drop /\ g.prot = Top.prot
        /\ g.tramp = Top.tramp /\ g.astray = Top.astray
    BY <1>3 DEF GoodFrames, FrameSet
  <2>2. frames' = [frames EXCEPT ![Depth] = g] /\ ~Top.tramp
    BY <1>5 DEF OpenTbc, Runs, Top
  <2> HIDE DEF g
  <2>3. Neat(g) /\ g.tbc \in Nat /\ g.tbc >= Top.tbc
    BY <1>3, <2>1, <2>2 DEF Neat
  <2>4. frames' = Append(Below(frames), g)
    BY <1>1, <2>2, EditedTop
  <2> QED
    BY <1>1, <1>2, <2>1, <2>3, <2>4, ReplacedKept
<1>6. CASE Call
  <2>1. CASE Raises(frames, Overflow)
    BY <1>1, <1>2, <1>6, <2>1, RaisesKept DEF Call, Runs
  <2>2. CASE frames' = Append(frames, NewFrame)
    <3>1. Fits(Top, NewFrame)
      BY <1>1, <1>6 DEF Fits, Call, Runs
    <3> QED
      BY <1>1, <1>2, <2>2, <3>1, MadeFacts, PushedKept
  <2> QED
    BY <1>6, <2>1, <2>2 DEF Call
<1>7. CASE TailCall
  <2> DEFINE g == Replacing(Top)
  <2>1. frames' = Append(Below(frames), g) /\ Top.tbc = 0
    BY <1>7 DEF TailCall, Leaves
  <2>2. Neat(g) /\ g.tbc = 0 /\ g.prot = Top.prot /\ g.drop = Top.drop
    BY <1>3, ReplacingFacts
  <2> HIDE DEF g
  <2>3. g.tbc \in Nat /\ g.tbc >= Top.tbc
    BY <2>1, <2>2
  <2> QED
    BY <1>1, <1>2, <2>1, <2>2, <2>3, ReplacedKept
<1>8. CASE Return
  <2>1. Top.tbc = 0
    BY <1>3, <1>8 DEF Return, Leaves, Neat
  <2> QED
    BY <1>1, <1>2, <1>8, <2>1, ReturnsKept DEF Return
<1>9. ASSUME NEW n \in 0 .. MaxTbc, CloseScope(n)
      PROVE  Kept
  <2> DEFINE g == [Top EXCEPT !.target = n]
  <2>1. /\ g.tbc = Top.tbc /\ g.drop = Top.drop /\ g.prot = Top.prot
        /\ g.tramp = Top.tramp /\ g.astray = Top.astray
    BY <1>3 DEF GoodFrames, FrameSet
  <2>2. frames' = [frames EXCEPT ![Depth] = g] /\ ~Top.tramp
    BY <1>9 DEF CloseScope, Runs, Top
  <2> HIDE DEF g
  <2>3. Neat(g) /\ g.tbc \in Nat /\ g.tbc >= Top.tbc
    BY <1>3, <2>1, <2>2 DEF Neat
  <2>4. frames' = Append(Below(frames), g)
    BY <1>1, <2>2, EditedTop
  <2> QED
    BY <1>1, <1>2, <2>1, <2>3, <2>4, ReplacedKept
<1>10. ASSUME NEW e \in Thrown, Raise(e)
       PROVE  Kept
  BY <1>1, <1>2, <1>10, RaisesKept DEF Raise, Runs
<1> QED
  BY <1>4, <1>5, <1>6, <1>7, <1>8, <1>9, <1>10

-----------------------------------------------------------------------------
(* pcall and xpcall.                                                        *)

LEMMA ReplacedWhen ==
  ASSUME Inv, Inv', TidyInv, frames # <<>>, Top.tbc = 0, NEW g,
         frames' = Append(Below(frames), g), Rests(Below(frames), g), g.tbc = 0
  PROVE  /\ Tidy(frames') /\ Pending' = Pending /\ Pending \in Nat
         /\ frames' # <<>> /\ Top' = g
<1>1. /\ Below(frames) \in Seq(GoodFrames) /\ Tidy(Below(frames))
      /\ PendingIn(Below(frames)) \in Nat /\ Top.tbc \in Nat
      /\ Pending = PendingIn(Below(frames)) + Top.tbc
  BY TopNow
<1>2. Tidy(frames') /\ Pending' = PendingIn(Below(frames)) + g.tbc
  BY <1>1, NowPushed, FramesNext
<1>3. g \in GoodFrames
  BY <1>1, FramesNext, LastGood
<1>4. frames' # <<>> /\ frames'[Len(frames')] = g
  BY <1>1, <1>3, PushBelow
<1>5. Pending' = Pending /\ Pending \in Nat
  BY <1>1, <1>2
<1> QED
  BY <1>2, <1>4, <1>5 DEF Top, Depth

LEMMA PushedWhen ==
  ASSUME Inv, Inv', TidyInv, frames # <<>>, NEW g,
         frames' = Append(frames, g), Neat(g), Fits(Top, g), g.tbc = 0
  PROVE  /\ Tidy(frames') /\ Pending' = Pending /\ Pending \in Nat
         /\ frames' # <<>> /\ Top' = g
<1>1. /\ Below(frames) \in Seq(GoodFrames) /\ Top \in GoodFrames
      /\ frames = Append(Below(frames), Top)
      /\ PendingIn(Below(frames)) \in Nat /\ Top.tbc \in Nat
      /\ Pending = PendingIn(Below(frames)) + Top.tbc
  BY TopNow
<1>2. Rests(Append(Below(frames), Top), g)
  BY <1>1, StandsOn
<1>3. Rests(frames, g) /\ Tidy(frames)
  BY <1>1, <1>2, Zenon DEF TidyInv
<1>4. Tidy(frames') /\ Pending' = PendingIn(frames) + g.tbc
  BY <1>3, FramesNow, FramesNext, NowPushed
<1>5. g \in GoodFrames
  BY FramesNow, FramesNext, LastGood
<1>6. frames' # <<>> /\ frames'[Len(frames')] = g
  BY <1>5, FramesNow, PushBelow
<1>7. Pending' = Pending /\ Pending \in Nat
  BY <1>1, <1>4 DEF Pending
<1> QED
  BY <1>4, <1>6, <1>7 DEF Top, Depth

LEMMA MayFacts ==
  ASSUME Inv, TidyInv, NEW tail \in BOOLEAN, MayProtect(tail)
  PROVE  /\ ~yielded.on /\ frames # <<>> /\ dead = NoError
         /\ Top.err = NoError /\ Top.target = Open
         /\ tail => Top.tbc = 0 /\ ~Top.tramp
         /\ Top \in GoodFrames /\ Neat(Top)
<1>1. /\ ~yielded.on /\ frames # <<>> /\ dead = NoError
      /\ Top.err = NoError /\ Top.target = Open
      /\ tail => Top.tbc = 0 /\ ~Top.tramp
  BY DEF MayProtect, Leaves, Runs, Ready
<1> QED
  BY <1>1, TopNow

LEMMA GivesKept ==
  ASSUME Inv, TidyInv, NEW tail \in BOOLEAN, MayProtect(tail), NEW r, Gives(tail, r),
         ~nest'.on, ~yielded'.on
  PROVE  Kept
<1>1. CASE tail
  BY <1>1, MayFacts, ReturnsKept DEF Gives
<1>2. CASE ~tail
  BY <1>2, MayFacts, SameKept DEF Gives
<1> QED
  BY <1>1, <1>2

LEMMA HandlerFacts ==
  ASSUME NEW f \in FrameSet
  PROVE  LET g == Handler(f) IN
         /\ g.tramp = f.tramp /\ g.tbc = f.tbc /\ g.target = f.target /\ g.err = f.err
         /\ g.prot = "handler" /\ g.drop = f.drop /\ g.astray = f.astray
  BY DEF Handler, FrameSet

LEMMA CallHandlerKept ==
  ASSUME Inv, Inv', TidyInv, NEW kind \in Kinds, NEW tail \in BOOLEAN, NEW e,
         MayProtect(tail), CallHandler(kind, tail, e), ~nest'.on, ~yielded'.on
  PROVE  Kept
<1>1. /\ ~yielded.on /\ frames # <<>> /\ Top.err = NoError
      /\ tail => Top.tbc = 0
  BY MayFacts
<1>2. CASE kind = "plain" \/ kind = "host"
  BY <1>2, GivesKept DEF CallHandler
<1>3. CASE kind = "lua" /\ tail
  <2> DEFINE f == [NewFrame EXCEPT !.astray = TRUE]
             g == Handler(f)
  <2>1. /\ "handler of a tail call" \in Odd
        /\ frames' = Append(Below(frames), g)
    BY <1>3 DEF CallHandler
  <2>2. f \in FrameSet /\ ~f.tramp /\ f.tbc = 0
    BY NewErr, MadeFacts DEF FrameSet
  <2>3. g.prot = "handler" /\ ~g.tramp /\ g.tbc = 0
    <3> HIDE DEF f
    <3> QED
      BY <2>2, HandlerFacts
  <2> HIDE DEF g
  <2>4. Rests(Below(frames), g)
    BY <2>1, <2>3 DEF Rests, Neat, Fits
  <2>5. /\ Tidy(frames') /\ Pending' = Pending /\ Pending \in Nat
    BY <1>1, <1>3, <2>1, <2>3, <2>4, ReplacedWhen
  <2> QED
    BY <2>5, KeptWhen
<1>4. CASE kind = "lua" /\ ~tail
  <2>1. CASE Gives(FALSE, <<FALSE, InHandling>>)
    BY <1>4, <2>1, GivesKept
  <2>2. CASE frames' = Append(frames, Handler(NewFrame))
    <3> DEFINE g == Handler(NewFrame)
    <3>1. g.prot = "handler" /\ ~g.tramp /\ g.tbc = 0 /\ ~g.astray
      BY NewErr, MadeFacts, HandlerFacts
    <3> HIDE DEF g
    <3>2. Neat(g) /\ Fits(Top, g) /\ g.tbc \in Nat
      BY <1>1, <3>1 DEF Neat, Fits
    <3>3. frames' = Append(frames, g)
      BY <2>2 DEF g
    <3> QED
      BY <1>1, <3>2, <3>3, PushedKept
  <2> QED
    BY <1>4, <2>1, <2>2 DEF CallHandler
<1> QED
  BY <1>2, <1>3, <1>4 DEF Kinds

LEMMA TargetFacts ==
  ASSUME NEW kind \in Kinds
  PROVE  LET g == [NewFrame EXCEPT !.prot = kind] IN
         /\ g \in GoodFrames /\ Neat(g) /\ g.prot = kind /\ g.prot # "none"
         /\ g.tbc = 0 /\ ~g.tramp /\ g.err = NoError /\ g.target = Open
         /\ ~g.drop /\ ~g.astray
<1>1. kind \in Protections \ {"handler"} /\ kind # "none"
  BY DEF Kinds, Protections
<1>2. [NewFrame EXCEPT !.prot = kind] \in GoodFrames
  BY <1>1, NewFrameGood
<1> QED
  BY <1>1, <1>2 DEF NewFrame, Neat

LEMMA TwoMore ==
  ASSUME NEW fs \in Seq(GoodFrames), NEW f \in GoodFrames, NEW g \in GoodFrames
  PROVE  fs \o <<f, g>> = Append(Append(fs, f), g)
  OBVIOUS

LEMMA ProtectedCallKept ==
  ASSUME Inv, Inv', TidyInv, NEW kind \in Kinds, NEW tail \in BOOLEAN,
         ProtectedCall(kind, tail)
  PROVE  Kept
<1> DEFINE target == [NewFrame EXCEPT !.prot = kind]
           tramp == Trampoline(Replacing(Top))
<1>1. /\ ~yielded.on /\ frames # <<>> /\ Top.err = NoError
      /\ tail => Top.tbc = 0
      /\ Top \in GoodFrames /\ Neat(Top)
  BY MayFacts DEF ProtectedCall
<1>2. MayProtect(tail) /\ ~nest'.on /\ ~yielded'.on
  BY <1>1 DEF ProtectedCall, NoNest
<1>3. /\ target \in GoodFrames /\ Neat(target) /\ target.prot # "none" /\ ~target.drop
      /\ target.tbc = 0
  BY TargetFacts
<1>4. CASE Depth >= MaxFrames
  BY <1>2, <1>4, CallHandlerKept DEF ProtectedCall
<1>5. CASE ~(Depth >= MaxFrames) /\ ~tail
  <2>1. frames' = Append(frames, target)
    BY <1>5 DEF ProtectedCall
  <2> HIDE DEF target
  <2>2. Fits(Top, target) /\ target.tbc \in Nat
    BY <1>1, <1>3 DEF Fits
  <2> QED
    BY <1>1, <1>2, <1>3, <2>1, <2>2, PushedKept
<1>6. CASE ~(Depth >= MaxFrames) /\ tail
  <2>1. frames' = Below(frames) \o <<tramp, target>>
    BY <1>6 DEF ProtectedCall
  <2>2. /\ Replacing(Top) \in GoodFrames /\ Neat(Replacing(Top)) /\ Replacing(Top).tbc = 0
        /\ Replacing(Top).err = NoError /\ Replacing(Top).target = Open
        /\ Replacing(Top).prot = Top.prot /\ Replacing(Top).drop = Top.drop
    BY <1>1, ReplacingGood, ReplacingFacts
  <2>3. /\ tramp \in GoodFrames /\ Neat(tramp) /\ tramp.tbc = 0 /\ tramp.err = NoError
        /\ tramp.prot = Top.prot /\ tramp.drop = Top.drop
    BY <2>2, TrampolineGood, TrampolineFacts
  <2> HIDE DEF target, tramp
  <2>4. /\ Below(frames) \in Seq(GoodFrames) /\ Tidy(Below(frames))
        /\ Rests(Below(frames), Top)
        /\ PendingIn(Below(frames)) \in Nat /\ Top.tbc \in Nat
        /\ Pending = PendingIn(Below(frames)) + Top.tbc
    BY <1>1, TopNow
  <2>5. Rests(Below(frames), tramp)
    BY <2>3, <2>4, StandsIn
  <2> DEFINE fs == Append(Below(frames), tramp)
  <2>6. fs \in Seq(GoodFrames) /\ Tidy(fs) /\ PendingIn(fs) = PendingIn(Below(frames))
    <3>1. fs \in Seq(GoodFrames)
      BY <2>3, <2>4
    <3>2. Tidy(fs) /\ PendingIn(fs) = PendingIn(Below(frames)) + tramp.tbc
      BY <2>3, <2>4, <2>5, TidyPush, PendingPush
    <3> QED
      BY <2>3, <2>4, <3>1, <3>2
  <2>7. Rests(fs, target)
    <3>1. Fits(tramp, target)
      BY <1>3, <2>3 DEF Fits
    <3> QED
      BY <1>3, <2>3, <2>4, <3>1, StandsOn
  <2>8. frames' = Append(fs, target)
    BY <1>3, <2>1, <2>3, <2>4, TwoMore
  <2> HIDE DEF fs
  <2>9. Tidy(frames') /\ Pending' = PendingIn(fs) + target.tbc
    BY <2>6, <2>7, <2>8, NowPushed, FramesNext
  <2>10. Pending' = Pending /\ Pending \in Nat
    BY <1>1, <1>3, <1>6, <2>4, <2>6, <2>9
  <2> QED
    BY <1>2, <2>9, <2>10, KeptWhen
<1> QED
  BY <1>4, <1>5, <1>6

LEMMA NestedCallKept ==
  ASSUME Inv, Inv', TidyInv, NEW kind \in Kinds, NEW tail \in BOOLEAN,
         NestedCall(kind, tail)
  PROVE  Kept
<1> DEFINE plain == [NewFrame EXCEPT !.prot = kind]
           tramp == Trampoline(plain)
           heir == [tramp EXCEPT !.drop = Top.drop, !.astray = Top.astray]
<1>1. /\ ~yielded.on /\ frames # <<>> /\ Top.err = NoError /\ dead = NoError
      /\ tail => Top.tbc = 0
      /\ Top \in GoodFrames /\ Neat(Top)
  BY MayFacts DEF NestedCall
<1>2. MayProtect(tail) /\ ~yielded'.on /\ dead' = NoError
  BY <1>1 DEF NestedCall
<1>3. /\ plain \in GoodFrames /\ plain.tbc = 0 /\ plain.err = NoError
      /\ plain.target = Open /\ Neat(plain) /\ plain.prot # "none"
  BY TargetFacts
<1>4. /\ tramp \in GoodFrames /\ tramp.tramp /\ tramp.prot # "none" /\ tramp.tbc = 0
      /\ Neat(tramp)
  <2> HIDE DEF plain
  <2> QED
    BY <1>3, TrampolineGood, TrampolineFacts
<1>5. CASE ~tail /\ Depth >= MaxFrames
  <2>1. CallHandler(kind, tail, Overflow) /\ nest' = NoNest
    BY <1>5, Zenon DEF NestedCall
  <2>2. ~nest'.on
    BY <2>1 DEF NoNest
  <2> QED
    BY <1>2, <2>1, <2>2, CallHandlerKept
<1>6. CASE ~(~tail /\ Depth >= MaxFrames)
  <2>1. PICK g : \/ frames' = Append(frames, g) /\ ~tail /\ g = tramp
                 \/ frames' = Append(Below(frames), g) /\ tail /\ g = heir
    <3>1. CASE tail
      <4>1. frames' = Append(Below(frames), heir)
        BY <1>6, <3>1, Zenon DEF NestedCall
      <4> HIDE DEF heir
      <4> QED
        BY <3>1, <4>1
    <3>2. CASE ~tail
      <4>1. frames' = Append(frames, tramp)
        BY <1>6, <3>2, Zenon DEF NestedCall
      <4> HIDE DEF tramp
      <4> QED
        BY <3>2, <4>1
    <3> QED
      BY <3>1, <3>2
  <2>2. g.tramp /\ g.prot # "none" /\ g.tbc = 0
    <3>1. heir.tramp /\ heir.prot # "none" /\ heir.tbc = 0
      <4> HIDE DEF tramp
      <4> QED
        BY <1>4 DEF GoodFrames, FrameSet
    <3> HIDE DEF heir, tramp
    <3> QED
      BY <1>4, <2>1, <3>1
  <2>3. /\ Tidy(frames') /\ Pending' = Pending /\ Pending \in Nat
        /\ frames' # <<>> /\ Top' = g
    <3>1. CASE ~tail
      <4>1. frames' = Append(frames, g) /\ g = tramp
        BY <2>1, <3>1
      <4> HIDE DEF tramp
      <4>2. Neat(g) /\ Fits(Top, g)
        BY <1>1, <1>4, <4>1 DEF Fits
      <4> QED
        BY <1>1, <2>2, <4>1, <4>2, PushedWhen
    <3>2. CASE tail
      <4>1. frames' = Append(Below(frames), g) /\ g = heir
        BY <2>1, <3>2
      <4>2. Odd # {}
        BY <3>2 DEF NestedCall
      <4>3. g.target = Open /\ g.err = NoError
        <5>1. tramp.target = plain.target /\ tramp.err = plain.err
          <6> HIDE DEF plain
          <6> QED
            BY <1>3 DEF Trampoline, GoodFrames, FrameSet
        <5> HIDE DEF tramp
        <5> QED
          BY <1>3, <1>4, <4>1, <5>1 DEF GoodFrames, FrameSet
      <4>4. Rests(Below(frames), g)
        BY <2>2, <4>2, <4>3 DEF Rests, Neat, Fits
      <4> QED
        BY <1>1, <2>2, <3>2, <4>1, <4>4, ReplacedWhen
    <3> QED
      BY <3>1, <3>2
  <2>4. NestTidy' /\ YieldTidy'
    BY <1>2, <2>2, <2>3 DEF NestTidy, YieldTidy
  <2>5. TidyInv'
    BY <2>3, <2>4 DEF TidyInv, Tidy, Rests, Neat, Fits, Open
  <2> QED
    BY <2>3, <2>5 DEF Kept, Counted
<1> QED
  BY <1>5, <1>6

LEMMA ProtectedHostCallKept ==
  ASSUME Inv, Inv', TidyInv, NEW kind \in Kinds, NEW tail \in BOOLEAN,
         NEW e \in Thrown \cup {NoError}, ProtectedHostCall(kind, tail, e)
  PROVE  Kept
<1>1. MayProtect(tail) /\ ~nest'.on /\ ~yielded'.on
  BY MayFacts DEF ProtectedHostCall, NoNest
<1>2. CASE e = NoError
  BY <1>1, <1>2, GivesKept DEF ProtectedHostCall
<1>3. CASE e # NoError
  BY <1>1, <1>3, CallHandlerKept DEF ProtectedHostCall
<1> QED
  BY <1>2, <1>3

LEMMA BareCallKept ==
  ASSUME Inv, Inv', TidyInv, NEW e \in Thrown, BareCall(e)
  PROVE  Kept
<1>1. MayProtect(FALSE) /\ ~nest'.on /\ yielded' = yielded /\ frames' = frames
  BY DEF BareCall, NoNest
<1> QED
  BY <1>1, MayFacts, SameKept

-----------------------------------------------------------------------------
(* Coroutines, and _drive_pending.                                          *)

LEMMA YieldKept ==
  ASSUME Inv, Inv', TidyInv, NEW tail \in BOOLEAN, NEW status \in BOOLEAN,
         Yield(tail, status)
  PROVE  Kept
<1>1. /\ ~yielded.on /\ frames # <<>> /\ dead = NoError
      /\ Top.err = NoError /\ Top.target = Open
      /\ tail => Top.tbc = 0
      /\ nest.on \/ ~Top.tramp
  BY DEF Yield, MayProtect, Leaves, Runs, Ready
<1>2. nest.on => Odd # {} /\ Top.tbc = 0
  <2>1. nest.on => Odd # {}
    BY DEF Yield
  <2>2. nest.on => Top.tramp
    BY DEF TidyInv, NestTidy
  <2> QED
    BY <1>1, <2>1, <2>2, TopNow DEF Neat
<1>3. /\ frames' = frames /\ dead' = dead /\ got' = <<>> /\ ~nest'.on
  BY DEF Yield, NoNest
<1>4. yielded'.tail => Top.tbc = 0
  BY <1>1, <1>2 DEF Yield
<1>5. Odd = {} => yielded'.base = Depth /\ ~Top.tramp
  BY <1>1, <1>2 DEF Yield
<1>6. Top' = Top /\ Depth' = Depth
  BY <1>3 DEF Top, Depth
<1>7. NestTidy' /\ YieldTidy'
  BY <1>1, <1>3, <1>4, <1>5, <1>6 DEF NestTidy, YieldTidy, Open
<1>8. Tidy(frames')
  BY <1>3 DEF TidyInv
<1>9. Pending' = Pending /\ Pending \in Nat
  <2>1. Pending' = Pending
    BY <1>3, NowUp DEF Pending
  <2>2. /\ PendingIn(Below(frames)) \in Nat /\ Top.tbc \in Nat
        /\ Pending = PendingIn(Below(frames)) + Top.tbc
    BY <1>1, TopNow
  <2> QED
    BY <2>1, <2>2
<1>10. TidyInv'
  BY <1>7, <1>8 DEF TidyInv, Tidy, Rests, Neat, Fits, Open
<1> QED
  BY <1>9, <1>10 DEF Kept, Counted

LEMMA ResumeKept == ASSUME Inv, Inv', TidyInv, Resume PROVE Kept
<1>1. /\ yielded.on /\ frames # <<>> /\ ~nest.on
      /\ yielded.tail => Top.tbc = 0
  BY DEF Resume, TidyInv, YieldTidy
<1>2. ~nest'.on /\ ~yielded'.on
  BY <1>1 DEF Resume, NotYielded
<1>3. CASE yielded.tail
  BY <1>1, <1>2, <1>3, ReturnsKept DEF Resume
<1>4. CASE ~yielded.tail
  BY <1>1, <1>2, <1>4, SameKept DEF Resume
<1> QED
  BY <1>3, <1>4

(* The frames without the value that CloseValue pops.                        *)
LEMMA PoppedFacts ==
  ASSUME Inv, TidyInv, CloseValue
  PROVE  LET g == [Top EXCEPT !.tbc = @ - 1]
             fs == Append(Below(frames), g)
         IN  /\ fs = [frames EXCEPT ![Depth].tbc = @ - 1]
             /\ fs \in Seq(GoodFrames) /\ g \in GoodFrames /\ fs # <<>>
             /\ fs[Len(fs)] = g
             /\ g.tbc = Top.tbc - 1 /\ Top.tbc > 0
             /\ ~Top.tramp /\ g.tramp = Top.tramp /\ g.err = Top.err
             /\ g.target = Top.target /\ g.prot = Top.prot /\ g.drop = Top.drop
             /\ Rests(Below(frames), g) /\ Tidy(fs)
             /\ PendingIn(fs) = Pending - 1 /\ Pending \in Nat
<1> DEFINE g == [Top EXCEPT !.tbc = @ - 1]
           fs == Append(Below(frames), g)
<1>1. frames # <<>> /\ (Top.err # NoError \/ Top.target # Open)
  BY DEF CloseValue, Driven
<1>2. /\ Below(frames) \in Seq(GoodFrames) /\ Top \in GoodFrames
      /\ Tidy(Below(frames)) /\ Rests(Below(frames), Top) /\ Neat(Top)
      /\ PendingIn(Below(frames)) \in Nat /\ Top.tbc \in Nat
      /\ Pending = PendingIn(Below(frames)) + Top.tbc
  BY <1>1, TopNow
<1>3. Top.tbc > 0 /\ Top.tbc \in 0 .. MaxTbc
  <2>1. Top.tbc \in 0 .. MaxTbc /\ Top.target \in 0 .. Open
    BY <1>2 DEF GoodFrames, FrameSet
  <2> QED
    BY <2>1, FramesAssumption DEF CloseValue, Open
<1>4. /\ g.tbc = Top.tbc - 1 /\ g.tramp = Top.tramp /\ g.err = Top.err
      /\ g.target = Top.target /\ g.prot = Top.prot /\ g.drop = Top.drop
      /\ g.astray = Top.astray /\ g.depth = Top.depth
  BY <1>2 DEF GoodFrames, FrameSet
<1>5. g \in GoodFrames
  <2>1. Top.tbc - 1 \in 0 .. MaxTbc
    BY <1>3, FramesAssumption
  <2>2. g \in FrameSet
    BY <1>2, <2>1 DEF GoodFrames, FrameSet
  <2> HIDE DEF g
  <2> QED
    BY <1>2, <1>4, <2>2 DEF GoodFrames
<1>6. fs = [frames EXCEPT ![Depth].tbc = @ - 1]
  <2>1. [frames EXCEPT ![Depth].tbc = @ - 1] = [frames EXCEPT ![Depth] = g]
    BY DEF Top
  <2> HIDE DEF g
  <2> QED
    BY <1>1, <2>1, FramesNow, EditTop DEF Depth
<1>7. ~Top.tramp
  BY <1>1, <1>2 DEF Neat
<1> HIDE DEF g
<1>8. Rests(Below(frames), g)
  BY <1>2, <1>4, <1>7, StandsIn DEF Neat
<1>9. fs \in Seq(GoodFrames) /\ Tidy(fs) /\ PendingIn(fs) = PendingIn(Below(frames)) + g.tbc
  BY <1>2, <1>5, <1>8, TidyPush, PendingPush
<1>10. fs # <<>> /\ fs[Len(fs)] = g
  BY <1>2, <1>5, PushBelow
<1>11. PendingIn(fs) = Pending - 1 /\ Pending \in Nat
  <2> HIDE DEF fs
  <2> QED
    BY <1>2, <1>3, <1>4, <1>9
<1> QED
  BY <1>3, <1>4, <1>5, <1>6, <1>7, <1>8, <1>9, <1>10, <1>11 DEF g

LEMMA CloseValueKept == ASSUME Inv, Inv', TidyInv, CloseValue PROVE Kept
<1> DEFINE g == [Top EXCEPT !.tbc = @ - 1]
           fs == Append(Below(frames), g)
           called == [NewFrame EXCEPT !.drop = TRUE]
<1>1. /\ fs = [frames EXCEPT ![Depth].tbc = @ - 1]
      /\ fs \in Seq(GoodFrames) /\ g \in GoodFrames /\ fs # <<>>
      /\ fs[Len(fs)] = g /\ ~g.tramp
      /\ Tidy(fs) /\ PendingIn(fs) = Pending - 1 /\ Pending \in Nat
  BY PoppedFacts
<1>2. ~nest'.on /\ ~yielded'.on
  <2>1. Driven /\ (Top.err # NoError \/ Top.target # Open) /\ nest' = nest /\ yielded' = yielded
    BY DEF CloseValue
  <2> QED
    BY <2>1, NotNested DEF Driven
<1>3. /\ Neat(called) /\ called.drop /\ called.tbc = 0
  BY MadeFacts DEF NewFrame, Neat
<1>4. /\ \/ frames' = fs
         \/ \E e : Raises(fs, e)
         \/ frames' = Append(fs, called)
      /\ fate' \in {"closed", "full"}
  <2>1. PopValue
    BY DEF CloseValue
  <2> HIDE DEF fs, called
  <2>2. ASSUME NEW e \in Thrown, Raises(fs, e) /\ fate' = "closed"
        PROVE  (\E x : Raises(fs, x)) /\ fate' \in {"closed", "full"}
    BY <2>2
  <2>3. ASSUME Raises(fs, Overflow), fate' = "full"
        PROVE  (\E x : Raises(fs, x)) /\ fate' \in {"closed", "full"}
    BY <2>3
  <2> QED
    BY <1>1, <2>1, <2>2, <2>3, Zenon DEF PopValue, called
<1> HIDE DEF g, fs, called
<1>5. Tidy(frames') /\ Pending' = PendingIn(fs)
  <2>1. CASE frames' = fs
    BY <1>1, <2>1, NowUp
  <2>2. ASSUME NEW e, Raises(fs, e)
        PROVE  Tidy(frames') /\ Pending' = PendingIn(fs)
    BY <1>1, <2>2, NowRaised, FramesNext
  <2>3. CASE frames' = Append(fs, called)
    <3>1. Rests(fs, called)
      BY <1>1, <1>3 DEF Rests, Fits
    <3>2. Tidy(frames') /\ Pending' = PendingIn(fs) + called.tbc
      BY <1>1, <2>3, <3>1, NowPushed, FramesNext
    <3> QED
      BY <1>1, <1>3, <3>2
  <2> QED
    BY <1>4, <2>1, <2>2, <2>3
<1>6. TidyInv'
  BY <1>2, <1>5, NowOff
<1> QED
  BY <1>1, <1>4, <1>5, <1>6 DEF Kept, Counted

LEMMA ScopeClosedKept == ASSUME Inv, Inv', TidyInv, ScopeClosed PROVE Kept
<1> DEFINE g == [Top EXCEPT !.target = Open]
<1>1. /\ frames # <<>> /\ ~yielded'.on /\ nest' = nest
      /\ Driven /\ Top.target # Open /\ frames' = [frames EXCEPT ![Depth] = g]
  BY DEF ScopeClosed, Driven, Plain, Top
<1>2. Top \in GoodFrames /\ Neat(Top) /\ Top.tbc \in Nat
  BY <1>1, TopNow
<1>3. ~nest'.on
  BY <1>1, NotNested
<1>4. /\ g.tbc = Top.tbc /\ g.tramp = Top.tramp /\ g.prot = Top.prot /\ g.drop = Top.drop
      /\ g.astray = Top.astray
  BY <1>2 DEF GoodFrames, FrameSet
<1> HIDE DEF g
<1>5. Neat(g) /\ g.tbc \in Nat /\ g.tbc >= Top.tbc
  BY <1>1, <1>2, <1>4 DEF Neat
<1>6. frames' = Append(Below(frames), g)
  BY <1>1, EditedTop
<1> QED
  BY <1>1, <1>3, <1>4, <1>5, <1>6, ReplacedKept

LEMMA LastOneKept ==
  ASSUME Inv, TidyInv, frames # <<>>, Depth = 1, Top.tbc = 0, frames' = <<>>,
         ~nest'.on, ~yielded'.on
  PROVE  Kept
<1>1. /\ PendingIn(Below(frames)) \in Nat /\ Depth = Len(Below(frames)) + 1
      /\ Below(frames) \in Seq(GoodFrames)
      /\ Pending = PendingIn(Below(frames)) + Top.tbc
  BY TopNow
<1>2. Below(frames) = <<>>
  BY <1>1
<1>3. Pending = 0 /\ Pending' = 0
  BY <1>1, <1>2, PendingNone, NowUp
<1> QED
  BY <1>3, TidyNone, KeptWhen

LEMMA UnwindKept == ASSUME Inv, Inv', TidyInv, Unwind PROVE Kept
<1>1. /\ frames # <<>> /\ ~yielded'.on /\ nest' = nest
      /\ Driven /\ Top.err # NoError /\ Top.tbc = 0 /\ Top.prot = "none"
  BY DEF Unwind, Driven, Plain
<1>2. ~nest'.on
  BY <1>1, NotNested
<1>3. CASE Depth = 1
  BY <1>1, <1>2, <1>3, LastOneKept DEF Unwind
<1>4. CASE Depth # 1
  <2> DEFINE b == Below(frames)
             t == b[Len(b)]
             g == [t EXCEPT !.err = Top.err]
  <2>1. /\ b \in Seq(GoodFrames) /\ Depth = Len(b) + 1 /\ Depth \in Nat \ {0}
        /\ Tidy(b) /\ Rests(b, Top)
        /\ PendingIn(b) \in Nat /\ Pending = PendingIn(b) + Top.tbc
    BY <1>1, TopNow
  <2>2. frames' = [b EXCEPT ![Depth - 1].err = Top.err]
    BY <1>4 DEF Unwind
  <2> HIDE DEF b
  <2>3. b # <<>> /\ Len(b) = Depth - 1
    BY <1>4, <2>1
  <2>4. frames' = [b EXCEPT ![Len(b)] = g]
    BY <2>2, <2>3
  <2>5. /\ b = Append(Below(b), t) /\ Below(b) \in Seq(GoodFrames) /\ t \in GoodFrames
    BY <2>1, <2>3, Split
  <2>6. ~t.tramp
    BY <1>1, <2>1, <2>3 DEF Rests, Fits
  <2>7. Tidy(Below(b)) /\ Rests(Below(b), t) /\ PendingIn(b) = PendingIn(Below(b)) + t.tbc
    <3> HIDE DEF t
    <3>1. Tidy(Append(Below(b), t))
      BY <2>1, <2>5
    <3>2. PendingIn(Append(Below(b), t)) = PendingIn(Below(b)) + t.tbc
      BY <2>5, PendingPush
    <3>3. PendingIn(b) = PendingIn(Append(Below(b), t))
      BY <2>5, Zenon
    <3> QED
      BY <2>5, <3>1, <3>2, <3>3, TidyPush
  <2>8. /\ g.tbc = t.tbc /\ g.tramp = t.tramp /\ g.prot = t.prot /\ g.drop = t.drop
        /\ g.astray = t.astray
    <3> HIDE DEF t
    <3> QED
      BY <2>5 DEF GoodFrames, FrameSet
  <2> HIDE DEF g
  <2>9. frames' = Append(Below(b), g)
    BY <2>1, <2>3, <2>4, EditTop
  <2> HIDE DEF t
  <2>10. Rests(Below(b), g)
    BY <2>6, <2>7, <2>8, StandsIn DEF Rests, Neat
  <2>11. Tidy(frames') /\ Pending' = PendingIn(Below(b)) + g.tbc
    BY <2>5, <2>7, <2>9, <2>10, NowPushed, FramesNext
  <2>12. Pending' = Pending /\ Pending \in Nat
    BY <1>1, <2>1, <2>7, <2>8, <2>11
  <2> QED
    BY <1>1, <1>2, <2>11, <2>12, KeptWhen
<1> QED
  BY <1>3, <1>4

LEMMA FinishProtectedKept == ASSUME Inv, Inv', TidyInv, FinishProtected PROVE Kept
<1>1. /\ frames # <<>> /\ ~yielded'.on /\ nest' = nest
      /\ Driven /\ Top.err # NoError /\ Top.tbc = 0 /\ Top.prot # "none"
  BY DEF FinishProtected, Driven, Plain
<1>2. ~nest'.on
  BY <1>1, NotNested
<1>3. Top \in GoodFrames /\ Neat(Top)
  BY <1>1, TopNow
<1>4. CASE Depth = 1
  BY <1>1, <1>2, <1>4, LastOneKept DEF FinishProtected
<1>5. CASE Depth # 1 /\ Top.prot \in {"lua", "handler"} /\ ~Exhausted
  <2> DEFINE f == [NewFrame EXCEPT !.depth = Top.depth, !.drop = Top.drop, !.astray = Top.astray]
             g == Handler(f)
  <2>1. frames' = Append(Below(frames), g)
    BY <1>5 DEF FinishProtected
  <2>2. /\ f \in FrameSet /\ ~f.tramp /\ f.tbc = 0 /\ f.drop = Top.drop
        /\ f.astray = Top.astray
    BY <1>3, NewErr, MadeFacts DEF GoodFrames, FrameSet
  <2> HIDE DEF f
  <2>3. /\ ~g.tramp /\ g.tbc = 0 /\ g.prot = "handler" /\ g.drop = Top.drop
        /\ g.astray = Top.astray
    BY <2>2, HandlerFacts
  <2> HIDE DEF g
  <2>4. Neat(g) /\ g.tbc \in Nat /\ g.tbc >= Top.tbc
    BY <1>1, <1>3, <2>3 DEF Neat
  <2> QED
    BY <1>1, <1>2, <2>1, <2>3, <2>4, ReplacedKept
<1>6. CASE Depth # 1 /\ ~(Top.prot \in {"lua", "handler"} /\ ~Exhausted)
  <2>1. frames' = Below(frames)
    BY <1>6 DEF FinishProtected
  <2>2. /\ Tidy(Below(frames)) /\ PendingIn(Below(frames)) \in Nat
        /\ Pending = PendingIn(Below(frames)) + Top.tbc
    BY <1>1, TopNow
  <2>3. Pending' = PendingIn(Below(frames)) /\ Tidy(frames')
    BY <2>1, <2>2, NowUp
  <2> QED
    BY <1>1, <1>2, <2>2, <2>3, KeptWhen
<1> QED
  BY <1>4, <1>5, <1>6

LEMMA QuotaExceededKept == ASSUME Inv, Inv', TidyInv, QuotaExceeded PROVE Kept
<1>1. frames' = <<>> /\ ~nest'.on /\ ~yielded'.on /\ fate' = "stopped"
  BY DEF QuotaExceeded, Ready, NoNest
<1> QED
  BY <1>1, TidyNone, NowOff DEF Kept, Counted

-----------------------------------------------------------------------------
LEMMA InitTidy == Init => TidyInv
  BY TidyNone DEF Init, TidyInv, NestTidy, YieldTidy, NoNest, NotYielded

LEMMA StepKept == ASSUME Inv, Inv', TidyInv, Next PROVE Kept
<1>1. ASSUME NEW co \in BOOLEAN, Begin(co)
      PROVE  Kept
  BY <1>1, BeginKept
<1>2. CASE \/ Step \/ OpenTbc \/ Call \/ TailCall \/ Return
           \/ \E n \in 0 .. MaxTbc : CloseScope(n)
           \/ \E e \in Thrown : Raise(e)
  BY <1>2, InstructionKept
<1>3. ASSUME NEW e \in Thrown, BareCall(e)
      PROVE  Kept
  BY <1>3, BareCallKept
<1>4. ASSUME NEW kind \in Kinds, NEW tail \in BOOLEAN,
             ProtectedCall(kind, tail) \/ NestedCall(kind, tail)
      PROVE  Kept
  BY <1>4, ProtectedCallKept, NestedCallKept
<1>5. ASSUME NEW kind \in Kinds, NEW tail \in BOOLEAN, NEW e \in Thrown \cup {NoError},
             ProtectedHostCall(kind, tail, e)
      PROVE  Kept
  BY <1>5, ProtectedHostCallKept
<1>6. ASSUME NEW tail \in BOOLEAN, NEW status \in BOOLEAN, Yield(tail, status)
      PROVE  Kept
  BY <1>6, YieldKept
<1>7. CASE Resume \/ CloseValue \/ ScopeClosed \/ Unwind \/ FinishProtected \/ QuotaExceeded
  BY <1>7, ResumeKept, CloseValueKept, ScopeClosedKept, UnwindKept, FinishProtectedKept,
     QuotaExceededKept
<1> QED
  BY <1>1, <1>2, <1>3, <1>4, <1>5, <1>6, <1>7 DEF Next

LEMMA StepTidy == Inv /\ Inv' /\ TidyInv /\ [Next]_vars => TidyInv'
<1>1. CASE Next
  BY <1>1, StepKept DEF Kept
<1>2. ASSUME TidyInv, UNCHANGED vars
      PROVE  TidyInv'
  BY <1>2 DEF vars, TidyInv, Tidy, Rests, Neat, Fits, NestTidy, YieldTidy, Top, Depth, Open
<1> QED
  BY <1>1, <1>2

(* No to-be-closed value is lost: a step that takes one off the frames takes   *)
(* only that one and calls its handler, or found no frame for it.             *)
THEOREM ClosesEverything == Spec => ClosesAll
<1>1. Inv /\ Inv' /\ TidyInv /\ [Next]_vars
      => [Pending' < Pending =>
            fate' = "stopped" \/ (fate' \in {"closed", "full"} /\ Pending' = Pending - 1)]_vars
  BY StepKept DEF Kept, Counted
<1> QED
  BY <1>1, InitInv, StepInv, InitTidy, StepTidy, PTL DEF Spec, ClosesAll

-----------------------------------------------------------------------------
(* The stack that the frames are.                                           *)
ItemKinds == {"call", "close", "drop", "unwind"} \cup (Protections \ {"none"})
Items == [kind: ItemKinds, error: Errors \cup {NoError}]

(* The error that the top of fs waits with.                                  *)
Waits(fs) == IF fs = <<>> THEN NoError ELSE fs[Len(fs)].err

-----------------------------------------------------------------------------
(* Stacks.                                                                  *)

LEMMA PushItem ==
  ASSUME NEW s \in Seq(Items), NEW x \in Items
  PROVE  /\ Append(s, x) \in Seq(Items) /\ Append(s, x) # <<>>
         /\ Len(Append(s, x)) = Len(s) + 1 /\ Len(s) \in Nat
         /\ Append(s, x)[Len(Append(s, x))] = x
         /\ Below(Append(s, x)) = s
<1> DEFINE t == Append(s, x)
<1>1. /\ t \in Seq(Items) /\ Len(t) = Len(s) + 1 /\ Len(s) \in Nat
      /\ \A i \in 1 .. Len(s) : t[i] = s[i]
      /\ t[Len(s) + 1] = x
  OBVIOUS
<1> HIDE DEF t
<1>2. /\ SubSeq(t, 1, Len(s)) \in Seq(Items) /\ Len(SubSeq(t, 1, Len(s))) = Len(s)
      /\ \A i \in 1 .. Len(s) : SubSeq(t, 1, Len(s))[i] = t[i]
  <2>1. \A k \in 0 .. Len(t) :
          /\ SubSeq(t, 1, k) \in Seq(Items) /\ Len(SubSeq(t, 1, k)) = k
          /\ \A i \in 1 .. k : SubSeq(t, 1, k)[i] = t[i]
    BY <1>1
  <2>2. Len(s) \in 0 .. Len(t)
    BY <1>1
  <2> QED
    BY <2>1, <2>2
<1>3. \A u, v \in Seq(Items) :
        Len(u) = Len(v) /\ (\A j \in 1 .. Len(u) : u[j] = v[j]) => u = v
  OBVIOUS
<1>4. SubSeq(t, 1, Len(s)) = s
  BY <1>1, <1>2, <1>3
<1>5. Below(t) = s /\ t # <<>> /\ t[Len(t)] = x
  BY <1>1, <1>4 DEF Below
<1> QED
  BY <1>1, <1>5 DEF t

LEMMA ItemFacts ==
  /\ \A k \in ItemKinds :
       /\ Item(k) \in Items /\ Item(k).kind = k /\ Item(k).error = NoError
       /\ Calls!Item(k) = Item(k)
  /\ \A e \in Errors : [kind |-> "unwind", error |-> e] \in Items
  BY DEF Item, Items, ItemKinds, Calls!Item

Closers(k) == [n \in 1 .. k |-> Item("close")]

LEMMA CloserFacts ==
  ASSUME NEW s \in Seq(Items), NEW k \in Nat
  PROVE  /\ s \o Closers(k) \in Seq(Items)
         /\ s \o Closers(0) = s
         /\ s \o Closers(k + 1) = Append(s \o Closers(k), Item("close"))
<1> DEFINE c == Item("close")
<1>1. c \in Items
  BY ItemFacts DEF ItemKinds
<1> HIDE DEF c
<1>2. \A j \in Nat : /\ Closers(j) \in Seq(Items) /\ Len(Closers(j)) = j
                     /\ \A i \in 1 .. j : Closers(j)[i] = c
  BY <1>1 DEF Closers, c
<1>3. \A t \in Seq(Items) : /\ s \o t \in Seq(Items) /\ Len(s \o t) = Len(s) + Len(t)
                            /\ \A i \in 1 .. Len(s) : (s \o t)[i] = s[i]
                            /\ \A i \in 1 .. Len(t) : (s \o t)[Len(s) + i] = t[i]
  OBVIOUS
<1>4. \A u, v \in Seq(Items) :
        Len(u) = Len(v) /\ (\A j \in 1 .. Len(u) : u[j] = v[j]) => u = v
  OBVIOUS
<1>5. Len(s) \in Nat
  OBVIOUS
<1>6. s \o Closers(0) = s
  <2>1. Closers(0) = <<>>
    BY <1>2
  <2> QED
    BY <2>1
<1>7. s \o Closers(k + 1) = Append(s \o Closers(k), c)
  <2> DEFINE u == s \o Closers(k + 1)
             w == s \o Closers(k)
             v == Append(w, c)
  <2>1. /\ Closers(k) \in Seq(Items) /\ Len(Closers(k)) = k
        /\ Closers(k + 1) \in Seq(Items) /\ Len(Closers(k + 1)) = k + 1
        /\ \A i \in 1 .. k + 1 : Closers(k + 1)[i] = c
        /\ \A i \in 1 .. k : Closers(k)[i] = c
    BY <1>2
  <2>2. /\ u \in Seq(Items) /\ Len(u) = Len(s) + k + 1
        /\ \A i \in 1 .. Len(s) : u[i] = s[i]
        /\ \A i \in 1 .. k + 1 : u[Len(s) + i] = c
    <3> DEFINE z == Closers(k + 1)
    <3>1. z \in Seq(Items) /\ Len(z) = k + 1 /\ \A i \in 1 .. k + 1 : z[i] = c
      BY <2>1
    <3> HIDE DEF z
    <3>20. /\ s \o z \in Seq(Items) /\ Len(s \o z) = Len(s) + Len(z)
           /\ \A i \in 1 .. Len(s) : (s \o z)[i] = s[i]
           /\ \A i \in 1 .. Len(z) : (s \o z)[Len(s) + i] = z[i]
      BY <1>3, <3>1
    <3>2. /\ s \o z \in Seq(Items) /\ Len(s \o z) = Len(s) + k + 1
          /\ \A i \in 1 .. Len(s) : (s \o z)[i] = s[i]
          /\ \A i \in 1 .. k + 1 : (s \o z)[Len(s) + i] = c
      BY <1>5, <3>1, <3>20
    <3> QED
      BY <3>2 DEF z
  <2>3. /\ w \in Seq(Items) /\ Len(w) = Len(s) + k
        /\ \A i \in 1 .. Len(s) : w[i] = s[i]
        /\ \A i \in 1 .. k : w[Len(s) + i] = c
    <3> DEFINE z == Closers(k)
    <3>1. z \in Seq(Items) /\ Len(z) = k /\ \A i \in 1 .. k : z[i] = c
      BY <2>1
    <3> HIDE DEF z
    <3>2. /\ s \o z \in Seq(Items) /\ Len(s \o z) = Len(s) + Len(z)
          /\ \A i \in 1 .. Len(s) : (s \o z)[i] = s[i]
          /\ \A i \in 1 .. Len(z) : (s \o z)[Len(s) + i] = z[i]
      BY <1>3, <3>1
    <3>3. /\ s \o z \in Seq(Items) /\ Len(s \o z) = Len(s) + k
          /\ \A i \in 1 .. Len(s) : (s \o z)[i] = s[i]
          /\ \A i \in 1 .. k : (s \o z)[Len(s) + i] = c
      BY <1>5, <3>1, <3>2
    <3> QED
      BY <3>3 DEF z
  <2> HIDE DEF u, w
  <2>4. /\ v \in Seq(Items) /\ Len(v) = Len(w) + 1
        /\ \A i \in 1 .. Len(w) : v[i] = w[i]
        /\ v[Len(w) + 1] = c
    BY <1>1, <2>3
  <2> HIDE DEF v
  <2>5. ASSUME NEW j \in 1 .. Len(u)
        PROVE  u[j] = v[j]
    <3>1. CASE j \in 1 .. Len(s)
      BY <1>5, <2>2, <2>3, <2>4, <3>1
    <3>2. CASE j \notin 1 .. Len(s)
      <4>1. PICK i \in 1 .. k + 1 : j = Len(s) + i
        <5>1. j - Len(s) \in 1 .. k + 1 /\ j = Len(s) + (j - Len(s))
          BY <1>5, <2>2, <3>2
        <5> QED
          BY <5>1
      <4>2. u[j] = c
        BY <2>2, <4>1
      <4>3. CASE i = k + 1
        BY <1>5, <2>3, <2>4, <4>1, <4>2, <4>3
      <4>4. CASE i # k + 1
        <5>1. i \in 1 .. k /\ j \in 1 .. Len(w)
          BY <1>5, <2>3, <4>1, <4>4
        <5> QED
          BY <2>3, <2>4, <4>1, <4>2, <5>1
      <4> QED
        BY <4>3, <4>4
    <3> QED
      BY <3>1, <3>2
  <2>6. Len(u) = Len(v)
    BY <2>2, <2>3, <2>4, <1>5
  <2>7. u = v
    BY <1>4, <2>2, <2>4, <2>5, <2>6
  <2> QED
    BY <2>7 DEF u, v, w
<1>8. s \o Closers(k) \in Seq(Items)
  BY <1>2, <1>3
<1> QED
  BY <1>6, <1>7, <1>8 DEF c

LEMMA EnteredFacts ==
  ASSUME NEW s \in Seq(Items), NEW e \in Errors \cup {NoError}, NEW f \in GoodFrames
  PROVE  /\ Marked(s, e, f) \in Seq(Items)
         /\ Guarded(s, e, f) \in Seq(Items)
         /\ Entered(s, e, f) \in Seq(Items)
<1>1. f.prot \in Protections
  BY DEF GoodFrames, FrameSet
<1>2. Marked(s, e, f) \in Seq(Items)
  <2>1. CASE e # NoError
    BY <2>1, ItemFacts, PushItem DEF Marked
  <2>2. CASE e = NoError
    BY <2>2, ItemFacts, PushItem DEF Marked, ItemKinds
  <2> QED
    BY <2>1, <2>2
<1>3. Guarded(s, e, f) \in Seq(Items)
  BY <1>1, <1>2, ItemFacts, PushItem DEF Guarded, ItemKinds
<1>4. Entered(s, e, f) \in Seq(Items)
  BY <1>3, ItemFacts, PushItem DEF Entered, ItemKinds
<1> QED
  BY <1>2, <1>3, <1>4

LEMMA PlacedFacts ==
  ASSUME NEW s \in Seq(Items), NEW e \in Errors \cup {NoError}, NEW f \in GoodFrames
  PROVE  /\ Placed(s, e, f) \in Seq(Items)
         /\ Placed(s, e, f) = Entered(s, e, f) \o Closers(f.tbc)
         /\ f.tbc = 0 => Placed(s, e, f) = Entered(s, e, f)
<1>1. f.tbc \in Nat
  BY DEF GoodFrames, FrameSet
<1>2. Placed(s, e, f) = Entered(s, e, f) \o Closers(f.tbc)
  BY DEF Placed, Closers
<1>3. Entered(s, e, f) \in Seq(Items)
  BY EnteredFacts
<1> DEFINE n == Entered(s, e, f)
<1>4. n \o Closers(f.tbc) \in Seq(Items) /\ n \o Closers(0) = n
  <2>1. n \in Seq(Items)
    BY <1>3
  <2> HIDE DEF n
  <2> QED
    BY <1>1, <2>1, CloserFacts
<1> HIDE DEF n
<1>5. Placed(s, e, f) = n \o Closers(f.tbc)
  BY <1>2 DEF n
<1>6. f.tbc = 0 => Placed(s, e, f) = n
  BY <1>4, <1>5
<1>7. Placed(s, e, f) \in Seq(Items)
  BY <1>4, <1>5
<1> QED
  BY <1>2, <1>6, <1>7 DEF n

-----------------------------------------------------------------------------
LEMMA WaitsFacts ==
  ASSUME NEW fs \in Seq(GoodFrames)
  PROVE  /\ Waits(fs) \in Errors \cup {NoError}
         /\ \A i \in 1 .. Len(fs) + 1 : WaitsWith(fs, i) \in Errors \cup {NoError}
         /\ Waits(fs) = WaitsWith(fs, Len(fs) + 1)
<1>1. \A i \in 1 .. Len(fs) : fs[i] \in GoodFrames
  OBVIOUS
<1>2. \A f \in GoodFrames : f.err \in Errors \cup {NoError}
  BY DEF GoodFrames, FrameSet
<1>3. Len(fs) \in Nat /\ (fs = <<>> <=> Len(fs) = 0)
  OBVIOUS
<1>4. ASSUME NEW i \in 1 .. Len(fs) + 1
      PROVE  WaitsWith(fs, i) \in Errors \cup {NoError}
  <2>1. CASE i > 1
    <3>1. i - 1 \in 1 .. Len(fs)
      BY <1>3, <2>1
    <3> QED
      BY <1>1, <1>2, <2>1, <3>1 DEF WaitsWith
  <2>2. CASE ~(i > 1)
    BY <2>2 DEF WaitsWith
  <2> QED
    BY <2>1, <2>2
<1>5. Waits(fs) = WaitsWith(fs, Len(fs) + 1)
  <2>1. CASE fs = <<>>
    BY <1>3, <2>1 DEF Waits, WaitsWith
  <2>2. CASE fs # <<>>
    <3>1. Len(fs) + 1 > 1 /\ Len(fs) + 1 - 1 = Len(fs)
      BY <1>3, <2>2
    <3> QED
      BY <2>2, <3>1 DEF Waits, WaitsWith
  <2> QED
    BY <2>1, <2>2
<1>6. Len(fs) + 1 \in 1 .. Len(fs) + 1
  BY <1>3
<1> QED
  BY <1>4, <1>5, <1>6

LEMMA StackFacts ==
  ASSUME NEW fs \in Seq(GoodFrames)
  PROVE  \E s :
           /\ s \in [0 .. Len(fs) -> Seq(Items)]
           /\ s[0] = <<>>
           /\ \A i \in 1 .. Len(fs) : s[i] = Placed(s[i - 1], WaitsWith(fs, i), fs[i])
           /\ StackIn(fs) = s[Len(fs)]
<1> DEFINE n == Len(fs)
           T == Seq(Items)
           F == [i \in 1 .. n |-> [x \in T |-> Placed(x, WaitsWith(fs, i), fs[i])]]
           Goes(s) == s = [i \in 0 .. n |->
                             IF i = 0 THEN <<>> ELSE Placed(s[i - 1], WaitsWith(fs, i), fs[i])]
           c == CHOOSE s : Goes(s)
<1>1. n \in Nat
  OBVIOUS
<1>2. \A i \in 1 .. n : \A x \in T : Placed(x, WaitsWith(fs, i), fs[i]) \in T
  <2> TAKE i \in 1 .. n
  <2> TAKE x \in T
  <2>1. fs[i] \in GoodFrames
    OBVIOUS
  <2>2. i \in 1 .. Len(fs) + 1
    BY <1>1
  <2>3. WaitsWith(fs, i) \in Errors \cup {NoError}
    BY <2>2, WaitsFacts
  <2> QED
    BY <2>1, <2>3, PlacedFacts
<1>3. F \in [1 .. n -> [T -> T]]
  <2> HIDE DEF n, T
  <2> QED
    BY <1>2
<1>4. PICK t : Course(n, T, <<>>, F, t)
  <2>1. <<>> \in T
    OBVIOUS
  <2> HIDE DEF n, F, T
  <2> QED
    BY <1>1, <1>3, <2>1, GoOn, Zenon
<1>5. t \in [0 .. n -> T] /\ t[0] = <<>> /\ \A i \in 1 .. n : t[i] = F[i][t[i - 1]]
  BY <1>4 DEF Course
<1>6. \A i \in 1 .. n : t[i - 1] \in T /\ t[i] = Placed(t[i - 1], WaitsWith(fs, i), fs[i])
  <2> TAKE i \in 1 .. n
  <2>1. t[i - 1] \in T
    <3> HIDE DEF n, T, F
    <3>1. i - 1 \in 0 .. n
      BY <1>1
    <3> QED
      BY <1>5, <3>1
  <2>2. F[i][t[i - 1]] = Placed(t[i - 1], WaitsWith(fs, i), fs[i])
    <3> HIDE DEF n, T
    <3> QED
      BY <2>1
  <2> QED
    BY <1>5, <2>1, <2>2
<1>7. t = [i \in 0 .. n |-> IF i = 0 THEN <<>> ELSE Placed(t[i - 1], WaitsWith(fs, i), fs[i])]
  <2> HIDE DEF n, F, T
  <2>1. \A i \in 0 .. n : t[i] = IF i = 0 THEN <<>> ELSE Placed(t[i - 1], WaitsWith(fs, i), fs[i])
    BY <1>1, <1>5, <1>6
  <2> QED
    BY <1>5, <2>1
<1>8. Goes(c)
  BY <1>7
<1>9. c[0] = <<>> /\ \A i \in 1 .. n : c[i] = Placed(c[i - 1], WaitsWith(fs, i), fs[i])
  <2> HIDE DEF c, n
  <2>1. \A i \in 0 .. n : c[i] = IF i = 0 THEN <<>> ELSE Placed(c[i - 1], WaitsWith(fs, i), fs[i])
    BY <1>8
  <2> QED
    BY <1>1, <2>1
<1>10. \A i \in 0 .. n : c[i] = t[i]
  <2> HIDE DEF c, n, F, T
  <2>1. c[0] = t[0] /\ \A i \in 1 .. n : c[i - 1] = t[i - 1] => c[i] = t[i]
    BY <1>5, <1>6, <1>9
  <2>2. n \in Nat /\ GoesAlike(n, c, t)
    BY <1>1, <2>1 DEF GoesAlike
  <2>3. Alike(n, c, t)
    BY <2>2, GoOnAlike
  <2> QED
    BY <2>3 DEF Alike
<1>11. StackIn(fs) = c[n]
  BY DEF StackIn
<1>12. StackIn(fs) = t[n]
  <2> HIDE DEF c, n
  <2> QED
    BY <1>1, <1>10, <1>11
<1> QED
  BY <1>5, <1>6, <1>12

LEMMA StackPush ==
  ASSUME NEW fs \in Seq(GoodFrames), NEW f \in GoodFrames
  PROVE  /\ StackIn(fs) \in Seq(Items)
         /\ StackIn(Append(fs, f)) = Placed(StackIn(fs), Waits(fs), f)
<1> DEFINE gs == Append(fs, f)
<1>1. /\ gs \in Seq(GoodFrames) /\ Len(gs) = Len(fs) + 1 /\ Len(fs) \in Nat
      /\ \A i \in 1 .. Len(fs) : gs[i] = fs[i]
      /\ gs[Len(fs) + 1] = f
  BY PushFacts
<1> HIDE DEF gs
<1>2. PICK s :
        /\ s \in [0 .. Len(fs) -> Seq(Items)]
        /\ s[0] = <<>>
        /\ \A i \in 1 .. Len(fs) : s[i] = Placed(s[i - 1], WaitsWith(fs, i), fs[i])
        /\ StackIn(fs) = s[Len(fs)]
  BY StackFacts
<1>3. PICK t :
        /\ t \in [0 .. Len(gs) -> Seq(Items)]
        /\ t[0] = <<>>
        /\ \A i \in 1 .. Len(gs) : t[i] = Placed(t[i - 1], WaitsWith(gs, i), gs[i])
        /\ StackIn(gs) = t[Len(gs)]
  BY <1>1, StackFacts
<1>4. \A i \in 1 .. Len(fs) + 1 : WaitsWith(gs, i) = WaitsWith(fs, i)
  <2> TAKE i \in 1 .. Len(fs) + 1
  <2>1. CASE i > 1
    <3>1. i - 1 \in 1 .. Len(fs)
      BY <1>1, <2>1
    <3> QED
      BY <1>1, <2>1, <3>1 DEF WaitsWith
  <2>2. CASE ~(i > 1)
    BY <2>2 DEF WaitsWith
  <2> QED
    BY <2>1, <2>2
<1>5. s[0] = t[0] /\ \A i \in 1 .. Len(fs) : s[i - 1] = t[i - 1] => s[i] = t[i]
  <2>1. \A i \in 1 .. Len(fs) : i \in 1 .. Len(gs) /\ gs[i] = fs[i] /\ i \in 1 .. Len(fs) + 1
    BY <1>1
  <2> QED
    BY <1>2, <1>3, <1>4, <2>1
<1>6. s[Len(fs)] = t[Len(fs)]
  <2>1. Len(fs) \in Nat
    BY <1>1
  <2>2. GoesAlike(Len(fs), s, t)
    BY <1>5 DEF GoesAlike
  <2>3. Alike(Len(fs), s, t)
    BY <2>1, <2>2, GoOnAlike
  <2> QED
    BY <2>1, <2>3 DEF Alike
<1>7. StackIn(gs) = Placed(t[Len(fs)], WaitsWith(fs, Len(fs) + 1), f)
  <2>1. Len(fs) + 1 \in 1 .. Len(gs) /\ Len(fs) + 1 - 1 = Len(fs) /\ Len(gs) = Len(fs) + 1
        /\ Len(fs) + 1 \in 1 .. Len(fs) + 1
    BY <1>1
  <2>2. t[Len(gs)] = Placed(t[Len(fs) + 1 - 1], WaitsWith(gs, Len(fs) + 1), gs[Len(fs) + 1])
    BY <1>3, <2>1
  <2> QED
    BY <1>1, <1>3, <1>4, <2>1, <2>2
<1>8. StackIn(fs) \in Seq(Items)
  <2>1. Len(fs) \in 0 .. Len(fs)
    BY <1>1
  <2> QED
    BY <1>2, <2>1
<1> QED
  BY <1>2, <1>6, <1>7, <1>8, WaitsFacts DEF gs

LEMMA StackNone == StackIn(<<>>) = <<>>
<1>1. <<>> \in Seq(GoodFrames) /\ Len(<<>>) = 0
  OBVIOUS
<1>2. PICK s : s[0] = <<>> /\ StackIn(<<>>) = s[0]
  BY <1>1, StackFacts
<1> QED
  BY <1>2

-----------------------------------------------------------------------------
(* Results on the stack: a result passes at most two protected calls at once,  *)
(* that of a host function which has yielded and that of the frame it left.   *)
Walled == {"plain", "lua", "host", "handler"}

Outcome(k, r) == Calls!Passed(k, r)

(* The result r reaches what is on top of s.                                 *)
Lands(s, r) ==
  \/ StackOf' = s /\ got' = r /\ RaisingOf' = NoError
  \/ /\ s # <<>> /\ s[Len(s)].kind \in {"drop", "unwind"}
     /\ StackOf' = Below(s) /\ got' = <<>> /\ RaisingOf' = s[Len(s)].error

LEMMA AfterFacts ==
  ASSUME NEW s, NEW r
  PROVE  /\ Calls!After(s, r, 0) = [s |-> s, r |-> r]
         /\ Calls!After(s, r, 1) = [s |-> Below(s), r |-> Outcome(Calls!Kind(s), r)]
         /\ Calls!After(s, r, 2) =
              [s |-> Below(Below(s)),
               r |-> Outcome(Calls!Kind(Below(s)), Outcome(Calls!Kind(s), r))]
<1> DEFINE Leave(a) == [s |-> Calls!Pop(a.s), r |-> Calls!Passed(Calls!Kind(a.s), a.r)]
           a0 == [s |-> s, r |-> r]
           a1 == Leave(a0)
           a2 == Leave(a1)
           Goes(n, p) == p = [i \in 0 .. n |-> IF i = 0 THEN a0 ELSE Leave(p[i - 1])]
           c(n) == CHOOSE p : Goes(n, p)
<1>1. \A n \in 0 .. 2 : Calls!After(s, r, n) = c(n)[n]
  BY DEF Calls!After
<1>2. a1 = [s |-> Below(s), r |-> Outcome(Calls!Kind(s), r)]
  BY DEF Calls!Pop, Below, Outcome
<1>3. a2 = [s |-> Below(Below(s)),
            r |-> Outcome(Calls!Kind(Below(s)), Outcome(Calls!Kind(s), r))]
  BY DEF Calls!Pop, Below, Outcome
<1> HIDE DEF Leave, a0
<1>4. \A n \in 0 .. 2 : Goes(n, c(n))
  <2> TAKE n \in 0 .. 2
  <2> DEFINE p == [i \in 0 .. n |-> IF i = 0 THEN a0 ELSE IF i = 1 THEN a1 ELSE a2]
  <2>1. ASSUME NEW i \in 0 .. n
        PROVE  p[i] = IF i = 0 THEN a0 ELSE Leave(p[i - 1])
    <3>1. i = 0 \/ i = 1 \/ i = 2
      OBVIOUS
    <3>2. CASE i = 0
      BY <3>2
    <3>3. CASE i = 1
      <4>1. i - 1 = 0 /\ 0 \in 0 .. n
        BY <3>3
      <4> QED
        BY <3>3, <4>1
    <3>4. CASE i = 2
      <4>1. i - 1 = 1 /\ 1 \in 0 .. n
        BY <3>4
      <4> QED
        BY <3>4, <4>1
    <3> QED
      BY <3>1, <3>2, <3>3, <3>4
  <2>2. Goes(n, p)
    BY <2>1
  <2> HIDE DEF Goes, p
  <2> QED
    BY <2>2
<1> HIDE DEF c
<1>5. \A n \in 0 .. 2 : \A i \in 0 .. n : c(n)[i] = IF i = 0 THEN a0 ELSE Leave(c(n)[i - 1])
  <2> TAKE n \in 0 .. 2
  <2>1. Goes(n, c(n))
    BY <1>4
  <2> QED
    BY <2>1
<1>6. c(0)[0] = a0 /\ c(1)[0] = a0 /\ c(2)[0] = a0
  BY <1>5
<1>7. c(1)[1] = a1 /\ c(2)[1] = a1
  BY <1>5, <1>6
<1>8. c(2)[2] = a2
  BY <1>5, <1>7
<1> QED
  BY <1>1, <1>2, <1>3, <1>6, <1>7, <1>8 DEF a0

LEMMA KindFacts ==
  ASSUME NEW s \in Seq(Items), NEW x \in Items
  PROVE  /\ Calls!Kind(Append(s, x)) = x.kind
         /\ Calls!Pop(Append(s, x)) = s
         /\ Append(s, x) # <<>>
  BY PushItem DEF Calls!Kind, Calls!Pop, Below

LEMMA Hand0 ==
  ASSUME NEW s \in Seq(Items), NEW r, Lands(s, r)
  PROVE  Calls!Hand(s, r)
<1>1. 0 \in 0 .. Len(s) /\ \A i \in 0 .. 0 - 1 : s[Len(s) - i].kind \in Calls!Boundary
  OBVIOUS
<1>2. Calls!After(s, r, 0).s = s /\ Calls!After(s, r, 0).r = r
  BY AfterFacts
<1>3. Lands(s, r)
  OBVIOUS
<1> QED
  BY <1>1, <1>2, <1>3 DEF Calls!Hand, Lands, Calls!Kind, Calls!Pop, Below

LEMMA Hand1 ==
  ASSUME NEW s \in Seq(Items), NEW x \in Items, x.kind \in Walled, NEW r,
         Lands(s, Outcome(x.kind, r))
  PROVE  Calls!Hand(Append(s, x), r)
<1> DEFINE t == Append(s, x)
<1>1. /\ t \in Seq(Items) /\ Len(t) = Len(s) + 1 /\ Len(s) \in Nat /\ t[Len(t)] = x
      /\ Below(t) = s /\ t # <<>>
  BY PushItem
<1> HIDE DEF t
<1>2. 1 \in 0 .. Len(t) /\ \A i \in 0 .. 1 - 1 : t[Len(t) - i].kind \in Calls!Boundary
  BY <1>1 DEF Calls!Boundary, Walled
<1>3. Calls!After(t, r, 1).s = s /\ Calls!After(t, r, 1).r = Outcome(x.kind, r)
  BY <1>1, AfterFacts DEF Calls!Kind
<1>4. Lands(s, Outcome(x.kind, r))
  OBVIOUS
<1>5. Calls!Hand(t, r)
  BY <1>2, <1>3, <1>4 DEF Calls!Hand, Lands, Calls!Kind, Calls!Pop, Below
<1> QED
  BY <1>5 DEF t

LEMMA Hand2 ==
  ASSUME NEW s \in Seq(Items), NEW x \in Items, NEW y \in Items,
         x.kind \in Walled, y.kind \in Walled, NEW r,
         Lands(s, Outcome(x.kind, Outcome(y.kind, r)))
  PROVE  Calls!Hand(Append(Append(s, x), y), r)
<1> DEFINE u == Append(s, x)
           t == Append(u, y)
<1>1. /\ u \in Seq(Items) /\ Len(u) = Len(s) + 1 /\ Len(s) \in Nat /\ u[Len(u)] = x
      /\ Below(u) = s /\ u # <<>>
  BY PushItem
<1> HIDE DEF u
<1>2. /\ t \in Seq(Items) /\ Len(t) = Len(u) + 1 /\ t[Len(t)] = y
      /\ Below(t) = u /\ t # <<>>
  BY <1>1, PushItem
<1>3. t[Len(t) - 1] = x
  <2>1. \A i \in 1 .. Len(u) : t[i] = u[i]
    BY <1>1
  <2>2. Len(u) \in 1 .. Len(u) /\ Len(t) - 1 = Len(u)
    BY <1>1, <1>2
  <2> QED
    BY <1>1, <2>1, <2>2
<1> HIDE DEF t
<1>4. 2 \in 0 .. Len(t) /\ \A i \in 0 .. 2 - 1 : t[Len(t) - i].kind \in Calls!Boundary
  <2>1. 2 \in 0 .. Len(t)
    BY <1>1, <1>2
  <2>2. ASSUME NEW i \in 0 .. 2 - 1
        PROVE  t[Len(t) - i].kind \in Calls!Boundary
    <3>1. CASE i = 0
      BY <1>1, <1>2, <3>1 DEF Calls!Boundary, Walled
    <3>2. CASE i = 1
      BY <1>3, <3>2 DEF Calls!Boundary, Walled
    <3> QED
      BY <3>1, <3>2
  <2> QED
    BY <2>1, <2>2
<1>5. /\ Calls!After(t, r, 2).s = s
      /\ Calls!After(t, r, 2).r = Outcome(x.kind, Outcome(y.kind, r))
  BY <1>1, <1>2, AfterFacts DEF Calls!Kind
<1>6. Lands(s, Outcome(x.kind, Outcome(y.kind, r)))
  OBVIOUS
<1>7. Calls!Hand(t, r)
  BY <1>4, <1>5, <1>6 DEF Calls!Hand, Lands, Calls!Kind, Calls!Pop, Below
<1> QED
  BY <1>7 DEF t, u

-----------------------------------------------------------------------------
(* One step, of a program that makes no odd call.  Root is the stack below the *)
(* top frame, and Expects the error that waits there.                         *)
Regular == Odd = {} /\ Inv /\ Inv' /\ TidyInv

Root == StackIn(Below(frames))
Expects == Waits(Below(frames))

LEMMA RootFacts ==
  ASSUME Regular, frames # <<>>
  PROVE  /\ Below(frames) \in Seq(GoodFrames) /\ Top \in GoodFrames /\ Neat(Top)
         /\ frames = Append(Below(frames), Top)
         /\ Root \in Seq(Items) /\ Expects \in Errors \cup {NoError}
         /\ StackIn(frames) = Placed(Root, Expects, Top)
         /\ StackIn(frames) \in Seq(Items)
         /\ Expects # NoError => Top.drop
         /\ Below(frames) = <<>> => ~Top.drop /\ Top.prot = "none"
         /\ Below(frames) = <<>> <=> Depth = 1
         /\ Depth \in Nat \ {0}
         /\ ~Top.astray /\ Top.tbc \in Nat
<1>1. /\ frames = Append(Below(frames), Top)
      /\ Below(frames) \in Seq(GoodFrames) /\ Top \in GoodFrames
      /\ Depth = Len(Below(frames)) + 1 /\ Depth \in Nat \ {0}
      /\ Rests(Below(frames), Top) /\ Neat(Top) /\ Top.tbc \in Nat
  BY TopNow DEF Regular
<1> DEFINE b == Below(frames)
           t == Top
<1>2. frames = Append(b, t) /\ b \in Seq(GoodFrames) /\ t \in GoodFrames
  BY <1>1
<1> HIDE DEF b, t
<1>3. Root \in Seq(Items) /\ Expects \in Errors \cup {NoError}
  BY <1>2, StackPush, WaitsFacts DEF Root, Expects, b
<1>4. StackIn(frames) = Placed(Root, Expects, t)
  <2>1. StackIn(Append(b, t)) = Placed(StackIn(b), Waits(b), t)
    BY <1>2, StackPush
  <2>2. StackIn(frames) = StackIn(Append(b, t))
    BY <1>2, Zenon
  <2> QED
    BY <2>1, <2>2 DEF Root, Expects, b
<1>5. StackIn(frames) \in Seq(Items)
  BY <1>2, <1>3, <1>4, PlacedFacts
<1>6. b = <<>> <=> Depth = 1
  BY <1>1, <1>2 DEF b
<1>7. Expects # NoError => Top.drop
  BY <1>1 DEF Expects, Waits, Rests, Fits, Regular
<1>8. /\ Below(frames) = <<>> => ~Top.drop /\ Top.prot = "none"
      /\ ~Top.astray
  BY <1>1 DEF Rests, Neat, Regular
<1> QED
  BY <1>1, <1>3, <1>4, <1>5, <1>6, <1>7, <1>8 DEF t, b

(* The stack depends on what matters to it of the top frame.                  *)
LEMMA PlacedAlike ==
  ASSUME NEW s, NEW e, NEW f, NEW g, f.tramp = g.tramp, f.tbc = g.tbc, f.prot = g.prot,
         f.drop = g.drop
  PROVE  Placed(s, e, f) = Placed(s, e, g)
  BY DEF Placed, Entered, Guarded, Marked

LEMMA GuardedAlike ==
  ASSUME NEW s, NEW e, NEW f, NEW g, f.prot = g.prot, f.drop = g.drop
  PROVE  Guarded(s, e, f) = Guarded(s, e, g)
  BY DEF Guarded, Marked

-----------------------------------------------------------------------------
LEMMA StackNow == ~yielded.on => StackOf = StackIn(frames)
  BY DEF StackOf

LEMMA StackNext ==
  ASSUME NEW fs, frames' = fs, ~yielded'.on
  PROVE  StackOf' = StackIn(fs)
<1>1. StackOf' = StackIn(frames)'
  BY DEF StackOf
<1>2. StackIn(frames)' = StackIn(frames')
  BY Zenon DEF StackIn, WaitsWith, Placed, Entered, Guarded, Marked, Item
<1> QED
  BY <1>1, <1>2

LEMMA RaisingNow ==
  ASSUME frames # <<>>, dead = NoError
  PROVE  RaisingOf = Top.err
  BY DEF RaisingOf

LEMMA RaisingNext ==
  ASSUME NEW fs, frames' = fs, dead' = NoError
  PROVE  RaisingOf' = Waits(fs)
  BY DEF RaisingOf, Waits, Top, Depth

LEMMA DeadNext == ASSUME dead' # NoError PROVE RaisingOf' = dead'
  BY DEF RaisingOf

(* The frames are fs with the error e on top.                                *)
LEMMA ErrNext ==
  ASSUME Inv', NEW fs \in Seq(GoodFrames), fs # <<>>, NEW e,
         frames' = [fs EXCEPT ![Len(fs)].err = e], dead' = NoError, ~yielded'.on
  PROVE  StackOf' = StackIn(fs) /\ RaisingOf' = e
<1> DEFINE b == Below(fs)
           t == fs[Len(fs)]
           g == [t EXCEPT !.err = e]
<1>1. fs = Append(b, t) /\ b \in Seq(GoodFrames) /\ t \in GoodFrames
  BY Split
<1>2. frames' = Append(b, g)
  <2>1. frames' = [fs EXCEPT ![Len(fs)] = g]
    OBVIOUS
  <2> HIDE DEF g
  <2> QED
    BY <2>1, EditTop
<1>3. /\ g.tbc = t.tbc /\ g.tramp = t.tramp /\ g.prot = t.prot /\ g.drop = t.drop
      /\ g.err = e
  BY <1>1 DEF GoodFrames, FrameSet
<1> HIDE DEF b, t, g
<1>4. g \in GoodFrames
  BY <1>1, <1>2, FramesNext, LastGood
<1>5. StackOf' = StackIn(Append(b, g))
  BY <1>2, StackNext
<1>6. StackIn(Append(b, g)) = StackIn(Append(b, t))
  BY <1>1, <1>3, <1>4, StackPush, PlacedAlike
<1>7. RaisingOf' = e
  <2>1. Append(b, g) # <<>> /\ Append(b, g)[Len(Append(b, g))] = g
    BY <1>1, <1>4, PushBelow
  <2>2. Waits(Append(b, g)) = e
    BY <1>3, <2>1 DEF Waits
  <2> QED
    BY <1>2, <2>2, RaisingNext
<1> QED
  BY <1>1, <1>5, <1>6, <1>7

LEMMA RaisesNext ==
  ASSUME Inv', NEW fs \in Seq(GoodFrames), fs # <<>>, NEW e \in Errors, Raises(fs, e),
         dead = NoError, ~yielded'.on
  PROVE  StackOf' = StackIn(fs) /\ RaisingOf' = e
<1>1. e # NoError
  BY FramesAssumption
<1>2. CASE frames' = fs /\ dead' = e
  BY <1>1, <1>2, StackNext, DeadNext
<1>3. CASE frames' = [fs EXCEPT ![Len(fs)].err = e] /\ dead' = NoError
  BY <1>3, ErrNext
<1> QED
  BY <1>2, <1>3 DEF Raises

(* What waits for the result of a frame, and is not a call that wants it.      *)
LEMMA MarkedItem ==
  ASSUME NEW s, NEW e \in Errors \cup {NoError}, NEW f, e # NoError \/ f.drop
  PROVE  \E x : x \in Items /\ x.kind \in {"drop", "unwind"} /\ Marked(s, e, f) = Append(s, x)
<1>1. CASE e # NoError
  <2>1. /\ [kind |-> "unwind", error |-> e] \in Items
        /\ Marked(s, e, f) = Append(s, [kind |-> "unwind", error |-> e])
    BY <1>1, ItemFacts DEF Marked
  <2> QED
    BY <2>1
<1>2. CASE e = NoError
  <2>1. Marked(s, e, f) = Append(s, Item("drop"))
    BY <1>2 DEF Marked
  <2>2. Item("drop") \in Items /\ Item("drop").kind = "drop"
    BY ItemFacts DEF ItemKinds
  <2> QED
    BY <2>1, <2>2
<1> QED
  BY <1>1, <1>2

(* The result of the top frame reaches what waits for it.                     *)
LEMMA MarkedLands ==
  ASSUME Regular, frames # <<>>, frames' = Below(frames), dead' = NoError, ~yielded'.on,
         NEW r, got' = IF Top.drop THEN <<>> ELSE r
  PROVE  Lands(Marked(Root, Expects, Top), r)
<1>1. /\ Root \in Seq(Items) /\ Expects \in Errors \cup {NoError}
      /\ Expects # NoError => Top.drop
  BY RootFacts
<1>2. StackOf' = Root /\ RaisingOf' = Expects
  BY StackNext, RaisingNext DEF Root, Expects
<1>3. CASE Expects # NoError
  <2> DEFINE x == [kind |-> "unwind", error |-> Expects]
  <2>1. Marked(Root, Expects, Top) = Append(Root, x)
    BY <1>3 DEF Marked
  <2>2. x \in Items /\ x.kind = "unwind" /\ x.error = Expects
    BY <1>1, <1>3, ItemFacts
  <2> HIDE DEF x
  <2>3. /\ Append(Root, x) # <<>> /\ Append(Root, x)[Len(Append(Root, x))] = x
        /\ Below(Append(Root, x)) = Root
    BY <1>1, <2>2, PushItem
  <2> QED
    BY <1>1, <1>2, <1>3, <2>1, <2>2, <2>3 DEF Lands
<1>4. CASE Expects = NoError /\ Top.drop
  <2> DEFINE x == Item("drop")
  <2>1. Marked(Root, Expects, Top) = Append(Root, x)
    BY <1>4 DEF Marked
  <2>2. x \in Items /\ x.kind = "drop" /\ x.error = NoError
    BY ItemFacts DEF ItemKinds
  <2> HIDE DEF x
  <2>3. /\ Append(Root, x) # <<>> /\ Append(Root, x)[Len(Append(Root, x))] = x
        /\ Below(Append(Root, x)) = Root
    BY <1>1, <2>2, PushItem
  <2> QED
    BY <1>2, <1>4, <2>1, <2>2, <2>3 DEF Lands
<1>5. CASE Expects = NoError /\ ~Top.drop
  BY <1>2, <1>5 DEF Lands, Marked
<1> QED
  BY <1>3, <1>4, <1>5

LEMMA WalledFacts ==
  ASSUME NEW f \in GoodFrames, f.prot # "none"
  PROVE  /\ f.prot \in Walled /\ Item(f.prot) \in Items /\ Item(f.prot).kind = f.prot
         /\ \A r : Outcome(f.prot, r) = Passed(f.prot, r)
<1>1. f.prot \in Walled /\ f.prot \in ItemKinds
  BY DEF GoodFrames, FrameSet, Protections, Walled, ItemKinds
<1>2. \A r : Outcome(f.prot, r) = Passed(f.prot, r)
  BY <1>1 DEF Outcome, Calls!Passed, Passed
<1> QED
  BY <1>1, <1>2, ItemFacts

LEMMA ReturnsLands ==
  ASSUME Regular, frames # <<>>, dead' = NoError, ~yielded'.on, NEW r, Returns(frames, r)
  PROVE  /\ Lands(Marked(Root, Expects, Top), Passed(Top.prot, r))
         /\ Marked(Root, Expects, Top) \in Seq(Items)
<1>1. /\ Root \in Seq(Items) /\ Expects \in Errors \cup {NoError} /\ Top \in GoodFrames
      /\ Below(frames) = <<>> => ~Top.drop /\ Top.prot = "none"
      /\ Below(frames) = <<>> <=> Depth = 1
      /\ Depth \in Nat \ {0} /\ ~Top.astray
  BY RootFacts
<1>2. /\ frames' = Below(frames)
      /\ got' = IF Depth > 1 /\ Top.drop THEN <<>> ELSE Passed(Top.prot, r)
  BY <1>1 DEF Returns, Top, Depth
<1>3. got' = IF Top.drop THEN <<>> ELSE Passed(Top.prot, r)
  BY <1>1, <1>2
<1> QED
  BY <1>1, <1>2, <1>3, MarkedLands, EnteredFacts

LEMMA ReturnsHands ==
  ASSUME Regular, frames # <<>>, dead' = NoError, ~yielded'.on, NEW r, Returns(frames, r)
  PROVE  Calls!Hand(Guarded(Root, Expects, Top), r)
<1> DEFINE m == Marked(Root, Expects, Top)
<1>1. Top \in GoodFrames /\ m \in Seq(Items) /\ Lands(m, Passed(Top.prot, r))
  BY RootFacts, ReturnsLands
<1> HIDE DEF m
<1>2. CASE Top.prot = "none"
  <2>1. Passed(Top.prot, r) = r /\ Guarded(Root, Expects, Top) = m
    BY <1>2 DEF Passed, Guarded, m
  <2> QED
    BY <1>1, <2>1, Hand0
<1>3. CASE Top.prot # "none"
  <2> DEFINE x == Item(Top.prot)
  <2>1. Guarded(Root, Expects, Top) = Append(m, x)
    BY <1>3 DEF Guarded, m
  <2>2. /\ x \in Items /\ x.kind \in Walled
        /\ Outcome(x.kind, r) = Passed(Top.prot, r)
    BY <1>1, <1>3, WalledFacts
  <2> HIDE DEF x
  <2> QED
    BY <1>1, <2>1, <2>2, Hand1
<1> QED
  BY <1>2, <1>3

(* What is on top of the stack.                                              *)
LEMMA StackTop ==
  ASSUME Regular, frames # <<>>, ~yielded.on
  PROVE  /\ StackOf = Placed(Root, Expects, Top) /\ StackOf \in Seq(Items)
         /\ Guarded(Root, Expects, Top) \in Seq(Items)
         /\ Top.tramp => StackOf = Guarded(Root, Expects, Top)
         /\ ~Top.tramp => StackOf # <<>>
         /\ ~Top.tramp => Calls!Kind(StackOf) \in {"call", "close"}
         /\ ~Top.tramp /\ Top.tbc = 0 =>
              /\ StackOf = Append(Guarded(Root, Expects, Top), Item("call"))
              /\ Calls!Kind(StackOf) = "call"
              /\ Calls!Pop(StackOf) = Guarded(Root, Expects, Top)
<1>1. /\ Root \in Seq(Items) /\ Expects \in Errors \cup {NoError} /\ Top \in GoodFrames
      /\ StackIn(frames) = Placed(Root, Expects, Top)
      /\ StackIn(frames) \in Seq(Items) /\ Top.tbc \in Nat /\ Neat(Top)
  BY RootFacts
<1> DEFINE g == Guarded(Root, Expects, Top)
           n == Entered(Root, Expects, Top)
<1>2. /\ g \in Seq(Items) /\ n \in Seq(Items)
      /\ Placed(Root, Expects, Top) = n \o Closers(Top.tbc)
      /\ Top.tbc = 0 => Placed(Root, Expects, Top) = n
  BY <1>1, EnteredFacts, PlacedFacts
<1>3. n = IF Top.tramp THEN g ELSE Append(g, Item("call"))
  BY DEF Entered
<1>4. StackOf = Placed(Root, Expects, Top)
  BY <1>1, StackNow
<1>5. Top.tramp => StackOf = g
  BY <1>1, <1>2, <1>3, <1>4 DEF Neat
<1>6. /\ Item("call") \in Items /\ Item("call").kind = "call"
      /\ Item("close") \in Items /\ Item("close").kind = "close"
  BY ItemFacts DEF ItemKinds
<1> HIDE DEF g, n
<1>7. ASSUME ~Top.tramp, Top.tbc = 0
      PROVE  /\ StackOf = Append(g, Item("call")) /\ StackOf # <<>>
             /\ Calls!Kind(StackOf) = "call" /\ Calls!Pop(StackOf) = g
  <2>1. StackOf = Append(g, Item("call"))
    BY <1>2, <1>3, <1>4, <1>7
  <2> QED
    BY <1>2, <1>6, <2>1, KindFacts
<1>8. ASSUME ~Top.tramp, Top.tbc # 0
      PROVE  StackOf # <<>> /\ Calls!Kind(StackOf) = "close"
  <2>1. PICK k \in Nat : Top.tbc = k + 1
    <3>1. Top.tbc - 1 \in Nat /\ Top.tbc = (Top.tbc - 1) + 1
      BY <1>1, <1>8
    <3> QED
      BY <3>1
  <2>2. /\ n \o Closers(k) \in Seq(Items)
        /\ n \o Closers(k + 1) = Append(n \o Closers(k), Item("close"))
    BY <1>2, CloserFacts
  <2>3. StackOf = Append(n \o Closers(k), Item("close"))
    BY <1>2, <1>4, <2>1, <2>2
  <2> QED
    BY <1>6, <2>2, <2>3, KindFacts
<1> QED
  BY <1>1, <1>2, <1>4, <1>5, <1>7, <1>8 DEF g

-----------------------------------------------------------------------------
(* The step is one of Calls, or none.                                        *)
Follows == Calls!Next \/ UNCHANGED <<StackOf, got, RaisingOf>>

LEMMA QuietNow ==
  ASSUME Regular, frames # <<>>, ~yielded.on, dead = NoError, Top.err = NoError,
         ~Top.tramp \/ Top.prot # "none"
  PROVE  /\ Calls!Quiet /\ RaisingOf = NoError
         /\ ~Top.tramp => Calls!Runs
<1>1. RaisingOf = NoError
  BY RaisingNow
<1>2. StackOf # <<>>
  <2>1. CASE ~Top.tramp
    BY <2>1, StackTop
  <2>2. CASE Top.tramp
    <3>1. StackOf = Guarded(Root, Expects, Top) /\ Top.prot # "none"
      BY <2>2, StackTop
    <3>2. /\ Root \in Seq(Items) /\ Expects \in Errors \cup {NoError} /\ Top \in GoodFrames
      BY RootFacts
    <3>3. Marked(Root, Expects, Top) \in Seq(Items) /\ Item(Top.prot) \in Items
      BY <3>1, <3>2, EnteredFacts, WalledFacts
    <3>4. StackOf = Append(Marked(Root, Expects, Top), Item(Top.prot))
      BY <3>1 DEF Guarded
    <3> QED
      BY <3>3, <3>4, PushItem
  <2> QED
    BY <2>1, <2>2
<1> QED
  BY <1>1, <1>2, StackTop DEF Calls!Quiet, Calls!Runs

(* The top frame changes in what does not matter.                            *)
LEMMA SameStack ==
  ASSUME Regular, frames # <<>>, ~yielded.on, ~yielded'.on, NEW g,
         frames' = Append(Below(frames), g), g.tramp = Top.tramp, g.tbc = Top.tbc,
         g.prot = Top.prot, g.drop = Top.drop
  PROVE  StackOf' = StackOf /\ g \in GoodFrames
<1>1. /\ Below(frames) \in Seq(GoodFrames)
      /\ StackOf = Placed(Root, Expects, Top)
  BY RootFacts, StackTop
<1>2. g \in GoodFrames
  BY <1>1, FramesNext, LastGood DEF Regular
<1>3. StackOf' = StackIn(Append(Below(frames), g))
  BY StackNext
<1>4. StackIn(Append(Below(frames), g)) = Placed(Root, Expects, g)
  BY <1>1, <1>2, StackPush DEF Root, Expects
<1> QED
  BY <1>1, <1>2, <1>3, <1>4, PlacedAlike

LEMMA WaitsTop ==
  ASSUME NEW fs \in Seq(GoodFrames), NEW g \in GoodFrames
  PROVE  Waits(Append(fs, g)) = g.err
  BY PushBelow DEF Waits

(* The frame g is put on the frames, where nothing waits with an error.        *)
LEMMA PushedStack ==
  ASSUME Regular, frames # <<>>, ~yielded.on, ~yielded'.on, Top.err = NoError,
         NEW g \in GoodFrames, frames' = Append(frames, g), ~g.drop, g.tbc = 0
  PROVE  LET s == IF g.prot = "none" THEN StackOf ELSE Append(StackOf, Item(g.prot))
         IN  StackOf' = IF g.tramp THEN s ELSE Append(s, Item("call"))
<1>1. frames \in Seq(GoodFrames) /\ StackOf = StackIn(frames) /\ StackIn(frames) \in Seq(Items)
  BY FramesNow, StackNow, RootFacts DEF Regular
<1>2. StackOf' = StackIn(Append(frames, g))
  BY StackNext
<1>3. Waits(frames) = NoError
  BY DEF Waits, Top, Depth
<1>4. StackIn(Append(frames, g)) = Placed(StackOf, NoError, g)
  BY <1>1, <1>3, StackPush
<1>5. Placed(StackOf, NoError, g) = Entered(StackOf, NoError, g)
  BY <1>1, PlacedFacts
<1> QED
  BY <1>2, <1>4, <1>5 DEF Entered, Guarded, Marked

-----------------------------------------------------------------------------
LEMMA BeginFollows ==
  ASSUME Regular, NEW co \in BOOLEAN, Begin(co)
  PROVE  Follows
<1>1. /\ frames' = Append(<<>>, NewFrame) /\ ~yielded'.on /\ dead' = NoError /\ got' = <<>>
      /\ frames = <<>> \/ dead # NoError
  BY DEF Begin, NotYielded
<1>2. <<>> \in Seq(GoodFrames) /\ NewFrame \in GoodFrames
  BY NewFrameGood
<1>3. StackOf = <<>> \/ RaisingOf # NoError
  <2>1. CASE frames = <<>>
    <3>1. ~yielded.on
      BY <2>1 DEF Regular, TidyInv, YieldTidy
    <3> QED
      BY <2>1, <3>1, StackNow, StackNone
  <2>2. CASE dead # NoError
    BY <2>2 DEF RaisingOf
  <2> QED
    BY <1>1, <2>1, <2>2
<1>4. StackOf' = Placed(<<>>, NoError, NewFrame)
  <2>1. StackOf' = StackIn(Append(<<>>, NewFrame))
    BY <1>1, StackNext
  <2>2. Waits(<<>>) = NoError
    BY DEF Waits
  <2> QED
    BY <1>2, <2>1, <2>2, StackPush, StackNone
<1>5. Placed(<<>>, NoError, NewFrame) = Append(<<>>, Item("call"))
  <2>1. <<>> \in Seq(Items)
    OBVIOUS
  <2>2. Placed(<<>>, NoError, NewFrame) = Entered(<<>>, NoError, NewFrame)
    BY <1>2, <2>1, PlacedFacts, MadeFacts
  <2> QED
    BY <2>2, MadeFacts DEF Entered, Guarded, Marked
<1>6. StackOf' = <<Calls!Item("call")>>
  BY <1>4, <1>5, ItemFacts DEF ItemKinds
<1>7. RaisingOf' = NoError
  BY <1>1, <1>2, RaisingNext, WaitsTop, MadeFacts
<1> QED
  BY <1>1, <1>3, <1>6, <1>7 DEF Follows, Calls!Next, Calls!Begin

LEMMA RaisesFollows ==
  ASSUME Regular, frames # <<>>, ~yielded.on, ~yielded'.on, dead = NoError,
         Top.err = NoError, ~Top.tramp, NEW e \in Errors, Raises(frames, e), got' = <<>>
  PROVE  Follows
<1>1. StackOf' = StackIn(frames) /\ RaisingOf' = e
  BY FramesNow, RaisesNext DEF Regular
<1>2. StackOf = StackIn(frames) /\ Calls!Quiet
  BY StackNow, QuietNow
<1> QED
  BY <1>1, <1>2 DEF Follows, Calls!Next, Calls!Raise

(* An instruction that leaves the stack.                                     *)
LEMMA StepFollows ==
  ASSUME Regular, frames # <<>>, ~yielded.on, dead = NoError, Top.err = NoError,
         ~Top.tramp, StackOf' = StackOf, RaisingOf' = NoError, got' = <<>>
  PROVE  Follows
  BY QuietNow DEF Follows, Calls!Next, Calls!Step

LEMMA InstructionFollows ==
  ASSUME Regular,
         \/ Step \/ OpenTbc \/ Call \/ TailCall
         \/ \E n \in 0 .. MaxTbc : CloseScope(n)
         \/ \E e \in Thrown : Raise(e)
  PROVE  Follows
<1>1. /\ ~yielded.on /\ ~yielded'.on /\ frames # <<>> /\ dead = NoError
      /\ Top.err = NoError /\ Top.target = Open /\ ~Top.tramp /\ got' = <<>>
  BY DEF Step, OpenTbc, Call, TailCall, CloseScope, Raise, Leaves, Runs, Ready, Plain
<1>2. /\ Below(frames) \in Seq(GoodFrames) /\ Top \in GoodFrames /\ Neat(Top)
      /\ Top.tbc \in Nat /\ Root \in Seq(Items) /\ Expects \in Errors \cup {NoError}
  BY <1>1, RootFacts
<1>3. Calls!Runs /\ RaisingOf = NoError
  BY <1>1, QuietNow
<1>4. CASE Step
  <2>1. frames' = frames /\ dead' = dead
    BY <1>4 DEF Step
  <2>2. StackOf' = StackOf
    BY <1>1, <2>1, StackNow, StackNext
  <2>3. RaisingOf' = NoError
    <3>1. RaisingOf' = Waits(frames)
      BY <1>1, <2>1, RaisingNext
    <3> QED
      BY <1>1, <3>1 DEF Waits, Top, Depth
  <2> QED
    BY <1>1, <2>2, <2>3, StepFollows
<1>5. CASE OpenTbc
  <2> DEFINE g == [Top EXCEPT !.tbc = @ + 1]
  <2>1. /\ g.tbc = Top.tbc + 1 /\ g.drop = Top.drop /\ g.prot = Top.prot
        /\ g.tramp = Top.tramp /\ g.err = NoError
    BY <1>1, <1>2 DEF GoodFrames, FrameSet
  <2>2. frames' = [frames EXCEPT ![Depth] = g] /\ dead' = NoError
    BY <1>1, <1>5 DEF OpenTbc, Top
  <2> HIDE DEF g
  <2>3. frames' = Append(Below(frames), g)
    BY <1>1, <2>2, EditedTop DEF Regular
  <2>4. g \in GoodFrames
    BY <1>2, <2>3, FramesNext, LastGood DEF Regular
  <2>5. StackOf' = Placed(Root, Expects, g)
    BY <1>1, <1>2, <2>3, <2>4, StackNext, StackPush DEF Root, Expects
  <2>6. StackOf = Placed(Root, Expects, Top)
    BY <1>1, StackTop
  <2> DEFINE n == Entered(Root, Expects, Top)
  <2>7. n \in Seq(Items) /\ Entered(Root, Expects, g) = n
    <3>1. Entered(Root, Expects, g) = n
      BY <2>1 DEF Entered, Guarded, Marked
    <3> QED
      BY <1>2, <3>1, EnteredFacts
  <2> HIDE DEF n
  <2>8. StackOf = n \o Closers(Top.tbc) /\ StackOf' = n \o Closers(Top.tbc + 1)
    <3>1. /\ Placed(Root, Expects, Top) = Entered(Root, Expects, Top) \o Closers(Top.tbc)
          /\ Placed(Root, Expects, g) = Entered(Root, Expects, g) \o Closers(g.tbc)
      BY <1>2, <2>4, PlacedFacts
    <3>2. n = Entered(Root, Expects, Top)
      BY DEF n
    <3>3. g.tbc = Top.tbc + 1
      BY <2>1
    <3> QED
      BY <2>5, <2>6, <2>7, <3>1, <3>2, <3>3
  <2>9. StackOf' = Append(StackOf, Item("close"))
    BY <1>2, <2>7, <2>8, CloserFacts
  <2>10. RaisingOf' = NoError
    BY <1>2, <2>1, <2>2, <2>3, <2>4, RaisingNext, WaitsTop
  <2>11. Calls!Open
    BY <1>1, <1>3, <2>9, <2>10, ItemFacts DEF Calls!Open, Calls!Push, ItemKinds
  <2> QED
    BY <2>11 DEF Follows, Calls!Next
<1>6. CASE Call
  <2>1. CASE Raises(frames, Overflow)
    <3>1. Overflow \in Errors
      BY DEF Errors
    <3> QED
      BY <1>1, <2>1, <3>1, RaisesFollows
  <2>2. CASE frames' = Append(frames, NewFrame) /\ dead' = dead
    <3>1. StackOf' = Append(StackOf, Item("call"))
      BY <1>1, <2>2, NewFrameGood, MadeFacts, PushedStack
    <3>2. RaisingOf' = NoError
      BY <1>1, <2>2, NewFrameGood, MadeFacts, RaisingNext, WaitsTop, FramesNow DEF Regular
    <3>3. Calls!Call
      BY <1>1, <1>3, <3>1, <3>2, ItemFacts DEF Calls!Call, Calls!Push, ItemKinds
    <3> QED
      BY <3>3 DEF Follows, Calls!Next
  <2> QED
    BY <1>6, <2>1, <2>2 DEF Call
<1>7. CASE TailCall
  <2> DEFINE g == Replacing(Top)
  <2>1. frames' = Append(Below(frames), g) /\ Top.tbc = 0 /\ dead' = NoError
    BY <1>1, <1>7 DEF TailCall, Leaves
  <2>2. /\ g.tbc = 0 /\ g.prot = Top.prot /\ g.drop = Top.drop /\ ~g.tramp
        /\ g.err = NoError /\ g.tramp \in BOOLEAN
    BY <1>2, ReplacingGood, ReplacingFacts DEF GoodFrames, FrameSet
  <2> HIDE DEF g
  <2>3. g.tramp = Top.tramp
    BY <1>1, <1>2, <2>2 DEF GoodFrames, FrameSet
  <2>4. StackOf' = StackOf /\ g \in GoodFrames
    BY <1>1, <2>1, <2>2, <2>3, SameStack
  <2>5. RaisingOf' = NoError
    BY <1>2, <2>1, <2>2, <2>4, RaisingNext, WaitsTop
  <2> QED
    BY <1>1, <2>4, <2>5, StepFollows
<1>8. ASSUME NEW n \in 0 .. MaxTbc, CloseScope(n)
      PROVE  Follows
  <2> DEFINE g == [Top EXCEPT !.target = n]
  <2>1. /\ g.tbc = Top.tbc /\ g.drop = Top.drop /\ g.prot = Top.prot
        /\ g.tramp = Top.tramp /\ g.err = NoError
    BY <1>1, <1>2 DEF GoodFrames, FrameSet
  <2>2. frames' = [frames EXCEPT ![Depth] = g] /\ dead' = NoError
    BY <1>1, <1>8 DEF CloseScope, Top
  <2> HIDE DEF g
  <2>3. frames' = Append(Below(frames), g)
    BY <1>1, <2>2, EditedTop DEF Regular
  <2>4. StackOf' = StackOf /\ g \in GoodFrames
    BY <1>1, <2>1, <2>3, SameStack
  <2>5. RaisingOf' = NoError
    BY <1>2, <2>1, <2>2, <2>3, <2>4, RaisingNext, WaitsTop
  <2> QED
    BY <1>1, <2>4, <2>5, StepFollows
<1>9. ASSUME NEW e \in Thrown, Raise(e)
      PROVE  Follows
  BY <1>1, <1>9, RaisesFollows DEF Raise, Errors
<1> QED
  BY <1>4, <1>5, <1>6, <1>7, <1>8, <1>9

LEMMA ReturnFollows == ASSUME Regular, Return PROVE Follows
<1>1. /\ ~yielded.on /\ ~yielded'.on /\ frames # <<>> /\ dead = NoError /\ dead' = NoError
      /\ Top.err = NoError
      /\ Returns(frames, IF Top.tramp THEN got ELSE <<>>)
      /\ ~Top.tramp => Top.tbc = 0
  BY DEF Return, Leaves, Runs, Ready, Plain
<1>2. Calls!Hand(Guarded(Root, Expects, Top), IF Top.tramp THEN got ELSE <<>>)
  BY <1>1, ReturnsHands
<1>3. CASE ~Top.tramp
  <2>1. Calls!Quiet
    BY <1>1, <1>3, QuietNow
  <2>2. /\ Calls!Kind(StackOf) = "call"
        /\ Calls!Pop(StackOf) = Guarded(Root, Expects, Top)
    BY <1>1, <1>3, StackTop
  <2>3. Calls!Hand(Calls!Pop(StackOf), <<>>)
    BY <1>2, <1>3, <2>2
  <2>4. Calls!Return
    BY <2>1, <2>2, <2>3 DEF Calls!Return
  <2> QED
    BY <2>4 DEF Follows, Calls!Next
<1>4. CASE Top.tramp
  <2> DEFINE m == Marked(Root, Expects, Top)
  <2>1. /\ Root \in Seq(Items) /\ Expects \in Errors \cup {NoError} /\ Top \in GoodFrames
        /\ Expects # NoError => Top.drop
        /\ Below(frames) = <<>> => ~Top.drop
        /\ Below(frames) = <<>> <=> Depth = 1
        /\ Depth \in Nat \ {0} /\ ~Top.astray
    BY <1>1, RootFacts
  <2>2. StackOf = Guarded(Root, Expects, Top)
    BY <1>1, <1>4, StackTop
  <2>3. CASE Top.prot = "none" /\ ~Top.drop
    <3>1. Expects = NoError /\ StackOf = Root
      BY <2>1, <2>2, <2>3 DEF Guarded, Marked
    <3>2. frames' = Below(frames) /\ got' = got
      BY <1>1, <1>4, <2>1, <2>3 DEF Returns, Passed, Top, Depth
    <3>3. StackOf' = Root /\ RaisingOf' = Expects
      BY <1>1, <3>2, StackNext, RaisingNext DEF Root, Expects
    <3>4. RaisingOf = NoError
      BY <1>1, RaisingNow
    <3> QED
      BY <3>1, <3>2, <3>3, <3>4 DEF Follows
  <2>4. CASE ~(Top.prot = "none" /\ ~Top.drop)
    <3>1. StackOf # <<>> /\ Calls!Kind(StackOf) \in Calls!Boundary \cup {"drop", "unwind"}
      <4>1. CASE Top.prot # "none"
        <5>1. m \in Seq(Items) /\ Item(Top.prot) \in Items
              /\ Item(Top.prot).kind \in Walled
          BY <2>1, <4>1, EnteredFacts, WalledFacts
        <5>2. StackOf = Append(m, Item(Top.prot))
          BY <2>2, <4>1 DEF Guarded
        <5> HIDE DEF m
        <5> QED
          BY <5>1, <5>2, KindFacts DEF Calls!Boundary, Walled
      <4>2. CASE Top.prot = "none"
        <5>1. PICK x : x \in Items /\ x.kind \in {"drop", "unwind"} /\ m = Append(Root, x)
          BY <2>1, <2>4, <4>2, MarkedItem
        <5>2. StackOf = m
          BY <2>2, <4>2 DEF Guarded
        <5> HIDE DEF m
        <5> QED
          BY <2>1, <5>1, <5>2, KindFacts
      <4> QED
        BY <4>1, <4>2
    <3>2. Calls!Quiet
      BY <1>1, <3>1, RaisingNow DEF Calls!Quiet
    <3>3. Calls!Hand(StackOf, got)
      BY <1>2, <1>4, <2>2
    <3>4. Calls!Return
      BY <3>1, <3>2, <3>3 DEF Calls!Return
    <3> QED
      BY <3>4 DEF Follows, Calls!Next
  <2> QED
    BY <2>3, <2>4
<1> QED
  BY <1>3, <1>4

-----------------------------------------------------------------------------
(* pcall and xpcall: who calls is on top of the stack, or has left it.         *)
Caller(tail) == IF tail THEN Guarded(Root, Expects, Top) ELSE StackOf

LEMMA CallerFacts ==
  ASSUME Regular, NEW tail \in BOOLEAN, MayProtect(tail)
  PROVE  /\ ~yielded.on /\ frames # <<>> /\ dead = NoError
         /\ Top.err = NoError /\ Top.target = Open
         /\ tail => Top.tbc = 0 /\ ~Top.tramp
         /\ Calls!Quiet /\ RaisingOf = NoError
         /\ Caller(tail) \in Calls!Callers
         /\ Caller(tail) \in Seq(Items) /\ StackOf \in Seq(Items)
<1>1. /\ ~yielded.on /\ frames # <<>> /\ dead = NoError
      /\ Top.err = NoError /\ Top.target = Open
      /\ tail => Top.tbc = 0 /\ ~Top.tramp
  BY MayFacts DEF Regular
<1>2. ~Top.tramp \/ Top.prot # "none"
  BY DEF MayProtect, Leaves, Runs, Regular, TidyInv, NestTidy
<1>3. Calls!Quiet /\ RaisingOf = NoError
  BY <1>1, <1>2, QuietNow
<1>4. /\ StackOf \in Seq(Items)
      /\ Guarded(Root, Expects, Top) \in Seq(Items)
      /\ tail => /\ Calls!Kind(StackOf) = "call"
                 /\ Calls!Pop(StackOf) = Guarded(Root, Expects, Top)
  BY <1>1, StackTop
<1>5. Caller(tail) \in Calls!Callers
  BY <1>4 DEF Caller, Calls!Callers
<1> QED
  BY <1>1, <1>3, <1>4, <1>5 DEF Caller

LEMMA GivesHands ==
  ASSUME Regular, NEW tail \in BOOLEAN, MayProtect(tail), NEW r, Gives(tail, r),
         ~yielded'.on, dead' = dead
  PROVE  Calls!Hand(Caller(tail), r)
<1>1. /\ ~yielded.on /\ frames # <<>> /\ dead = NoError /\ Top.err = NoError
      /\ StackOf \in Seq(Items)
  BY CallerFacts
<1>2. CASE tail
  BY <1>1, <1>2, ReturnsHands DEF Gives, Caller
<1>3. CASE ~tail
  <2>1. got' = r /\ frames' = frames
    BY <1>3 DEF Gives
  <2>2. StackOf' = StackOf
    BY <1>1, <2>1, StackNow, StackNext
  <2>3. RaisingOf' = NoError
    <3>1. RaisingOf' = Waits(frames)
      BY <1>1, <2>1, RaisingNext
    <3> QED
      BY <1>1, <3>1 DEF Waits, Top, Depth
  <2> QED
    BY <1>1, <1>3, <2>1, <2>2, <2>3, Hand0 DEF Lands, Caller
<1> QED
  BY <1>2, <1>3

LEMMA CallHandlerFollows ==
  ASSUME Regular, NEW kind \in Kinds, NEW tail \in BOOLEAN, NEW e \in Errors,
         MayProtect(tail), CallHandler(kind, tail, e), ~yielded'.on, dead' = dead
  PROVE  Follows
<1>1. /\ Calls!Quiet /\ RaisingOf = NoError /\ dead = NoError
      /\ Caller(tail) \in Calls!Callers /\ frames # <<>> /\ ~yielded.on
      /\ Top.err = NoError /\ StackOf \in Seq(Items)
  BY CallerFacts
<1>2. CASE kind = "plain"
  <2>1. Calls!Hand(Caller(tail), <<FALSE, e>>)
    BY <1>2, GivesHands DEF CallHandler
  <2>2. Calls!HostCall("plain")
    BY <1>1, <2>1 DEF Calls!HostCall
  <2> QED
    BY <2>2 DEF Follows, Calls!Next
<1>3. CASE kind = "host"
  <2>1. Calls!Hand(Caller(tail), <<FALSE>>)
    BY <1>3, GivesHands DEF CallHandler
  <2>2. Calls!HostCall("host")
    BY <1>1, <2>1 DEF Calls!HostCall
  <2> QED
    BY <2>2 DEF Follows, Calls!Next
<1>4. CASE kind = "lua" /\ tail
  BY <1>4 DEF CallHandler, Regular
<1>5. CASE kind = "lua" /\ ~tail
  <2>1. CASE Gives(FALSE, <<FALSE, InHandling>>)
    <3>1. InHandling \in Errors
      BY DEF Errors
    <3>2. Calls!Hand(Caller(FALSE), <<FALSE, InHandling>>)
      BY <1>5, <2>1, GivesHands
    <3>3. Calls!HostCall("lua")
      BY <1>1, <1>5, <3>1, <3>2 DEF Calls!HostCall
    <3> QED
      BY <3>3 DEF Follows, Calls!Next
  <2>2. CASE frames' = Append(frames, Handler(NewFrame)) /\ got' = <<>>
    <3> DEFINE g == Handler(NewFrame)
    <3>1. /\ g.prot = "handler" /\ ~g.tramp /\ g.tbc = 0 /\ ~g.drop /\ g.err = NoError
          /\ g \in GoodFrames
      <4>1. 0 < MaxHandlers
        BY FramesAssumption
      <4> QED
        BY <4>1, NewErr, MadeFacts, HandlerFacts, HandlerGood
    <3> HIDE DEF g
    <3>2. frames' = Append(frames, g)
      BY <2>2 DEF g
    <3>3. StackOf' = Append(Append(StackOf, Item("handler")), Item("call"))
      BY <1>1, <3>1, <3>2, PushedStack
    <3>4. RaisingOf' = NoError
      BY <1>1, <3>1, <3>2, RaisingNext, WaitsTop, FramesNow DEF Regular
    <3>5. StackOf' = Calls!Push(Calls!Push(StackOf, "handler"), "call")
      BY <3>3, ItemFacts DEF Calls!Push, ItemKinds, Protections
    <3>6. StackOf \in Calls!Callers
      BY DEF Calls!Callers
    <3>7. Calls!HostCall("lua")
      <4>1. Overflow \in Errors
        BY DEF Errors
      <4> QED
        BY <1>1, <2>2, <3>4, <3>5, <3>6, <4>1 DEF Calls!HostCall
    <3> QED
      BY <3>7 DEF Follows, Calls!Next
  <2> QED
    BY <1>5, <2>1, <2>2 DEF CallHandler
<1> QED
  BY <1>2, <1>3, <1>4, <1>5 DEF Kinds

LEMMA ProtectFollows ==
  ASSUME Regular, NEW kind \in Kinds, NEW tail \in BOOLEAN, MayProtect(tail),
         got' = <<>>, RaisingOf' = NoError,
         \/ StackOf' = Append(Caller(tail), Item(kind))
         \/ StackOf' = Append(Append(Caller(tail), Item(kind)), Item("call"))
  PROVE  Follows
<1>1. /\ Calls!Quiet /\ RaisingOf = NoError /\ Caller(tail) \in Calls!Callers
  BY CallerFacts
<1>2. /\ Calls!Push(Caller(tail), kind) = Append(Caller(tail), Item(kind))
      /\ Calls!Push(Calls!Push(Caller(tail), kind), "call")
           = Append(Append(Caller(tail), Item(kind)), Item("call"))
  <2>1. kind \in ItemKinds /\ "call" \in ItemKinds
    BY DEF Kinds, ItemKinds, Protections
  <2> QED
    BY <2>1, ItemFacts DEF Calls!Push
<1>3. Calls!Protect(kind)
  BY <1>1, <1>2 DEF Calls!Protect
<1> QED
  BY <1>3 DEF Follows, Calls!Next, Kinds

LEMMA ProtectedCallFollows ==
  ASSUME Regular, NEW kind \in Kinds, NEW tail \in BOOLEAN, ProtectedCall(kind, tail)
  PROVE  Follows
<1> DEFINE target == [NewFrame EXCEPT !.prot = kind]
           tramp == Trampoline(Replacing(Top))
<1>1. /\ MayProtect(tail) /\ yielded' = yielded /\ dead' = dead
  BY DEF ProtectedCall
<1>2. /\ ~yielded.on /\ ~yielded'.on /\ frames # <<>> /\ dead = NoError
      /\ Top.err = NoError
      /\ tail => Top.tbc = 0 /\ ~Top.tramp
  BY <1>1, CallerFacts
<1>3. /\ Top \in GoodFrames /\ Neat(Top) /\ Below(frames) \in Seq(GoodFrames)
      /\ Root \in Seq(Items) /\ Expects \in Errors \cup {NoError}
  BY <1>2, RootFacts
<1>4. /\ target \in GoodFrames /\ target.prot = kind /\ kind # "none" /\ ~target.drop
      /\ target.tbc = 0 /\ ~target.tramp /\ target.err = NoError
  BY TargetFacts
<1>5. CASE Depth >= MaxFrames
  <2>1. CallHandler(kind, tail, Overflow) /\ Overflow \in Errors
    BY <1>5 DEF ProtectedCall, Errors
  <2> QED
    BY <1>1, <1>2, <2>1, CallHandlerFollows
<1>6. CASE ~(Depth >= MaxFrames) /\ ~tail
  <2>1. frames' = Append(frames, target) /\ got' = <<>>
    BY <1>6 DEF ProtectedCall
  <2> HIDE DEF target
  <2>2. StackOf' = Append(Append(StackOf, Item(kind)), Item("call"))
    BY <1>2, <1>4, <2>1, PushedStack
  <2>3. RaisingOf' = NoError
    BY <1>1, <1>2, <1>4, <2>1, RaisingNext, WaitsTop, FramesNow DEF Regular
  <2> QED
    BY <1>1, <1>6, <2>1, <2>2, <2>3, ProtectFollows DEF Caller
<1>7. CASE ~(Depth >= MaxFrames) /\ tail
  <2>1. frames' = Below(frames) \o <<tramp, target>> /\ got' = <<>>
    BY <1>7 DEF ProtectedCall
  <2>2. /\ Replacing(Top) \in GoodFrames /\ Neat(Replacing(Top)) /\ Replacing(Top).tbc = 0
        /\ Replacing(Top).err = NoError /\ Replacing(Top).target = Open
        /\ Replacing(Top).prot = Top.prot /\ Replacing(Top).drop = Top.drop
    BY <1>3, ReplacingGood, ReplacingFacts
  <2>3. /\ tramp \in GoodFrames /\ tramp.tramp /\ tramp.tbc = 0 /\ tramp.err = NoError
        /\ tramp.prot = Top.prot /\ tramp.drop = Top.drop
    BY <2>2, TrampolineGood, TrampolineFacts
  <2> HIDE DEF target, tramp
  <2> DEFINE fs == Append(Below(frames), tramp)
  <2>4. fs \in Seq(GoodFrames) /\ frames' = Append(fs, target)
    BY <1>3, <1>4, <2>1, <2>3, TwoMore
  <2>5. StackIn(fs) = Guarded(Root, Expects, Top)
    <3>1. StackIn(fs) = Placed(Root, Expects, tramp)
      BY <1>3, <2>3, StackPush DEF Root, Expects
    <3>2. Placed(Root, Expects, tramp) = Entered(Root, Expects, tramp)
      BY <1>3, <2>3, PlacedFacts
    <3>3. Entered(Root, Expects, tramp) = Guarded(Root, Expects, tramp)
      BY <2>3 DEF Entered
    <3> QED
      BY <2>3, <3>1, <3>2, <3>3, GuardedAlike
  <2>6. Waits(fs) = NoError
    BY <1>3, <2>3, WaitsTop
  <2> HIDE DEF fs
  <2> DEFINE s == Guarded(Root, Expects, Top)
  <2>7. s \in Seq(Items)
    BY <1>3, EnteredFacts
  <2> HIDE DEF s
  <2>8. StackOf' = Placed(s, NoError, target)
    BY <1>2, <1>4, <2>4, <2>5, <2>6, StackNext, StackPush DEF s
  <2>9. Placed(s, NoError, target) = Entered(s, NoError, target)
    BY <1>4, <2>7, PlacedFacts
  <2>10. StackOf' = Append(Append(s, Item(kind)), Item("call"))
    BY <1>4, <2>8, <2>9 DEF Entered, Guarded, Marked
  <2>11. RaisingOf' = NoError
    BY <1>1, <1>2, <1>4, <2>4, RaisingNext, WaitsTop
  <2> QED
    BY <1>1, <1>7, <2>1, <2>10, <2>11, ProtectFollows DEF Caller, s
<1> QED
  BY <1>5, <1>6, <1>7

LEMMA NestedCallFollows ==
  ASSUME Regular, NEW kind \in Kinds, NEW tail \in BOOLEAN, NestedCall(kind, tail)
  PROVE  Follows
<1> DEFINE plain == [NewFrame EXCEPT !.prot = kind]
           tramp == Trampoline(plain)
<1>1. MayProtect(tail) /\ ~tail /\ yielded' = yielded /\ dead' = dead
  BY DEF NestedCall, Regular
<1>2. /\ ~yielded.on /\ ~yielded'.on /\ frames # <<>> /\ dead = NoError
      /\ Top.err = NoError
  BY <1>1, CallerFacts
<1>3. /\ plain \in GoodFrames /\ plain.tbc = 0 /\ plain.err = NoError /\ Neat(plain)
      /\ plain.target = Open /\ plain.prot = kind /\ kind # "none" /\ ~plain.drop
  BY TargetFacts
<1>4. /\ tramp \in GoodFrames /\ tramp.tramp /\ tramp.tbc = 0 /\ tramp.err = NoError
      /\ tramp.prot = kind /\ ~tramp.drop
  <2> HIDE DEF plain
  <2> QED
    BY <1>3, TrampolineGood, TrampolineFacts
<1>5. CASE Depth >= MaxFrames
  <2>1. CallHandler(kind, tail, Overflow)
    BY <1>1, <1>5, Zenon DEF NestedCall
  <2>2. Overflow \in Errors
    BY DEF Errors
  <2> QED
    BY <1>1, <1>2, <2>1, <2>2, CallHandlerFollows
<1>6. CASE ~(Depth >= MaxFrames)
  <2>1. frames' = Append(frames, tramp) /\ got' = <<>>
    BY <1>1, <1>6, Zenon DEF NestedCall
  <2> HIDE DEF tramp
  <2>2. StackOf' = Append(StackOf, Item(kind))
    BY <1>2, <1>3, <1>4, <2>1, PushedStack
  <2>3. RaisingOf' = NoError
    BY <1>1, <1>2, <1>4, <2>1, RaisingNext, WaitsTop, FramesNow DEF Regular
  <2> QED
    BY <1>1, <2>1, <2>2, <2>3, ProtectFollows DEF Caller
<1> QED
  BY <1>5, <1>6

LEMMA ProtectedHostCallFollows ==
  ASSUME Regular, NEW kind \in Kinds, NEW tail \in BOOLEAN,
         NEW e \in Thrown \cup {NoError}, ProtectedHostCall(kind, tail, e)
  PROVE  Follows
<1>1. MayProtect(tail) /\ yielded' = yielded /\ dead' = dead
  BY DEF ProtectedHostCall
<1>2. Calls!Quiet /\ Caller(tail) \in Calls!Callers /\ ~yielded'.on
  BY <1>1, CallerFacts
<1>3. CASE e = NoError
  <2>1. Calls!Hand(Caller(tail), <<TRUE>>)
    BY <1>1, <1>2, <1>3, GivesHands DEF ProtectedHostCall
  <2>2. Calls!HostCall("plain")
    <3>1. Overflow \in Errors
      BY DEF Errors
    <3> QED
      BY <1>2, <2>1, <3>1 DEF Calls!HostCall
  <2> QED
    BY <2>2 DEF Follows, Calls!Next
<1>4. CASE e # NoError
  <2>1. CallHandler(kind, tail, e) /\ e \in Errors
    BY <1>4 DEF ProtectedHostCall, Errors
  <2> QED
    BY <1>1, <1>2, <2>1, CallHandlerFollows
<1> QED
  BY <1>3, <1>4

LEMMA BareCallFollows ==
  ASSUME Regular, NEW e \in Thrown, BareCall(e)
  PROVE  Follows
<1>1. MayProtect(FALSE) /\ yielded' = yielded /\ dead' = dead /\ e \in Errors
  BY DEF BareCall, Errors
<1>2. Calls!Quiet /\ Caller(FALSE) \in Calls!Callers /\ ~yielded'.on
  BY <1>1, CallerFacts
<1>3. Gives(FALSE, <<FALSE, e>>)
  BY DEF BareCall, Gives
<1>4. Calls!Hand(Caller(FALSE), <<FALSE, e>>)
  BY <1>1, <1>2, <1>3, GivesHands
<1>5. Calls!HostCall("plain")
  BY <1>1, <1>2, <1>4 DEF Calls!HostCall
<1> QED
  BY <1>5 DEF Follows, Calls!Next

-----------------------------------------------------------------------------
(* What a frame puts on top of the stack, also while its coroutine waits.      *)
LEMMA CallOnTop ==
  ASSUME Regular, frames # <<>>, ~Top.tramp, Top.tbc = 0
  PROVE  /\ Guarded(Root, Expects, Top) \in Seq(Items) /\ Item("call") \in Items
         /\ StackIn(frames) = Append(Guarded(Root, Expects, Top), Item("call"))
         /\ Below(StackIn(frames)) = Guarded(Root, Expects, Top)
<1>1. /\ Root \in Seq(Items) /\ Expects \in Errors \cup {NoError} /\ Top \in GoodFrames
      /\ StackIn(frames) = Placed(Root, Expects, Top)
  BY RootFacts
<1>2. Guarded(Root, Expects, Top) \in Seq(Items) /\ Item("call") \in Items
  BY <1>1, EnteredFacts, ItemFacts DEF ItemKinds
<1>3. StackIn(frames) = Append(Guarded(Root, Expects, Top), Item("call"))
  BY <1>1, PlacedFacts DEF Entered
<1> QED
  BY <1>2, <1>3, PushItem

LEMMA YieldFollows ==
  ASSUME Regular, NEW tail \in BOOLEAN, NEW status \in BOOLEAN, Yield(tail, status)
  PROVE  Follows
<1>1. /\ IF status THEN MayProtect(tail) ELSE Runs
      /\ frames' = frames /\ dead' = dead /\ got' = <<>>
      /\ yielded'.on /\ yielded'.tail = tail /\ yielded'.status = status
  <2>1. ~nest.on
    BY DEF Yield, Regular
  <2> QED
    BY <2>1 DEF Yield, Leaves
<1>2. MayProtect(tail) \/ Runs
  BY <1>1
<1>3. /\ ~yielded.on /\ frames # <<>> /\ dead = NoError /\ Top.err = NoError
  BY <1>2 DEF MayProtect, Leaves, Runs, Ready
<1>4. StackIn(frames)' = StackIn(frames) /\ StackOf = StackIn(frames)
  <2>1. StackIn(frames)' = StackIn(frames')
    BY Zenon DEF StackIn, WaitsWith, Placed, Entered, Guarded, Marked, Item
  <2> QED
    BY <1>1, <1>3, <2>1, StackNow
<1>5. RaisingOf' = NoError
  <2>1. RaisingOf' = Waits(frames)
    BY <1>1, <1>3, RaisingNext
  <2> QED
    BY <1>3, <2>1 DEF Waits, Top, Depth
<1>6. CASE ~status
  <2>1. StackOf' = StackOf
    BY <1>1, <1>4, <1>6 DEF StackOf
  <2> QED
    BY <1>1, <1>3, <1>5, <1>6, <2>1, StepFollows DEF Runs
<1>7. CASE status
  <2>1. MayProtect(tail)
    BY <1>1, <1>7
  <2>2. StackOf' = Append(IF tail THEN Below(StackIn(frames)) ELSE StackIn(frames), Item("plain"))
    BY <1>1, <1>4, <1>7 DEF StackOf, Below, Item
  <2>3. StackOf' = Append(Caller(tail), Item("plain"))
    <3>1. CASE tail
      <4>1. Top.tbc = 0 /\ ~Top.tramp
        BY <2>1, <3>1, CallerFacts
      <4> QED
        BY <1>3, <2>2, <3>1, <4>1, CallOnTop DEF Caller
    <3>2. CASE ~tail
      BY <1>4, <2>2, <3>2 DEF Caller
    <3> QED
      BY <3>1, <3>2
  <2>4. "plain" \in Kinds
    BY DEF Kinds
  <2> QED
    BY <1>1, <1>5, <2>1, <2>3, <2>4, ProtectFollows
<1> QED
  BY <1>6, <1>7

LEMMA ResumeFollows == ASSUME Regular, Resume PROVE Follows
<1> DEFINE r == IF yielded.status THEN <<TRUE>> ELSE <<>>
<1>1. /\ yielded.on /\ ~yielded'.on /\ dead' = dead
      /\ yielded.tail => Returns(frames, r)
      /\ ~yielded.tail => frames' = frames /\ got' = (IF yielded.base = Depth THEN r ELSE <<>>)
  BY DEF Resume, NotYielded
<1>2. /\ frames # <<>> /\ dead = NoError /\ got = <<>> /\ Top.err = NoError
      /\ yielded.tail => Top.tbc = 0
      /\ yielded.base = Depth /\ ~Top.tramp
  BY <1>1 DEF Regular, TidyInv, YieldTidy
<1>3. /\ RaisingOf = NoError
      /\ Root \in Seq(Items) /\ Expects \in Errors \cup {NoError} /\ Top \in GoodFrames
      /\ StackIn(frames) \in Seq(Items)
  BY <1>2, RaisingNow, RootFacts
<1>4. /\ Item("plain") \in Items /\ Item("plain").kind = "plain" /\ Item("call").kind = "call"
      /\ \A q : Outcome("plain", q) = <<TRUE>> \o q
  BY ItemFacts DEF ItemKinds, Protections, Outcome, Calls!Passed
<1>5. Outcome("plain", <<>>) = <<TRUE>>
  <2>1. \A q \in Seq(BOOLEAN) : q \o <<>> = q
    OBVIOUS
  <2>2. <<TRUE>> \in Seq(BOOLEAN)
    OBVIOUS
  <2> QED
    BY <1>4, <2>1, <2>2
<1> DEFINE g == Guarded(Root, Expects, Top)
           m == Marked(Root, Expects, Top)
<1>6. ASSUME ~yielded.tail
      PROVE  StackOf' = StackIn(frames) /\ RaisingOf' = NoError /\ got' = r
  <2>1. RaisingOf' = Waits(frames)
    BY <1>1, <1>2, <1>6, RaisingNext
  <2> QED
    BY <1>1, <1>2, <1>6, <2>1, StackNext DEF Waits, Top, Depth
<1>7. CASE ~yielded.status
  <2>1. StackOf = StackIn(frames) /\ r = <<>>
    BY <1>7 DEF StackOf
  <2> HIDE DEF r
  <2>2. CASE ~yielded.tail
    BY <1>6, <1>3, <2>1, <2>2, <1>2 DEF Follows
  <2>3. CASE yielded.tail
    <3>1. Calls!Hand(g, <<>>)
      BY <1>1, <1>2, <2>1, <2>3, ReturnsHands
    <3>2. StackOf = Append(g, Item("call")) /\ g \in Seq(Items) /\ Item("call") \in Items
      BY <1>2, <2>1, <2>3, CallOnTop
    <3> HIDE DEF g
    <3>3. Calls!Kind(StackOf) = "call" /\ Calls!Pop(StackOf) = g /\ StackOf # <<>>
      BY <1>4, <3>2, KindFacts
    <3>4. Calls!Return
      BY <1>3, <3>1, <3>3 DEF Calls!Return, Calls!Quiet
    <3> QED
      BY <3>4 DEF Follows, Calls!Next
  <2> QED
    BY <2>2, <2>3
<1>8. CASE yielded.status
  <2> DEFINE s == IF yielded.tail THEN Below(StackIn(frames)) ELSE StackIn(frames)
  <2>1. StackOf = Append(s, Item("plain")) /\ r = <<TRUE>>
    BY <1>1, <1>8 DEF StackOf
  <2> HIDE DEF r
  <2>2. s \in Seq(Items) /\ Calls!Hand(Append(s, Item("plain")), <<>>)
    <3>1. CASE ~yielded.tail
      <4>1. s = StackIn(frames)
        BY <3>1
      <4>2. Lands(s, Outcome("plain", <<>>))
        BY <1>5, <1>6, <2>1, <3>1, <4>1 DEF Lands
      <4> HIDE DEF s
      <4> QED
        BY <1>3, <1>4, <4>1, <4>2, Hand1 DEF Walled
    <3>2. CASE yielded.tail
      <4>1. s = g /\ g \in Seq(Items)
        BY <1>2, <3>2, CallOnTop
      <4>2. Lands(m, Passed(Top.prot, <<TRUE>>)) /\ m \in Seq(Items)
        BY <1>1, <1>2, <2>1, <3>2, ReturnsLands
      <4> HIDE DEF s
      <4>3. CASE Top.prot = "none"
        <5>1. g = m /\ Passed(Top.prot, <<TRUE>>) = <<TRUE>>
          BY <4>3 DEF Guarded, Passed
        <5>2. Lands(m, Outcome("plain", <<>>))
          BY <1>5, <4>2, <5>1
        <5> HIDE DEF m, g
        <5> QED
          BY <1>4, <4>1, <4>2, <5>1, <5>2, Hand1 DEF Walled
      <4>4. CASE Top.prot # "none"
        <5> DEFINE x == Item(Top.prot)
        <5>1. g = Append(m, x)
          BY <4>4 DEF Guarded
        <5>2. /\ x \in Items /\ x.kind \in Walled
              /\ \A q : Outcome(x.kind, q) = Passed(Top.prot, q)
          BY <1>3, <4>4, WalledFacts
        <5> HIDE DEF x, m, g
        <5>3. Lands(m, Outcome(x.kind, Outcome("plain", <<>>)))
          BY <1>5, <4>2, <5>2
        <5>4. Calls!Hand(Append(Append(m, x), Item("plain")), <<>>)
          BY <1>4, <4>2, <5>2, <5>3, Hand2 DEF Walled
        <5> QED
          BY <4>1, <5>1, <5>4
      <4> QED
        BY <4>3, <4>4
    <3> QED
      BY <3>1, <3>2
  <2> HIDE DEF s
  <2>3. Calls!Kind(StackOf) = "plain" /\ StackOf # <<>>
    BY <1>4, <2>1, <2>2, KindFacts
  <2>4. Calls!Return
    BY <1>2, <1>3, <2>1, <2>2, <2>3 DEF Calls!Return, Calls!Quiet, Calls!Boundary
  <2> QED
    BY <2>4 DEF Follows, Calls!Next
<1> QED
  BY <1>7, <1>8

-----------------------------------------------------------------------------
LEMMA CloseValueFollows == ASSUME Regular, CloseValue PROVE Follows
<1> DEFINE g == [Top EXCEPT !.tbc = @ - 1]
           fs == Append(Below(frames), g)
           called == [NewFrame EXCEPT !.drop = TRUE]
           x == StackIn(fs)
<1>1. /\ fs = [frames EXCEPT ![Depth].tbc = @ - 1]
      /\ fs \in Seq(GoodFrames) /\ g \in GoodFrames /\ fs # <<>>
      /\ g.tbc = Top.tbc - 1 /\ Top.tbc > 0
      /\ ~Top.tramp /\ g.tramp = Top.tramp /\ g.err = Top.err
      /\ g.prot = Top.prot /\ g.drop = Top.drop
  BY PoppedFacts DEF Regular
<1>2. /\ ~yielded.on /\ ~yielded'.on /\ frames # <<>> /\ dead = NoError /\ got' = <<>>
      /\ PopValue
  BY DEF CloseValue, Driven
<1>3. /\ Below(frames) \in Seq(GoodFrames) /\ Top \in GoodFrames /\ Top.tbc \in Nat
      /\ Root \in Seq(Items) /\ Expects \in Errors \cup {NoError}
      /\ StackOf = Placed(Root, Expects, Top)
  BY <1>2, RootFacts, StackTop
<1>4. Top.err \in Errors \cup {NoError} /\ RaisingOf = Top.err
  BY <1>2, <1>3, RaisingNow DEF GoodFrames, FrameSet
<1>5. /\ called \in GoodFrames /\ called.drop /\ called.tbc = 0 /\ ~called.tramp
      /\ called.prot = "none" /\ called.err = NoError
  <2>1. NewFrame \in GoodFrames
    BY NewFrameGood
  <2>2. /\ called.drop /\ called.tbc = 0 /\ ~called.tramp /\ called.depth = 0
        /\ called.prot = "none" /\ called.err = NoError /\ called.target = NewFrame.target
    BY DEF NewFrame
  <2>3. called \in FrameSet
    BY <2>1 DEF GoodFrames, FrameSet
  <2> HIDE DEF called
  <2> QED
    BY <2>1, <2>2, <2>3, MadeFacts DEF GoodFrames
<1>6. \/ frames' = fs /\ dead' = dead
      \/ \E e \in Errors : Raises(fs, e)
      \/ frames' = Append(fs, called) /\ dead' = dead
  <2>1. Overflow \in Errors /\ Thrown \subseteq Errors
    BY DEF Errors
  <2> HIDE DEF fs, called
  <2>2. ASSUME NEW e \in Thrown, Raises(fs, e) /\ fate' = "closed"
        PROVE  \E e1 \in Errors : Raises(fs, e1)
    BY <2>1, <2>2
  <2>3. ASSUME Raises(fs, Overflow), fate' = "full"
        PROVE  \E e1 \in Errors : Raises(fs, e1)
    BY <2>1, <2>3
  <2> QED
    BY <1>1, <1>2, <2>2, <2>3, Zenon DEF PopValue, called
<1> HIDE DEF g, fs, called
<1>7. x \in Seq(Items) /\ StackOf = Append(x, Item("close"))
  <2> DEFINE n == Entered(Root, Expects, Top)
  <2>1. n \in Seq(Items) /\ Entered(Root, Expects, g) = n
    <3>1. Entered(Root, Expects, g) = n
      BY <1>1 DEF Entered, Guarded, Marked
    <3> QED
      BY <1>3, <3>1, EnteredFacts
  <2>2. x = Placed(Root, Expects, g) /\ x \in Seq(Items)
    BY <1>1, <1>3, StackPush DEF fs, Root, Expects
  <2> HIDE DEF n, x
  <2>3. x = n \o Closers(g.tbc) /\ StackOf = n \o Closers(Top.tbc)
    <3>1. Placed(Root, Expects, g) = Entered(Root, Expects, g) \o Closers(g.tbc)
      BY <1>1, <1>3, PlacedFacts
    <3>2. Placed(Root, Expects, Top) = Entered(Root, Expects, Top) \o Closers(Top.tbc)
      BY <1>3, PlacedFacts
    <3> QED
      BY <1>3, <2>1, <2>2, <3>1, <3>2, Zenon DEF n
  <2>4. g.tbc \in Nat /\ Top.tbc = g.tbc + 1
    BY <1>1, <1>3
  <2>5. n \o Closers(g.tbc + 1) = Append(n \o Closers(g.tbc), Item("close"))
    BY <2>1, <2>4, CloserFacts
  <2> QED
    BY <2>2, <2>3, <2>4, <2>5
<1>8. Item("close") \in Items /\ Item("close").kind = "close"
  BY ItemFacts DEF ItemKinds
<1> HIDE DEF x
<1>10. /\ Calls!Kind(StackOf) = "close" /\ Calls!Pop(StackOf) = x /\ StackOf # <<>>
  BY <1>7, <1>8, KindFacts
<1>9. x = StackIn(fs)
  BY DEF x
<1>12. CASE frames' = fs /\ dead' = dead
  <2>1. StackOf' = x
    BY <1>2, <1>9, <1>12, StackNext
  <2>2. RaisingOf' = Top.err
    <3>1. RaisingOf' = Waits(fs)
      BY <1>2, <1>12, RaisingNext
    <3> QED
      BY <1>1, <1>3, <3>1, WaitsTop DEF fs
  <2>3. Calls!Close \/ Calls!UnwindClose
    BY <1>2, <1>4, <1>10, <2>1, <2>2 DEF Calls!Close, Calls!UnwindClose, Calls!Quiet
  <2> QED
    BY <2>3 DEF Follows, Calls!Next
<1>13. ASSUME NEW e \in Errors, Raises(fs, e)
       PROVE  Follows
  <2>1. StackOf' = x /\ RaisingOf' = e
    BY <1>1, <1>2, <1>9, <1>13, RaisesNext DEF Regular
  <2>2. Calls!CloseFails \/ Calls!UnwindClose
    BY <1>2, <1>4, <1>10, <2>1 DEF Calls!CloseFails, Calls!UnwindClose, Calls!Quiet
  <2> QED
    BY <2>2 DEF Follows, Calls!Next
<1>14. CASE frames' = Append(fs, called) /\ dead' = dead
  <2>1. StackOf' = StackIn(Append(fs, called))
    BY <1>2, <1>14, StackNext
  <2>2. Waits(fs) = Top.err
    BY <1>1, <1>3, WaitsTop DEF fs
  <2>3. StackIn(Append(fs, called)) = Placed(x, Top.err, called)
    BY <1>1, <1>5, <1>9, <2>2, StackPush
  <2>4. Placed(x, Top.err, called) = Entered(x, Top.err, called)
    BY <1>4, <1>5, <1>7, PlacedFacts
  <2>5. StackOf' = Append(Marked(x, Top.err, called), Item("call"))
    BY <1>5, <2>1, <2>3, <2>4 DEF Entered, Guarded
  <2>6. RaisingOf' = NoError
    BY <1>1, <1>2, <1>5, <1>14, RaisingNext, WaitsTop
  <2>7. Calls!Item("call") = Item("call") /\ Calls!Item("drop") = Item("drop")
    BY ItemFacts DEF ItemKinds
  <2>8. CASE Top.err = NoError
    <3>1. Marked(x, Top.err, called) = Append(x, Item("drop"))
      BY <1>5, <2>8 DEF Marked
    <3>2. StackOf' = Calls!Push(Calls!Push(x, "drop"), "call")
      BY <2>5, <2>7, <3>1 DEF Calls!Push
    <3>3. Calls!Close
      BY <1>2, <1>4, <1>10, <2>6, <2>8, <3>2 DEF Calls!Close, Calls!Quiet
    <3> QED
      BY <3>3 DEF Follows, Calls!Next
  <2>9. CASE Top.err # NoError
    <3>1. Marked(x, Top.err, called) = Append(x, Calls!Unwind(Top.err))
      BY <2>9 DEF Marked, Calls!Unwind
    <3>2. StackOf' = Calls!Push(Append(x, Calls!Unwind(RaisingOf)), "call")
      BY <1>4, <2>5, <2>7, <3>1 DEF Calls!Push
    <3>3. Calls!UnwindClose
      BY <1>2, <1>4, <1>10, <2>6, <2>9, <3>2 DEF Calls!UnwindClose
    <3> QED
      BY <3>3 DEF Follows, Calls!Next
  <2> QED
    BY <2>8, <2>9
<1> QED
  BY <1>6, <1>12, <1>13, <1>14

LEMMA ScopeClosedFollows == ASSUME Regular, ScopeClosed PROVE Follows
<1> DEFINE g == [Top EXCEPT !.target = Open]
<1>1. /\ frames # <<>> /\ ~yielded.on /\ ~yielded'.on /\ dead = NoError /\ dead' = NoError
      /\ Top.err = NoError /\ Top.target # Open /\ got' = <<>>
      /\ frames' = [frames EXCEPT ![Depth] = g]
  BY DEF ScopeClosed, Driven, Plain, Top
<1>2. Top \in GoodFrames /\ ~Top.tramp /\ Below(frames) \in Seq(GoodFrames)
  BY <1>1, RootFacts DEF Neat
<1>3. /\ g.tbc = Top.tbc /\ g.tramp = Top.tramp /\ g.prot = Top.prot /\ g.drop = Top.drop
      /\ g.err = NoError
  BY <1>1, <1>2 DEF GoodFrames, FrameSet
<1> HIDE DEF g
<1>4. frames' = Append(Below(frames), g)
  BY <1>1, EditedTop DEF Regular
<1>5. StackOf' = StackOf /\ g \in GoodFrames
  BY <1>1, <1>3, <1>4, SameStack
<1>6. RaisingOf' = NoError
  BY <1>1, <1>2, <1>3, <1>4, <1>5, RaisingNext, WaitsTop
<1> QED
  BY <1>1, <1>2, <1>5, <1>6, StepFollows

LEMMA UnwindFollows == ASSUME Regular, Unwind PROVE Follows
<1>1. /\ frames # <<>> /\ ~yielded.on /\ ~yielded'.on /\ dead = NoError
      /\ Top.err # NoError /\ Top.tbc = 0 /\ Top.prot = "none" /\ got' = <<>>
  BY DEF Unwind, Driven, Plain
<1>2. /\ Below(frames) \in Seq(GoodFrames) /\ Top \in GoodFrames /\ ~Top.tramp
      /\ Root \in Seq(Items) /\ Expects \in Errors \cup {NoError}
      /\ Below(frames) = <<>> => ~Top.drop
      /\ Below(frames) = <<>> <=> Depth = 1
      /\ Depth = Len(Below(frames)) + 1
  BY <1>1, RootFacts, TopNow DEF Neat, Regular
<1> DEFINE m == Marked(Root, Expects, Top)
<1>3. m \in Seq(Items) /\ StackOf = Append(m, Item("call")) /\ RaisingOf = Top.err
  BY <1>1, <1>2, StackTop, EnteredFacts, RaisingNow DEF Guarded
<1>4. Item("call") \in Items /\ Item("call").kind = "call"
  BY ItemFacts DEF ItemKinds
<1>5. Calls!Kind(StackOf) = "call" /\ Calls!Pop(StackOf) = m
  <2> HIDE DEF m
  <2> QED
    BY <1>3, <1>4, KindFacts
<1>6. CASE Depth = 1
  <2>1. frames' = <<>> /\ dead' = Top.err
    BY <1>6 DEF Unwind
  <2>2. StackOf' = <<>> /\ RaisingOf' = Top.err
    BY <1>1, <2>1, StackNext, StackNone, DeadNext
  <2>3. Root = <<>> /\ Expects = NoError
    BY <1>2, <1>6, StackNone DEF Root, Expects, Waits
  <2>4. m = <<>>
    BY <1>2, <1>6, <2>3 DEF Marked
  <2>5. Calls!UnwindCall
    BY <1>1, <1>3, <1>5, <2>2, <2>4 DEF Calls!UnwindCall
  <2> QED
    BY <2>5 DEF Follows, Calls!Next
<1>7. CASE Depth # 1
  <2> DEFINE b == Below(frames)
  <2>1. b \in Seq(GoodFrames) /\ b # <<>> /\ Len(b) = Depth - 1
    BY <1>2, <1>7
  <2>2. frames' = [b EXCEPT ![Len(b)].err = Top.err] /\ dead' = NoError
    BY <1>1, <1>7, <2>1 DEF Unwind
  <2>3. StackOf' = Root /\ RaisingOf' = Top.err
    <3> HIDE DEF b
    <3>1. StackOf' = StackIn(b) /\ RaisingOf' = Top.err
      BY <1>1, <2>1, <2>2, ErrNext DEF Regular
    <3> QED
      BY <3>1 DEF b, Root
  <2>4. CASE Expects # NoError \/ Top.drop
    <3>1. PICK x : x \in Items /\ x.kind \in {"drop", "unwind"} /\ m = Append(Root, x)
      BY <1>2, <2>4, MarkedItem
    <3> HIDE DEF m
    <3>2. Calls!Kind(m) \in {"drop", "unwind"} /\ Calls!Pop(m) = Root
      BY <1>2, <3>1, KindFacts
    <3>3. Calls!UnwindCall
      BY <1>1, <1>3, <1>5, <2>3, <3>2 DEF Calls!UnwindCall
    <3> QED
      BY <3>3 DEF Follows, Calls!Next
  <2>5. CASE Expects = NoError /\ ~Top.drop
    <3>1. m = Root
      BY <2>5 DEF Marked
    <3>2. Calls!UnwindCall
      BY <1>1, <1>3, <1>5, <2>3, <3>1 DEF Calls!UnwindCall
    <3> QED
      BY <3>2 DEF Follows, Calls!Next
  <2> QED
    BY <2>4, <2>5
<1> QED
  BY <1>6, <1>7

LEMMA FinishProtectedFollows == ASSUME Regular, FinishProtected PROVE Follows
<1>1. /\ frames # <<>> /\ ~yielded.on /\ ~yielded'.on /\ dead = NoError
      /\ Top.err # NoError /\ Top.tbc = 0 /\ Top.prot # "none"
  BY DEF FinishProtected, Driven, Plain
<1>2. /\ Below(frames) \in Seq(GoodFrames) /\ Top \in GoodFrames /\ ~Top.tramp
      /\ Root \in Seq(Items) /\ Expects \in Errors \cup {NoError}
      /\ Below(frames) = <<>> => Top.prot = "none"
      /\ Below(frames) = <<>> <=> Depth = 1
      /\ ~Top.astray /\ Top.err \in Errors
  BY <1>1, RootFacts DEF Neat, GoodFrames, FrameSet
<1>3. Depth # 1
  BY <1>1, <1>2
<1> DEFINE m == Marked(Root, Expects, Top)
           x == Item(Top.prot)
<1>4. /\ m \in Seq(Items) /\ x \in Items /\ x.kind = Top.prot /\ Top.prot \in Walled
      /\ Guarded(Root, Expects, Top) = Append(m, x)
      /\ StackOf = Append(Append(m, x), Item("call")) /\ RaisingOf = Top.err
  BY <1>1, <1>2, StackTop, EnteredFacts, WalledFacts, RaisingNow DEF Guarded
<1>5. Item("call") \in Items /\ Item("call").kind = "call"
  BY ItemFacts DEF ItemKinds
<1> DEFINE w == Append(m, x)
<1>6. /\ Calls!Kind(StackOf) = "call" /\ Calls!Pop(StackOf) = w
      /\ Calls!Kind(w) = Top.prot /\ Calls!Pop(w) = m
  <2> HIDE DEF m, x
  <2>1. w \in Seq(Items)
    BY <1>4, PushItem
  <2> QED
    BY <1>4, <1>5, <2>1, KindFacts
<1> HIDE DEF m, x, w
<1>7. ASSUME \/ Top.prot = "plain" /\ Calls!Hand(m, <<FALSE, Top.err>>)
             \/ Top.prot = "host" /\ Calls!Hand(m, <<FALSE>>)
             \/ /\ Top.prot \in {"lua", "handler"}
                /\ \/ StackOf' = Calls!Push(Calls!Push(m, "handler"), "call")
                      /\ got' = <<>> /\ RaisingOf' = NoError
                   \/ Calls!Hand(m, <<FALSE, InHandling>>)
      PROVE  Follows
  <2>1. InHandling \in Errors
    BY DEF Errors
  <2>2. Calls!Catch
    BY <1>1, <1>4, <1>6, <1>7, <2>1 DEF Calls!Catch, Calls!Boundary, Walled
  <2> QED
    BY <2>2 DEF Follows, Calls!Next
<1>8. CASE Top.prot \in {"lua", "handler"} /\ ~Exhausted
  <2> DEFINE f == [NewFrame EXCEPT !.depth = Top.depth, !.drop = Top.drop, !.astray = Top.astray]
             g == Handler(f)
  <2>1. frames' = Append(Below(frames), g) /\ got' = <<>> /\ dead' = NoError
    BY <1>1, <1>3, <1>8 DEF FinishProtected
  <2>2. /\ f \in FrameSet /\ ~f.tramp /\ f.tbc = 0 /\ f.drop = Top.drop /\ f.err = NoError
    BY <1>2, NewErr, MadeFacts DEF GoodFrames, FrameSet
  <2> HIDE DEF f
  <2>3. /\ ~g.tramp /\ g.tbc = 0 /\ g.prot = "handler" /\ g.drop = Top.drop /\ g.err = NoError
    BY <2>2, HandlerFacts
  <2> HIDE DEF g
  <2>4. g \in GoodFrames
    BY <1>2, <2>1, FramesNext, LastGood DEF Regular
  <2>5. StackOf' = Placed(Root, Expects, g)
    BY <1>1, <1>2, <2>1, <2>4, StackNext, StackPush DEF Root, Expects
  <2>6. Placed(Root, Expects, g) = Entered(Root, Expects, g)
    BY <1>2, <2>3, <2>4, PlacedFacts
  <2>7. StackOf' = Append(Append(m, Item("handler")), Item("call"))
    BY <2>3, <2>5, <2>6 DEF Entered, Guarded, Marked, m
  <2>8. Calls!Item("call") = Item("call") /\ Calls!Item("handler") = Item("handler")
    BY ItemFacts DEF ItemKinds, Protections
  <2>9. StackOf' = Calls!Push(Calls!Push(m, "handler"), "call")
    BY <2>7, <2>8 DEF Calls!Push
  <2>10. RaisingOf' = NoError
    BY <1>2, <2>1, <2>3, <2>4, RaisingNext, WaitsTop
  <2> QED
    BY <1>7, <1>8, <2>1, <2>9, <2>10
<1>9. CASE ~(Top.prot \in {"lua", "handler"} /\ ~Exhausted)
  <2> DEFINE r == CASE Top.prot = "plain" -> <<FALSE, Top.err>>
                    [] Top.prot = "host" -> <<FALSE>>
                    [] OTHER -> <<FALSE, InHandling>>
  <2>1. /\ frames' = Below(frames) /\ dead' = NoError
        /\ got' = IF Top.drop THEN <<>> ELSE r
    BY <1>1, <1>2, <1>3, <1>9 DEF FinishProtected
  <2> HIDE DEF r
  <2>2. Calls!Hand(m, r)
    BY <1>1, <1>4, <2>1, MarkedLands, Hand0 DEF m
  <2>3. \/ Top.prot = "plain" /\ r = <<FALSE, Top.err>>
        \/ Top.prot = "host" /\ r = <<FALSE>>
        \/ Top.prot \in {"lua", "handler"} /\ r = <<FALSE, InHandling>>
    BY <1>4 DEF r, Walled
  <2> QED
    BY <1>7, <2>2, <2>3
<1> QED
  BY <1>8, <1>9

LEMMA QuotaExceededFollows == ASSUME Regular, QuotaExceeded PROVE Follows
<1>1. frames' = <<>> /\ ~yielded'.on /\ got' = <<>> /\ dead' = NoError
  BY DEF QuotaExceeded, Ready
<1>2. StackOf' = <<>> /\ RaisingOf' = NoError
  BY <1>1, StackNext, StackNone, RaisingNext DEF Waits
<1> QED
  BY <1>1, <1>2 DEF Follows, Calls!Next, Calls!Abandon

-----------------------------------------------------------------------------
LEMMA NextFollows == ASSUME Regular, Next PROVE Follows
<1>1. ASSUME NEW co \in BOOLEAN, Begin(co)
      PROVE  Follows
  BY <1>1, BeginFollows
<1>2. CASE \/ Step \/ OpenTbc \/ Call \/ TailCall
           \/ \E n \in 0 .. MaxTbc : CloseScope(n)
           \/ \E e \in Thrown : Raise(e)
  BY <1>2, InstructionFollows
<1>3. ASSUME NEW e \in Thrown, BareCall(e)
      PROVE  Follows
  BY <1>3, BareCallFollows
<1>4. ASSUME NEW kind \in Kinds, NEW tail \in BOOLEAN,
             ProtectedCall(kind, tail) \/ NestedCall(kind, tail)
      PROVE  Follows
  BY <1>4, ProtectedCallFollows, NestedCallFollows
<1>5. ASSUME NEW kind \in Kinds, NEW tail \in BOOLEAN, NEW e \in Thrown \cup {NoError},
             ProtectedHostCall(kind, tail, e)
      PROVE  Follows
  BY <1>5, ProtectedHostCallFollows
<1>6. ASSUME NEW tail \in BOOLEAN, NEW status \in BOOLEAN, Yield(tail, status)
      PROVE  Follows
  BY <1>6, YieldFollows
<1>7. CASE \/ Return \/ Resume \/ CloseValue \/ ScopeClosed \/ Unwind \/ FinishProtected
           \/ QuotaExceeded
  BY <1>7, ReturnFollows, ResumeFollows, CloseValueFollows, ScopeClosedFollows,
     UnwindFollows, FinishProtectedFollows, QuotaExceededFollows
<1> QED
  BY <1>1, <1>2, <1>3, <1>4, <1>5, <1>6, <1>7 DEF Next

LEMMA InitFollows == Init => Calls!Init
  BY StackNone DEF Init, Calls!Init, StackOf, RaisingOf, NotYielded

LEMMA UnchangedFollows ==
  ASSUME UNCHANGED vars
  PROVE  UNCHANGED <<StackOf, got, RaisingOf>>
<1>1. /\ frames' = frames /\ yielded' = yielded /\ got' = got /\ dead' = dead
  BY DEF vars
<1>2. StackIn(frames)' = StackIn(frames')
  BY Zenon DEF StackIn, WaitsWith, Placed, Entered, Guarded, Marked, Item
<1>3. StackOf' = StackOf
  BY <1>1, <1>2 DEF StackOf, Below, Item
<1>4. RaisingOf' = RaisingOf
  BY <1>1 DEF RaisingOf, Top, Depth
<1> QED
  BY <1>1, <1>3, <1>4

(* The frame machine is the stack of activations and protected calls that Lua  *)
(* promises, when the program makes none of the odd calls: every step of it    *)
(* is one of that stack, or leaves the stack alone.                          *)
THEOREM ImplementsCorrect == Odd = {} => (Spec => ImplementsCalls)
<1> SUFFICES ASSUME Odd = {}
             PROVE  Spec => ImplementsCalls
  OBVIOUS
<1>1. Inv /\ Inv' /\ TidyInv /\ [Next]_vars => [Calls!Next]_(Calls!vars)
  <2>1. ASSUME Regular, Next
        PROVE  [Calls!Next]_(Calls!vars)
    BY <2>1, NextFollows DEF Follows, Calls!vars
  <2>2. ASSUME UNCHANGED vars
        PROVE  [Calls!Next]_(Calls!vars)
    BY <2>2, UnchangedFollows DEF Calls!vars
  <2> QED
    BY <2>1, <2>2 DEF Regular
<1> QED
  BY <1>1, InitFollows, InitInv, StepInv, InitTidy, StepTidy, PTL
     DEF Spec, ImplementsCalls, Calls!Spec

=============================================================================
