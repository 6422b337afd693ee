--------------------------- MODULE Output_proofs ---------------------------
(***************************************************************************)
(* The static depth of output_object: what it is in the middle of an       *)
(* instruction, and that each instruction leaves it where it was but for   *)
(* the null pointers; and the bound it puts on the nesting of the calls.   *)
(***************************************************************************)
EXTENDS Output, TLAPS

Frame == ObjectCall \cup PairCall \cup CloseCall \cup VectorCall

OutputInv == TypeOK /\ DepthInv

-----------------------------------------------------------------------------
(***************************************************************************)
(* The frames of a call that returns, and of one that goes on.             *)
(***************************************************************************)

LEMMA FrontFrames ==
  ASSUME NEW s \in Seq(Frame), s # <<>>
  PROVE  /\ Front(s) \in Seq(Frame)
         /\ Len(Front(s)) = Len(s) - 1 /\ DOMAIN Front(s) = 1..(Len(s) - 1)
         /\ Len(s) \in Nat \ {0}
         /\ \A i \in 1..(Len(s) - 1) : Front(s)[i] = s[i]
         /\ Last(s) = s[Len(s)] /\ Last(s) \in Frame
<1>1. Len(s) \in Nat \ {0} /\ \A i \in 1..Len(s) : s[i] \in Frame
  OBVIOUS
<1>2. Front(s) = [i \in 1..(Len(s) - 1) |-> s[i]]
  BY DEF Front
<1>3. Front(s) \in [1..(Len(s) - 1) -> Frame]
  BY <1>1, <1>2
<1>4. Front(s) \in Seq(Frame) /\ Len(Front(s)) = Len(s) - 1
  BY <1>1, <1>2, <1>3
<1> QED
  BY <1>1, <1>2, <1>4 DEF Last

LEMMA AppendFrames ==
  ASSUME NEW s \in Seq(Frame), NEW fr \in Frame
  PROVE  /\ Append(s, fr) \in Seq(Frame)
         /\ Len(Append(s, fr)) = Len(s) + 1 /\ DOMAIN Append(s, fr) = 1..(Len(s) + 1)
         /\ \A i \in 1..Len(s) : Append(s, fr)[i] = s[i]
         /\ Append(s, fr)[Len(s) + 1] = fr
  OBVIOUS

LEMMA CallFrames ==
  ASSUME NEW s \in Seq(Frame), NEW fr \in Frame, NEW g \in Frame
  PROVE  /\ s \o <<fr, g>> \in Seq(Frame)
         /\ Len(s \o <<fr, g>>) = Len(s) + 2 /\ DOMAIN (s \o <<fr, g>>) = 1..(Len(s) + 2)
         /\ \A i \in 1..Len(s) : (s \o <<fr, g>>)[i] = s[i]
         /\ (s \o <<fr, g>>)[Len(s) + 1] = fr
         /\ (s \o <<fr, g>>)[Len(s) + 2] = g
  OBVIOUS

\* What the last frame is, by the name of its call.
LEMMA LastFrame ==
  ASSUME TypeOK, calls # <<>>
  PROVE  /\ InCall("object") => Last(calls) \in ObjectCall
         /\ InCall("pair") => Last(calls) \in PairCall
         /\ InCall("vector") => Last(calls) \in VectorCall
         /\ Fits(Last(calls))
<1>1. calls \in Seq(Frame) /\ \A i \in DOMAIN calls : Fits(calls[i])
  BY DEF TypeOK, Frame
<1>2. Last(calls) = calls[Len(calls)] /\ Last(calls) \in Frame /\ Len(calls) \in DOMAIN calls
  BY <1>1, FrontFrames
<1> QED
  BY <1>1, <1>2 DEF InCall, Frame, ObjectCall, PairCall, CloseCall, VectorCall

\* The frames and the depth, of which the invariant is made.
FramesFit == calls \in Seq(Frame) /\ \A i \in DOMAIN calls : Fits(calls[i])
DepthCounts ==
  /\ \A i \in DOMAIN calls : calls[i].f = "object" => i = Len(calls)
  /\ depth = nils + Open

\* The objects do not change while they are printed.
LEMMA StillFits ==
  ASSUME heap' = heap, calls' \in Seq(Frame), \A i \in DOMAIN calls' : Fits(calls'[i])
  PROVE  FramesFit'
  BY DEF FramesFit, Fits, Type

LEMMA FitSoFar ==
  ASSUME TypeOK
  PROVE  \A i \in 1..Len(calls) : Fits(calls[i])
  BY DEF TypeOK

LEMMA OnlyLast ==
  ASSUME TypeOK, DepthInv
  PROVE  \A i \in 1..(Len(calls) - 1) : calls[i].f # "object"
<1>1. DOMAIN calls = 1..Len(calls) /\ Len(calls) \in Nat
  BY DEF TypeOK
<1> QED
  BY <1>1 DEF DepthInv

\* A call ends: the frame that is now the last one is not about to start.
LEMMA Ended ==
  ASSUME TypeOK, DepthInv, calls # <<>>,
         heap' = heap, calls' = Front(calls), depth' \in Nat, nils' \in Nat,
         InCall("object") => depth' - nils' = depth - nils,
         ~ InCall("object") => depth' - nils' = (depth - nils) - 1
  PROVE  FramesFit' /\ DepthCounts'
<1>1. calls \in Seq(Frame) /\ depth \in Nat /\ nils \in Nat /\ DOMAIN calls = 1..Len(calls)
  BY DEF TypeOK, Frame
<1>2. /\ calls' \in Seq(Frame) /\ Len(calls') = Len(calls) - 1 /\ Len(calls) \in Nat \ {0}
      /\ \A i \in 1..(Len(calls) - 1) : calls'[i] = calls[i]
      /\ DOMAIN calls' = 1..(Len(calls) - 1)
  BY <1>1, FrontFrames
<1>a. \A i \in DOMAIN calls' : Fits(calls'[i])
  BY <1>1, <1>2, FitSoFar
<1>3. FramesFit'
  BY <1>2, <1>a, StillFits
<1>4. \A i \in DOMAIN calls' : calls'[i].f # "object"
  BY <1>1, <1>2, OnlyLast
<1>5. ~ InCall("object")'
  BY <1>2, <1>4 DEF InCall, Last
<1>6. Open' = Len(calls) - 1
  BY <1>2, <1>5 DEF Open
<1>7. depth - nils = Open
  BY <1>1, <1>2 DEF DepthInv, Open
<1>8. depth' = nils' + Open'
  <2>1. depth' - nils' = Len(calls) - 1
    <3>1. CASE InCall("object")
      <4>1. Open = Len(calls) - 1
        BY <3>1 DEF Open
      <4> QED
        BY <1>7, <3>1, <4>1
    <3>2. CASE ~ InCall("object")
      <4>1. Open = Len(calls)
        BY <1>2, <3>2 DEF Open
      <4> QED
        BY <1>7, <3>2, <4>1
    <3> QED
      BY <3>1, <3>2
  <2> QED
    BY <1>2, <1>6, <2>1
<1> QED
  BY <1>3, <1>4, <1>8 DEF DepthCounts

\* output_object goes on as a list or a vector, and has counted depth up.
LEMMA Begun ==
  ASSUME TypeOK, DepthInv, InCall("object"), NEW fr \in Frame, fr.f # "object",
         Fits(fr), heap' = heap, calls' = Append(Front(calls), fr),
         depth' = depth + 1, nils' = nils
  PROVE  FramesFit' /\ DepthCounts'
<1>1. calls \in Seq(Frame) /\ depth \in Nat /\ nils \in Nat /\ calls # <<>>
  BY DEF TypeOK, Frame, InCall
<1>a. DOMAIN calls = 1..Len(calls)
  BY <1>1
<1> DEFINE front == Front(calls)
<1>2. /\ front \in Seq(Frame) /\ Len(front) = Len(calls) - 1 /\ Len(calls) \in Nat \ {0}
      /\ \A i \in 1..(Len(calls) - 1) : front[i] = calls[i]
  BY <1>1, FrontFrames
<1>3. calls' = Append(front, fr)
  OBVIOUS
<1> HIDE DEF front
<1>4. /\ calls' \in Seq(Frame) /\ Len(calls') = Len(calls)
      /\ \A i \in 1..(Len(calls) - 1) : calls'[i] = calls[i]
      /\ calls'[Len(calls)] = fr /\ DOMAIN calls' = 1..Len(calls)
  BY <1>2, <1>3, AppendFrames
<1>b. \A i \in DOMAIN calls' : i = Len(calls) \/ i \in 1..(Len(calls) - 1)
  BY <1>2, <1>4
<1>c. \A i \in DOMAIN calls' : Fits(calls'[i])
  BY <1>2, <1>4, <1>b, FitSoFar
<1>5. FramesFit'
  BY <1>4, <1>c, StillFits
<1>6. \A i \in DOMAIN calls' : calls'[i].f # "object"
  BY <1>4, <1>b, OnlyLast
<1>7. ~ InCall("object")'
  BY <1>2, <1>4, <1>6 DEF InCall, Last
<1>8. depth - nils = Len(calls) - 1
  BY <1>1, <1>2 DEF DepthInv, Open
<1>9. depth' = nils' + Open'
  BY <1>1, <1>2, <1>4, <1>7, <1>8 DEF Open
<1> QED
  BY <1>5, <1>6, <1>9 DEF DepthCounts

\* A list or a vector calls output_object, and waits.
LEMMA Called ==
  ASSUME TypeOK, DepthInv, calls # <<>>, ~ InCall("object"),
         NEW fr \in Frame, fr.f # "object", Fits(fr), NEW o \in Reference,
         heap' = heap, calls' = Front(calls) \o <<fr, ObjectFrame(o)>>,
         depth' = depth, nils' = nils
  PROVE  FramesFit' /\ DepthCounts'
<1>1. calls \in Seq(Frame) /\ depth \in Nat /\ nils \in Nat
  BY DEF TypeOK, Frame
<1>a. DOMAIN calls = 1..Len(calls)
  BY <1>1
<1> DEFINE front == Front(calls)
           call  == ObjectFrame(o)
<1>2. /\ front \in Seq(Frame) /\ Len(front) = Len(calls) - 1 /\ Len(calls) \in Nat \ {0}
      /\ \A i \in 1..(Len(calls) - 1) : front[i] = calls[i]
  BY <1>1, FrontFrames
<1>3. call \in Frame /\ call.f = "object" /\ call \notin PairCall /\ call \notin VectorCall
  BY DEF ObjectFrame, Frame, ObjectCall, PairCall, VectorCall
<1>4. calls' = front \o <<fr, call>>
  OBVIOUS
<1> HIDE DEF front, call
<1>b. /\ calls' \in Seq(Frame) /\ Len(calls') = Len(front) + 2
      /\ \A i \in 1..Len(front) : calls'[i] = front[i]
      /\ calls'[Len(front) + 1] = fr /\ calls'[Len(front) + 2] = call
  <2> DEFINE new == front \o <<fr, call>>
  <2>1. /\ new \in Seq(Frame) /\ Len(new) = Len(front) + 2
        /\ \A i \in 1..Len(front) : new[i] = front[i]
        /\ new[Len(front) + 1] = fr /\ new[Len(front) + 2] = call
    BY <1>2, <1>3, CallFrames
  <2>2. calls' = new
    BY <1>4
  <2> HIDE DEF new
  <2> QED
    BY <2>1, <2>2
<1>5. /\ calls' \in Seq(Frame) /\ Len(calls') = Len(calls) + 1
      /\ \A i \in 1..(Len(calls) - 1) : calls'[i] = calls[i]
      /\ calls'[Len(calls)] = fr /\ calls'[Len(calls) + 1] = call
      /\ DOMAIN calls' = 1..(Len(calls) + 1)
  BY <1>2, <1>b
<1>6. \A i \in DOMAIN calls' : i \in 1..(Len(calls) - 1) \/ i = Len(calls) \/ i = Len(calls) + 1
  BY <1>2, <1>5
<1>7. Fits(call)
  BY <1>3 DEF Fits
<1>c. \A i \in DOMAIN calls' : Fits(calls'[i])
  <2> SUFFICES ASSUME NEW i \in DOMAIN calls' PROVE Fits(calls'[i])
    OBVIOUS
  <2>1. CASE i \in 1..(Len(calls) - 1)
    <3>1. calls'[i] = calls[i] /\ i \in 1..Len(calls)
      <4>1. calls'[i] = calls[i]
        BY <1>5, <2>1
      <4>2. i \in 1..Len(calls)
        BY <1>2, <2>1
      <4> QED
        BY <4>1, <4>2
    <3> QED
      BY <3>1, FitSoFar
  <2>2. CASE i = Len(calls)
    BY <1>5, <2>2
  <2>3. CASE i = Len(calls) + 1
    BY <1>5, <1>7, <2>3
  <2> QED
    BY <1>6, <2>1, <2>2, <2>3
<1>8. FramesFit'
  BY <1>5, <1>c, StillFits
<1>9. \A i \in DOMAIN calls' : calls'[i].f = "object" => i = Len(calls')
  <2> SUFFICES ASSUME NEW i \in DOMAIN calls', calls'[i].f = "object" PROVE i = Len(calls')
    OBVIOUS
  <2>1. CASE i \in 1..(Len(calls) - 1)
    BY <1>1, <1>a, <1>2, <1>5, <2>1, OnlyLast
  <2> QED
    BY <1>5, <1>6, <2>1
<1>10. InCall("object")'
  <2>1. Len(calls') # 0 /\ calls'[Len(calls')] = call
    <3>1. Len(calls') = Len(calls) + 1 /\ Len(calls) \in Nat
      BY <1>2, <1>5
    <3>2. calls'[Len(calls) + 1] = call
      BY <1>5
    <3> QED
      BY <3>1, <3>2
  <2>2. Last(calls') = call /\ calls' # <<>>
    BY <2>1 DEF Last
  <2> QED
    BY <1>3, <2>2 DEF InCall
<1>11. depth - nils = Len(calls)
  BY <1>1, <1>2 DEF DepthInv, Open
<1>12. depth' = nils' + Open'
  BY <1>1, <1>2, <1>5, <1>10, <1>11 DEF Open
<1> QED
  BY <1>8, <1>9, <1>12 DEF DepthCounts

-----------------------------------------------------------------------------
(***************************************************************************)
(* The invariant.                                                          *)
(***************************************************************************)

LEMMA InitInv == Init => OutputInv
<1> SUFFICES ASSUME Init PROVE OutputInv
  OBVIOUS
<1>1. calls = <<>> /\ ~ InCall("object")
  BY DEF Init, InCall
<1>2. TypeOK
  BY <1>1, OutputAssumption DEF Init, TypeOK
<1>3. DepthInv
  BY <1>1, OutputAssumption DEF Init, DepthInv, Open
<1> QED
  BY <1>2, <1>3 DEF OutputInv

\* What the lemmas about the frames give, with the rest of the state.
LEMMA Together ==
  ASSUME OutputInv, heap' = heap, FramesFit', DepthCounts', prints' = prints,
         depth' \in Nat, nils' \in Nat, depth' < OUTPUT_MAX_DEPTH
  PROVE  OutputInv'
<1>1. TypeOK'
  BY DEF OutputInv, TypeOK, FramesFit, Frame
<1>2. DepthInv'
  BY DEF DepthInv, DepthCounts
<1> QED
  BY <1>1, <1>2 DEF OutputInv

LEMMA NextInv == OutputInv /\ [Next]_vars => OutputInv'
<1> SUFFICES ASSUME OutputInv, [Next]_vars PROVE OutputInv'
  OBVIOUS
<1>a. TypeOK /\ DepthInv
  BY DEF OutputInv
<1>b. depth \in Nat /\ nils \in Nat /\ OUTPUT_MAX_DEPTH \in Nat /\ depth < OUTPUT_MAX_DEPTH
  BY <1>a, OutputAssumption DEF TypeOK, DepthInv
<1>c. heap \in [Obj -> Object]
  BY <1>a DEF TypeOK
<1>1. ASSUME NEW o \in Roots, op_output(o) PROVE OutputInv'
  <2> DEFINE call == ObjectFrame(o)
  <2>1. calls' = <<call>> /\ heap' = heap /\ depth' = depth /\ nils' = nils
    BY <1>1 DEF op_output
  <2>2. call \in Frame /\ call.f = "object" /\ call \notin PairCall /\ call \notin VectorCall
    BY OutputAssumption DEF ObjectFrame, Frame, ObjectCall, PairCall, VectorCall, Reference
  <2> HIDE DEF call
  <2>3. prints'.count \in 0..MaxPrints
    BY <1>1, <1>a, OutputAssumption DEF op_output, TypeOK
  <2>4. Fits(call)
    BY <2>2 DEF Fits
  <2>5. calls' \in Seq(Frame) /\ Len(calls') = 1 /\ DOMAIN calls' = 1..1 /\ calls'[1] = call
    BY <2>1, <2>2
  <2>6. FramesFit'
    BY <2>1, <2>4, <2>5, StillFits
  <2>7. InCall("object")'
    BY SMTT(30), <2>2, <2>5 DEF InCall, Last
  <2>8. depth = nils + 0
    <3>1. calls = <<>> /\ Len(calls) = 0
      BY <1>1 DEF op_output
    <3>2. ~ InCall("object")
      BY <3>1 DEF InCall
    <3> QED
      BY <1>a, <3>1, <3>2 DEF DepthInv, Open
  <2>9. Open' = 0
    BY <2>5, <2>7 DEF Open
  <2>10. TypeOK'
    BY <1>b, <1>c, <2>1, <2>3, <2>6 DEF TypeOK, FramesFit, Frame
  <2>11. DepthInv'
    BY <1>b, <2>1, <2>5, <2>8, <2>9 DEF DepthInv
  <2> QED
    BY <2>10, <2>11 DEF OutputInv
<1>2. CASE output_object
  <2> DEFINE o == Last(calls).obj
  <2>1. InCall("object") /\ calls # <<>> /\ heap' = heap /\ prints' = prints
    BY <1>2 DEF output_object, InCall
  <2>2. o \in Reference
    BY <1>a, <2>1, LastFrame DEF ObjectCall
  <2> HIDE DEF o
  <2>3. ASSUME NEW text, Prints(text) PROVE OutputInv'
    <3>1. calls' = Front(calls) /\ depth' = depth /\ nils' = nils
      BY <2>3 DEF Prints, Printing
    <3> QED
      BY <1>a, <1>b, <2>1, <3>1, Ended, Together
  <2>4. ASSUME depth + 1 < OUTPUT_MAX_DEPTH, PrintsNil PROVE OutputInv'
    <3>1. calls' = Front(calls) /\ depth' = depth + 1 /\ nils' = nils + 1
      BY <2>4 DEF PrintsNil, Printing
    <3>2. depth' \in Nat /\ nils' \in Nat /\ depth' - nils' = depth - nils
      BY <1>b, <3>1
    <3>3. FramesFit' /\ DepthCounts'
      BY <1>a, <2>1, <3>1, <3>2, Ended
    <3> QED
      BY <2>1, <2>4, <3>1, <3>2, <3>3, Together
  <2>5. ASSUME depth + 1 < OUTPUT_MAX_DEPTH, NEW text, NEW fr \in Frame, fr.f # "object",
               Fits(fr), Begins(text, fr)
        PROVE  OutputInv'
    <3>1. calls' = Append(Front(calls), fr) /\ depth' = depth + 1 /\ nils' = nils
      BY <2>5 DEF Begins, Printing
    <3>2. FramesFit' /\ DepthCounts'
      BY <1>a, <2>1, <2>5, <3>1, Begun
    <3> QED
      BY <1>b, <2>1, <2>5, <3>1, <3>2, Together
  <2>6. CASE Type(o) = "PAIR" /\ Begins(Text("("), PairFrame(o, 0)) /\ depth + 1 < OUTPUT_MAX_DEPTH
    <3>1. PairFrame(o, 0) \in PairCall /\ PairFrame(o, 0).f # "object" /\ PairFrame(o, 0).pair = o
      BY <2>2, OutputAssumption DEF PairFrame, PairCall
    <3>2. Fits(PairFrame(o, 0))
      BY <2>6, <3>1 DEF Fits, PairCall, VectorCall
    <3> QED
      BY <2>5, <2>6, <3>1, <3>2 DEF Frame
  <2>7. ASSUME Type(o) \in {"VECTOR", "RECORD"}, depth + 1 < OUTPUT_MAX_DEPTH,
               NEW text, Begins(text, VectorFrame(o))
        PROVE  OutputInv'
    <3>1. o \in Obj /\ heap[o].type \in {"VECTOR", "RECORD"}
      BY <2>2, <2>7 DEF Type, Reference
    <3>2. Len(heap[o].vector) \in Nat
      BY <1>c, <3>1 DEF Object
    <3>3. /\ VectorFrame(o) \in VectorCall /\ VectorFrame(o).f # "object"
          /\ VectorFrame(o).obj = o /\ VectorFrame(o).index = 1
      BY <3>1 DEF VectorFrame, VectorCall
    <3>4. Fits(VectorFrame(o))
      BY <2>7, <3>2, <3>3 DEF Fits, PairCall, VectorCall
    <3> QED
      BY <2>5, <2>7, <3>3, <3>4 DEF Frame
  <2>8. \/ Prints(Text(" ..."))
        \/ depth + 1 < OUTPUT_MAX_DEPTH /\ PrintsObject(o)
    BY <1>2 DEF output_object, o
  <2> QED
    BY <2>3, <2>4, <2>6, <2>7, <2>8 DEF PrintsObject
<1>3. ASSUME ~ InCall("object"), calls # <<>>, NEW text, NEW fr \in Frame, fr.f # "object",
             Fits(fr), NEW o \in Reference, Calling(text, o, fr)
      PROVE  OutputInv'
  <2>1. /\ heap' = heap /\ prints' = prints /\ depth' = depth /\ nils' = nils
        /\ calls' = Front(calls) \o <<fr, ObjectFrame(o)>>
    BY <1>3 DEF Calling, Printing
  <2>2. FramesFit' /\ DepthCounts'
    BY <1>a, <1>3, <2>1, Called
  <2> QED
    BY <1>b, <2>1, <2>2, Together
<1>4. ASSUME ~ InCall("object"), calls # <<>>, NEW text, Returns(text) PROVE OutputInv'
  <2>1. /\ heap' = heap /\ prints' = prints /\ depth' = depth - 1 /\ nils' = nils
        /\ calls' = Front(calls)
    BY <1>4 DEF Returns, Printing
  <2>2. Len(calls) \in Nat \ {0}
    BY <1>a, <1>4 DEF TypeOK
  <2>3. Open = Len(calls)
    BY <1>4, <2>2 DEF Open
  <2>4. depth = nils + Open
    BY <1>a DEF DepthInv
  <2>5. depth' \in Nat /\ depth' < OUTPUT_MAX_DEPTH /\ depth' - nils' = (depth - nils) - 1
    BY <1>b, <2>1, <2>2, <2>3, <2>4
  <2>6. FramesFit' /\ DepthCounts'
    BY <1>a, <1>b, <1>4, <2>1, <2>5, Ended
  <2> QED
    BY <1>b, <2>1, <2>5, <2>6, Together
<1>5. CASE output_pair
  <2> DEFINE frame == Last(calls)
             p     == frame.pair
             next  == PairFrame(heap[p].cdr, frame.length + 1)
  <2>1. InCall("pair") /\ calls # <<>> /\ ~ InCall("object")
    BY <1>5 DEF output_pair, InCall
  <2>2. frame \in PairCall /\ Fits(frame) /\ p \in Reference /\ frame.length \in Nat
    BY <1>a, <2>1, LastFrame, OutputAssumption DEF PairCall
  <2>3. CASE MorePairs(frame) /\ \E text : Calling(text, heap[p].car, next)
    <3>1. Type(p) = "PAIR" /\ frame.length < OUTPUT_MAX_LENGTH
      BY <2>2, <2>3, OutputAssumption DEF MorePairs, Fits
    <3>2. p \in Obj /\ heap[p].type = "PAIR"
      BY <2>2, <3>1 DEF Type, Reference
    <3>3. heap[p].car \in Reference /\ heap[p].cdr \in Reference
      BY <1>c, <3>2 DEF Object
    <3>4. next = [f |-> "pair", pair |-> heap[p].cdr, length |-> frame.length + 1]
      BY DEF PairFrame
    <3>5. next \in PairCall /\ next.f # "object" /\ next.length # 0 /\ next \notin VectorCall
      BY <2>2, <3>1, <3>3, <3>4, OutputAssumption DEF PairCall, VectorCall
    <3>6. Fits(next)
      BY <3>5 DEF Fits
    <3> HIDE DEF next
    <3> QED
      BY <1>3, <2>1, <2>3, <3>3, <3>5, <3>6 DEF Frame
  <2>4. CASE \E text : Calling(text, p, CloseFrame)
    <3>1. CloseFrame \in CloseCall /\ CloseFrame.f # "object"
      BY DEF CloseFrame, CloseCall
    <3>2. Fits(CloseFrame)
      BY DEF CloseFrame, Fits, PairCall, VectorCall
    <3> QED
      BY <1>3, <2>1, <2>2, <2>4, <3>1, <3>2 DEF Frame
  <2>5. CASE \E text : Returns(text)
    BY <1>4, <2>1, <2>5
  <2> QED
    BY <1>5, <2>3, <2>4, <2>5 DEF output_pair
<1>6. CASE output_pair_end
  <2>1. calls # <<>> /\ ~ InCall("object") /\ Returns(Text(")"))
    BY <1>6 DEF output_pair_end, InCall
  <2> QED
    BY <1>4, <2>1
<1>7. CASE output_vector
  <2> DEFINE frame == Last(calls)
             os    == heap[frame.obj].vector
             next  == [frame EXCEPT !.index = @ + 1]
  <2>1. InCall("vector") /\ calls # <<>> /\ ~ InCall("object")
    BY <1>7 DEF output_vector, InCall
  <2>2. frame \in VectorCall /\ Fits(frame) /\ frame.obj \in Obj /\ frame.index \in Nat \ {0}
    BY <1>a, <2>1, LastFrame DEF VectorCall
  <2>3. Type(frame.obj) \in {"VECTOR", "RECORD"} /\ os \in Seq(Reference)
    <3>1. Type(frame.obj) \in {"VECTOR", "RECORD"}
      BY <2>2 DEF Fits
    <3>2. heap[frame.obj].type \in {"VECTOR", "RECORD"}
      BY <2>2, <3>1, OutputAssumption DEF Type
    <3> QED
      BY <1>c, <2>2, <3>1, <3>2 DEF Object
  <2>4. CASE frame.index <= Len(os) /\ \E text : Calling(text, os[frame.index], next)
    <3>1. os[frame.index] \in Reference
      BY <2>2, <2>3, <2>4
    <3>2. next = [f |-> "vector", obj |-> frame.obj, index |-> frame.index + 1]
      BY <2>2 DEF VectorCall
    <3>3. next \in VectorCall /\ next.f # "object" /\ next \notin PairCall
      BY <2>2, <3>2 DEF VectorCall, PairCall
    <3>4. Fits(next)
      BY <2>2, <2>3, <2>4, <3>2, <3>3 DEF Fits
    <3> HIDE DEF next, frame, os
    <3> QED
      BY <1>3, <2>1, <2>4, <3>1, <3>3, <3>4 DEF Frame
  <2>5. CASE \E text : Returns(text)
    BY <1>4, <2>1, <2>5
  <2> QED
    BY <1>7, <2>4, <2>5 DEF output_vector
<1>8. CASE UNCHANGED vars
  <2>1. /\ heap' = heap /\ depth' = depth /\ calls' = calls /\ prints' = prints /\ nils' = nils
    BY <1>8 DEF vars
  <2>2. FramesFit'
    BY <1>a, <2>1, StillFits DEF TypeOK, Frame
  <2>3. DepthCounts'
    BY <1>a, <2>1 DEF DepthInv, DepthCounts, Open, InCall
  <2> QED
    BY <1>b, <2>1, <2>2, <2>3, Together
<1> QED
  BY <1>1, <1>2, <1>5, <1>6, <1>7, <1>8 DEF Next, Step

\* The bounds on the frames, and on the depth in the middle of an instruction, hold.
THEOREM Invariance == Spec => []OutputInv
<1> QED
  BY InitInv, NextInv, PTL DEF Spec

\* Every function of vm_output.c reads only objects of the type it was called for.
THEOREM TypeCorrect == Spec => []TypeOK
<1>1. OutputInv => TypeOK
  BY DEF OutputInv
<1> QED
  BY <1>1, Invariance, PTL

\* Between instructions the static depth of output_object is the number of null
\* pointers that were printed, for all objects and all limits.
THEOREM DepthRestored == Spec => []DepthAccountsForNils
<1>1. OutputInv => DepthAccountsForNils
  <2> SUFFICES ASSUME OutputInv, calls = <<>> PROVE depth = nils
    BY DEF DepthAccountsForNils
  <2>1. Open = 0
    BY DEF Open, InCall
  <2>2. depth = nils + Open /\ nils \in Nat
    BY DEF OutputInv, DepthInv, TypeOK
  <2> QED
    BY <2>1, <2>2
<1> QED
  BY <1>1, Invariance, PTL

\* The recursion of vm_output.c takes no more frames than the limit, less the null
\* pointers printed since the machine started.
THEOREM Nesting == Spec => []NestingBounded
<1>1. OutputInv => NestingBounded
  <2> SUFFICES ASSUME OutputInv PROVE Len(calls) <= OUTPUT_MAX_DEPTH - nils
    BY DEF NestingBounded
  <2>1. /\ depth = nils + Open /\ nils \in Nat /\ depth \in Nat
        /\ depth < OUTPUT_MAX_DEPTH /\ OUTPUT_MAX_DEPTH \in Nat /\ Len(calls) \in Nat
    BY OutputAssumption DEF OutputInv, DepthInv, TypeOK
  <2>2. Open = Len(calls) \/ Open = Len(calls) - 1
    BY <2>1 DEF Open
  <2> QED
    BY <2>1, <2>2
<1> QED
  BY <1>1, Invariance, PTL
=============================================================================
