----------------------------- MODULE Durations -----------------------------
(***************************************************************************)
(* How long the states of a phone last.  picopam.c stretches the durations  *)
(* of its densities by the speed in force and carries what does not fill a  *)
(* frame to the next state; picodata.c then brings a pause between the      *)
(* limits its bound asks for.  A frame is 4 ms.  Durations of states are in *)
(* frames and kept in a byte, limits in ms.                                 *)
(***************************************************************************)
EXTENDS Integers, Sequences
LOCAL INSTANCE SequencesExt

Precision == 2 ^ 10    \* PICODATA_PRECISION
Frame == 4             \* ms, a frame_duration_exp of 2
InFrames == Precision \div Frame

Total(frames) == FoldLeft(LAMBDA total, x : total + x, 0, frames)
Int16(v) == IF v >= 32768 THEN v - 65536 ELSE v
\* Division in C, by a positive number.
Quotient(a, b) == IF a < 0 THEN -((-a) \div b) ELSE a \div b

\* The states one after the other, each given Next(rest, i): its new duration
\* and the rest that goes to the next one.
Carried(frames, rest, Next(_, _)) ==
    FoldLeft(LAMBDA so, i :
                 LET step == Next(so.rest, i)
                 IN  [frames |-> Append(so.frames, step.out % 256), rest |-> step.rest],
             [frames |-> <<>>, rest |-> rest], [i \in 1 .. Len(frames) |-> i])

\* Speed in percent; the rest, dRest, in parts of a frame of that speed.
pam_get_duration(frames, speed, dRest) ==
    Carried(frames, dRest,
            LAMBDA rest, i : LET value == rest + 100 * frames[i]
                             IN  [out |-> value \div speed,
                                  rest |-> value - speed * ((value \div speed) % 256)])

\* What a pause lasts, in ms, when its bound does not say.
get_default_boundary_limit(kind) ==
    CASE kind = "SBEG" -> [min |-> 0, max |-> 20]
      [] kind = "SEND" -> [min |-> 550, max |-> 650]
      [] kind = "PHR1" -> [min |-> 275, max |-> 325]
      [] kind = "PHR2" -> [min |-> 4, max |-> 60]
      [] OTHER -> [min |-> 0, max |-> 0]

\* sil_weights: which states give or take.
SilWeights(kind) ==
    CASE kind = "SBEG" -> <<10, 10, 10, 10, 1>>
      [] kind \in {"PHR1", "PHR2"} -> <<1, 4, 8, 4, 1>>
      [] kind \in {"SEND", "TERM"} -> <<1, 10, 10, 10, 10>>
      [] OTHER -> <<1, 1, 1, 1, 1>>

\* All states by the same factor.
transDurUniform(frames, inputdur, targetdur, restdur) ==
    LET fact == Quotient(targetdur * InFrames, inputdur)
        done == Carried(frames, restdur * InFrames,
                        LAMBDA rest, i :
                            LET value == rest + fact * frames[i]
                                out == value \div Precision
                            IN  [out |-> out, rest |-> value - (out % 256) * Precision])
    IN  [frames |-> done.frames, rest |-> done.rest \div InFrames]

\* Mutant of transDurWeighted: what a state that is cut to nothing could not give
\* is not asked of the next one.
transDurWeightedCut(frames, weight, inputdur, targetdur, restdur) ==
    LET Weight(i) == frames[i] * weight[i]
        weighted_sum == Total([i \in 1 .. Len(frames) |-> Weight(i)])
        fact == Quotient((targetdur - inputdur) * InFrames, weighted_sum)
        done == Carried(frames, restdur * InFrames,
                        LAMBDA rest, i :
                            LET change == rest + fact * Weight(i)
                                moved == frames[i] + (change \div Precision)
                            IN  [out |-> IF moved < 0 THEN 0 ELSE moved,
                                 rest |-> change % Precision])
    IN  IF weighted_sum = 0 THEN transDurUniform(frames, inputdur, targetdur, restdur)
        ELSE [frames |-> done.frames, rest |-> done.rest \div InFrames]

\* More or less for each state by its weight, but not less than nothing.
transDurWeighted(frames, weight, inputdur, targetdur, restdur) ==
    LET Weight(i) == frames[i] * weight[i]
        weighted_sum == Total([i \in 1 .. Len(frames) |-> Weight(i)])
        fact == Quotient((targetdur - inputdur) * InFrames, weighted_sum)
        done == Carried(frames, restdur * InFrames,
                        LAMBDA rest, i :
                            LET change == rest + fact * Weight(i)
                                moved == frames[i] + (change \div Precision)
                                out == IF moved < 0 THEN 0 ELSE moved
                            IN  [out |-> out, rest |-> change - (out - frames[i]) * Precision])
    IN  IF weighted_sum = 0 THEN transDurUniform(frames, inputdur, targetdur, restdur)
        ELSE [frames |-> done.frames, rest |-> done.rest \div InFrames]

\* Without weights all states change alike; a factor of 0 is none.
picodata_transformDurations(frames, weight, mintarget, maxtarget, facttarget, dur_rest) ==
    LET inputdur == Frame * Total(frames)
        asked == IF facttarget = 0 THEN inputdur
                 ELSE (facttarget * inputdur + Precision \div 2) \div Precision
        targetdur == IF asked < mintarget THEN mintarget
                     ELSE IF maxtarget < asked THEN maxtarget ELSE asked
    IN  CASE facttarget = 0 /\ targetdur = inputdur -> [frames |-> frames, rest |-> dur_rest]
          [] ~ (facttarget = 0 /\ targetdur = inputdur) /\ weight = <<>> ->
               transDurUniform(frames, inputdur, targetdur, dur_rest)
          [] OTHER -> transDurWeighted(frames, weight, inputdur, targetdur, dur_rest)

\* pam_put_item: the states of phone k of syllable cur.  The first pause of a
\* sentence is always short; the limits go from 16 bits into a signed number.
FramesPut(frames, cur, k, kind, limits) ==
    CASE cur = 0 /\ k = 0 -> <<0, 0, 0, 0, 2>>
      [] ~ (cur = 0 /\ k = 0) /\ limits.max > 0 ->
           picodata_transformDurations(frames, SilWeights(kind), Int16(limits.min),
                                       Int16(limits.max), 0, 0).frames
      [] OTHER -> frames
=============================================================================
