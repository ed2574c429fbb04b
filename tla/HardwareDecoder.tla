--------------------------- MODULE HardwareDecoder ---------------------------
(***************************************************************************)
(* phonevr::HardwareDecoder.  Either receiving thread may call decode, and *)
(* nothing keeps two calls apart: what is compared, a new decoder and the  *)
(* frame it gives are steps of their own.  Two calls in decode at once     *)
(* race for decoder_ and current_, so from then on the outcome is any the  *)
(* build can produce, a crash among them; `together' records that it came  *)
(* to this.  Media Foundation is external: a decoder may be missing, or    *)
(* refuse an input or output type, it takes input only when both types are *)
(* set, and it gives a frame of the format it was set to, or asks for      *)
(* more.  A component without a specification of its own, see HostProcess. *)
(***************************************************************************)
EXTENDS Naturals

CONSTANTS
    Formats,        \* the [codec, size] of the video packets' headers
    NoFormat        \* no decoder, or no frame

ASSUME FormatAssumption ==
    /\ NoFormat \notin Formats
    /\ \A f \in Formats : f = [codec |-> f.codec, size |-> f.size]

VARIABLES
    initialized,    \* initialized_
    decoder,        \* decoder_: null, or the format it was made for
    typed,          \* both of decoder_'s media types were accepted
    current,        \* current_codec_, current_width_ and current_height_
    frame,          \* of each caller: the DecodedFrame on its way to present_frame
    source,         \* history: what the decoder that gave it was set to
    together        \* history: two calls were in decode at once

decoderVars == <<initialized, decoder, typed, current, frame, source, together>>

NewDecoder(callers, i, d, ty, cu, fr, so, to) ==
    /\ i = FALSE /\ d = NoFormat /\ ty = FALSE /\ cu = NoFormat /\ to = FALSE
    /\ fr = [t \in callers |-> NoFormat] /\ so = [t \in callers |-> NoFormat]

DecoderInit(callers) ==
    NewDecoder(callers, initialized, decoder, typed, current, frame, source, together)

DecoderLost(callers) ==
    NewDecoder(callers, initialized', decoder', typed', current', frame', source', together')

InitializeDecoder ==
    /\ initialized' = TRUE
    /\ UNCHANGED <<decoder, typed, current, frame, source, together>>

\* Mutant: only a missing decoder is replaced.
FitsAny(p) == decoder /= NoFormat

\* The codec is not compared.
Fits(p) == decoder /= NoFormat /\ current.size = p.size

\* decode compares; `busy' says that another call is past this.
CompareFormat(p, busy, fits) ==
    /\ initialized
    /\ together' = (together \/ busy)
    /\ together' \/ fits = Fits(p)
    /\ UNCHANGED <<initialized, decoder, typed, current, frame, source>>

\* create_decoder: current_ is set as soon as there is a decoder, before the
\* decoder has accepted the types.  FALSE leaves whatever was reached.
CreateDecoder(p, succeeds) ==
    /\ \/ decoder' = NoFormat /\ typed' = FALSE /\ ~succeeds /\ UNCHANGED current
       \/ decoder' = p /\ typed' = succeeds /\ current' = p
    /\ UNCHANGED <<initialized, frame, source, together>>

\* ProcessInput and ProcessOutput: the frame of caller t carries the packet's
\* format, the picture is the decoder's.
GiveFrame(t, p) ==
    /\ decoder /= NoFormat /\ typed
    /\ frame' = [frame EXCEPT ![t] = p]
    /\ source' = [source EXCEPT ![t] = decoder]
    /\ UNCHANGED <<initialized, decoder, typed, current, together>>

\* The frame's optional goes out of scope with the callback.
DropFrame(t) ==
    /\ frame' = [frame EXCEPT ![t] = NoFormat]
    /\ source' = [source EXCEPT ![t] = NoFormat]
    /\ UNCHANGED <<initialized, decoder, typed, current, together>>
=============================================================================
