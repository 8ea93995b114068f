--------------------------- MODULE DownloadLayout ---------------------------
(***************************************************************************)
(* Where a Download loader's words land in RTLink frames.                  *)
(*                                                                         *)
(* materialize_download_loader (catseq-rtmq/src/download.rs) lays the      *)
(* image of one board out as prologue, ICH download and launch sections;   *)
(* encode_word_stream (catseq-runtime/src/protocol/rtlink.rs) cuts the     *)
(* words into frames of two, and prepare (execution.rs) marks the frames   *)
(* from which the board may start.  The words themselves are abstracted    *)
(* to their positions: 0 .. TotalWords(n) - 1 for n ICH words.             *)
(***************************************************************************)
EXTENDS Integers

PrologueWords == 6          \* EXC pause/halt, RSM, TCS reset
LaunchWords == 6            \* EXC, PTR, EHN hi/lo, STK, EXC resume

\* One ICA base word, then ICA / ICD hi / ICD lo for every ICH word.
IchDownloadWords(n) == 1 + 3 * n

\* loader.launch_range().start
LaunchStart(n) == PrologueWords + IchDownloadWords(n)

\* loader.words().len()
TotalWords(n) == LaunchStart(n) + LaunchWords

\* words.chunks(2): the last frame of an odd stream is zero padded.
FrameCount(n) == (TotalWords(n) + 1) \div 2

\* Frame f (counted from 0) carries the words 2f and 2f + 1.
FrameWords(n, f) == {w \in {2 * f, 2 * f + 1} : w < TotalWords(n)}

\* Mutant of LaunchBearing: only the first word of the frame is looked at.
LaunchBearingFirstWord(n, f) == f * 2 + 1 > LaunchStart(n)

\* PreparedFrame.launch_bearing
LaunchBearing(n, f) == f * 2 + 2 > LaunchStart(n)
=============================================================================
