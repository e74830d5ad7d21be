---------------------------- MODULE WhisperAudio ----------------------------
(***************************************************************************)
(* What the whisper.cpp provider makes of its audio inputs: the check of   *)
(* PCM, the scan of a WAV file's chunks and the loop over a batch.  The    *)
(* inference of whisper.cpp is external.                                   *)
(*                                                                         *)
(* A WAV file is its RIFF magic and its chunks, in positions of bytes, cut *)
(* off at some length.  A chunk is its id, its declared size and, for fmt, *)
(* what it declares.  A sample is the range of bytes it is made of.        *)
(***************************************************************************)
EXTENDS Naturals, Sequences, SequencesExt, FiniteSets

Failed(why) == [ok |-> FALSE, why |-> why, samples |-> <<>>]
Decoded(samples) == [ok |-> TRUE, why |-> "none", samples |-> samples]

Padded(size) == size + (size % 2)

\* The files: chunk k starts behind the chunks before it, each padded.
Starts(file) ==
  FoldLeft(LAMBDA s, c : Append(s, Last(s) + 8 + Padded(c.size)), <<12>>, file.chunks)
ChunkAt(file, i) ==
  LET ks == {k \in DOMAIN file.chunks : Starts(file)[k] = i}
  IN  IF ks = {} THEN [id |-> "bytes", size |-> 0, says |-> <<>>]
      ELSE file.chunks[CHOOSE k \in ks : TRUE]

\* Variant: the byte that pads a chunk of odd size is forgotten.
AdvanceUnpadded(size) == size

Advance(size) == Padded(size)

\* One round of the scan at byte i: what the chunk there adds to `seen`.
ScanChunk(file, i, seen) ==
  LET c == ChunkAt(file, i)
      body == i + 8
      end == IF body + c.size <= file.length THEN body + c.size ELSE file.length
  IN  CASE c.id = "fmt" /\ c.size < 16 -> [seen EXCEPT !.error = "fmt chunk too small"]
        [] c.id = "fmt" /\ c.size >= 16 /\ body + 16 > file.length -> [seen EXCEPT !.error = "panic"]
        [] c.id = "fmt" /\ c.size >= 16 /\ body + 16 <= file.length -> [seen EXCEPT !.fmt = c.says]
        [] c.id = "data" -> [seen EXCEPT !.data = <<body, end>>]
        [] OTHER -> seen

\* The scan: it stops at an error or where no chunk header fits any more.
ScanFrom(file) ==
  LET scan[i \in 12..(file.length + 1)] ==
        IF i + 8 > file.length THEN [fmt |-> <<>>, data |-> <<>>, error |-> "none", path |-> <<>>]
        ELSE LET next == i + 8 + Advance(ChunkAt(file, i).size)
                 rest == scan[IF next > file.length THEN file.length + 1 ELSE next]
             IN  [rest EXCEPT !.path = <<i>> \o @]
  IN  FoldLeft(LAMBDA seen, i : IF seen.error # "none" THEN seen ELSE ScanChunk(file, i, seen),
               [fmt |-> <<>>, data |-> <<>>, error |-> "none"], scan[12].path)

\* Samples of two bytes, one or two to a frame; what is left over is lost.
Frames(data, channels) ==
  [f \in 1..((data[2] - data[1]) \div (2 * channels)) |->
     <<data[1] + 2 * channels * (f - 1), data[1] + 2 * channels * f>>]

\* What the scan has found must be 16 kHz, 16-bit PCM, mono or stereo.
FramesOf(seen) ==
  CASE seen.error # "none" -> Failed(seen.error)
    [] seen.error = "none" /\ seen.fmt = <<>> -> Failed("missing fmt chunk")
    [] seen.error = "none" /\ seen.fmt # <<>> /\ seen.data = <<>> -> Failed("missing data chunk")
    [] OTHER ->
         IF seen.fmt[1].format # 1 THEN Failed("not PCM")
         ELSE IF seen.fmt[1].bits # 16 THEN Failed("not 16-bit")
         ELSE IF seen.fmt[1].rate # 16000 THEN Failed("not 16 kHz")
         ELSE IF seen.fmt[1].channels \notin {1, 2} THEN Failed("channel count")
         ELSE Decoded(Frames(seen.data, seen.fmt[1].channels))

DecodeWav(file) ==
  IF file.length < 44 THEN Failed("too short")
  ELSE IF ~file.riff THEN Failed("not a RIFF/WAVE file")
  ELSE FramesOf(ScanFrom(file))

DecodeAudio(audio) ==
  IF audio.form = "pcm"
  THEN IF audio.rate # 16000 THEN Failed("PCM input must be 16000 Hz")
       ELSE CASE audio.channels = 1 -> Decoded(audio.samples)
              [] audio.channels = 2 ->
                   Decoded([f \in 1..(Len(audio.samples) \div 2) |-> <<2 * f - 1, 2 * f>>])
              [] OTHER -> Failed("unsupported channel count")
  ELSE IF audio.media \notin {"audio/wav", "audio/wave", "audio/x-wav"} THEN Failed("only audio/wav")
  ELSE DecodeWav(audio.file)

\* The batch after one more input.
AfterClip(batch, audio, infers) ==
  CASE batch.error # "none" -> batch
    [] batch.error = "none" /\ ~audio.ok -> [batch EXCEPT !.error = audio.why]
    [] batch.error = "none" /\ audio.ok /\ ~infers -> [batch EXCEPT !.error = "inference"]
    [] OTHER -> [batch EXCEPT !.results = Append(@, audio.samples)]

\* The inputs are taken in order; the first error is the batch's.
Transcribe(audios, infers) ==
  FoldLeft(LAMBDA batch, n : AfterClip(batch, DecodeAudio(audios[n]), infers[n]),
           [results |-> <<>>, error |-> "none"], [n \in DOMAIN audios |-> n])

=============================================================================
