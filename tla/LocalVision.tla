----------------------------- MODULE LocalVision -----------------------------
(***************************************************************************)
(* The image tasks of the local ONNX provider: preprocessing, the image    *)
(* embedder, and OCR with or without a detection stage before the          *)
(* recognizer.                                                             *)
(*                                                                         *)
(* An image is [source, decodes, width, height, says]: source "bytes" or   *)
(* "url".  A probability map is a sequence of rows of tenths.  Boxes are   *)
(* half open, [x0, y0, x1, y1, score]: in hundredths of a pixel of the     *)
(* map, and in whole pixels once they are scaled to the image.  The graphs *)
(* are external: operators that the configurations give.                   *)
(***************************************************************************)
EXTENDS Integers, Sequences, SequencesExt, FiniteSets, FiniteSetsExt

Success(value) == [error |-> "none", value |-> value]
Failure(why) == [error |-> why, value |-> <<>>]

Clamp(x, low, high) == IF x < low THEN low ELSE IF x > high THEN high ELSE x
Distance(a, b) == IF a > b THEN a - b ELSE b - a
Divided(x, by) == x \div by
DividedUp(x, by) == (x + by - 1) \div by

(***************************************************************************)
(* Preprocessing.                                                          *)
(***************************************************************************)
Readable(image) == image.source = "bytes" /\ image.decodes

\* preprocess_batch_hw: the first image that cannot be read ends the batch;
\* each image is stretched to the target on its own.
PreprocessBatch(images) ==
  LET bad == SelectSeq(images, LAMBDA i : ~Readable(i))
  IN  CASE bad = <<>> -> Success(images)
        [] bad # <<>> /\ bad[1].source = "url" -> Failure("url")
        [] OTHER -> Failure("decode")

RoundToMultiple(n, of) == Max({((n + of \div 2) \div of) * of, of})

\* The longest side is brought down to the limit, and both to multiples of
\* what the detector takes.
DetSize(image, limit, of) ==
  LET longest == Max({image.width, image.height})
      side(n) == IF longest > limit THEN (2 * n * limit + longest) \div (2 * longest) ELSE n
  IN  [width |-> RoundToMultiple(side(image.width), of), height |-> RoundToMultiple(side(image.height), of)]

(***************************************************************************)
(* Image embeddings.  A row is the images it is made of.                   *)
(***************************************************************************)
EmbedImages(images, graph, pool, dimensions) ==
  IF images = <<>> THEN Success(<<>>)
  ELSE LET read == PreprocessBatch(images)
           output == graph[read.value]
       IN  CASE read.error # "none" -> read
             [] read.error = "none" /\ output.rank = 3 /\ pool = "none" -> Failure("pool")
             [] read.error = "none" /\ output.rank \notin {2, 3} -> Failure("rank")
             [] read.error = "none" /\ output.rank = 3 /\ pool = "mean" /\ output.patches = 0 -> Failure("patches")
             [] OTHER -> IF output.dim # dimensions THEN Failure("dimension") ELSE Success(output.rows)

(***************************************************************************)
(* Detection.                                                              *)
(***************************************************************************)
Pixels(map) == {<<y, x>> : y \in DOMAIN map, x \in IF map = <<>> THEN {} ELSE DOMAIN map[1]}
Foreground(map, params) == {p \in Pixels(map) : map[p[1]][p[2]] >= params.bin}
Adjacent(p, q) == Distance(p[1], q[1]) + Distance(p[2], q[2]) = 1

\* Variant: the fill goes over corners too.
FloodDiagonal(fore, start) ==
  LET fill[n \in 0..Cardinality(fore)] ==
        IF n = 0 THEN {start}
        ELSE LET before == fill[n - 1]
             IN  before \cup {q \in fore : \E p \in before : Distance(p[1], q[1]) <= 1 /\ Distance(p[2], q[2]) <= 1}
  IN  fill[Cardinality(fore)]

\* The component of a foreground pixel.
Flood(fore, start) ==
  LET fill[n \in 0..Cardinality(fore)] ==
        IF n = 0 THEN {start}
        ELSE LET before == fill[n - 1] IN before \cup {q \in fore : \E p \in before : Adjacent(p, q)}
  IN  fill[Cardinality(fore)]

\* The components, each at its first pixel in the order of the scan.
Components(map, params) ==
  LET fore == Foreground(map, params)
      before(p, q) == p[1] < q[1] \/ (p[1] = q[1] /\ p[2] < q[2])
      parts == {Flood(fore, p) : p \in fore}
      first(c) == CHOOSE p \in c : \A q \in c \ {p} : before(p, q)
  IN  SetToSortSeq(parts, LAMBDA c, d : before(first(c), first(d)))

BoundingBox(map, c) ==
  LET xs == {p[2] : p \in c}
      ys == {p[1] : p \in c}
  IN  [x0 |-> 100 * (Min(xs) - 1), y0 |-> 100 * (Min(ys) - 1), x1 |-> 100 * Max(xs), y1 |-> 100 * Max(ys),
       score |-> FoldSet(LAMBDA p, sum : map[p[1]][p[2]] + sum, 0, c) \div Cardinality(c)]

Wide(b) == b.x1 - b.x0
High(b) == b.y1 - b.y0

\* Dilated by area * ratio / perimeter, within the map; ratio in tenths.
Unclip(b, ratio, width, height) ==
  LET distance == (Wide(b) * High(b) * ratio) \div (20 * (Wide(b) + High(b)))
  IN  [b EXCEPT !.x0 = Clamp(@ - distance, 0, width), !.y0 = Clamp(@ - distance, 0, height),
                !.x1 = Clamp(@ + distance, 0, width), !.y1 = Clamp(@ + distance, 0, height)]

PostProcess(map, params) ==
  IF Pixels(map) = {} THEN <<>>
  ELSE LET parts == Components(map, params)
           boxes == [i \in DOMAIN parts |-> BoundingBox(map, parts[i])]
           kept == SelectSeq(boxes, LAMBDA b : /\ Wide(b) >= 100 * params.side /\ High(b) >= 100 * params.side
                                               /\ b.score >= params.score)
       IN  [i \in DOMAIN kept |-> Unclip(kept[i], params.unclip, 100 * Len(map[1]), 100 * Len(map))]

\* Back to pixels of the image: the map is det.width for image.width.
ScaleTo(b, det, image) ==
  LET x(n) == n * image.width
      y(n) == n * image.height
  IN  [b EXCEPT !.x0 = Clamp(Divided(x(@), 100 * det.width), 0, image.width),
                !.y0 = Clamp(Divided(y(@), 100 * det.height), 0, image.height),
                !.x1 = Clamp(DividedUp(x(@), 100 * det.width), 0, image.width),
                !.y1 = Clamp(DividedUp(y(@), 100 * det.height), 0, image.height)]

StableSort(boxes, edge) ==
  LET order == SetToSortSeq(DOMAIN boxes, LAMBDA i, j : boxes[i][edge] < boxes[j][edge]
                                                       \/ (boxes[i][edge] = boxes[j][edge] /\ i < j))
  IN  [i \in DOMAIN order |-> boxes[order[i]]]

\* By top edge; then each line, the boxes whose top is near its first one's,
\* from left to right.  Twice the threshold is given.
SortReadingOrder(boxes, twice) ==
  LET tops == StableSort(boxes, "y0")
      near(first, b) == 2 * (b.y0 - first.y0) <= twice
      lines == FoldLeft(LAMBDA ls, b : IF ls # <<>> /\ near(ls[Len(ls)][1], b)
                                       THEN [ls EXCEPT ![Len(ls)] = Append(@, b)] ELSE Append(ls, <<b>>),
                        <<>>, tops)
  IN  FlattenSeq([l \in DOMAIN lines |-> StableSort(lines[l], "x0")])

(***************************************************************************)
(* Recognition.                                                            *)
(***************************************************************************)
\* The best class of each time step; repeats are one character, a blank ends
\* a run, and a class past the dictionary has no character.
DecodeCtc(classes, blank, chars) ==
  LET step(seen, c) ==
        IF c = blank THEN [seen EXCEPT !.prev = -1]
        ELSE IF seen.prev = c THEN seen
        ELSE LET i == IF c > blank + 1 THEN c - (blank + 1) ELSE 0
             IN  [prev |-> c, text |-> IF i < Len(chars) THEN Append(seen.text, chars[i + 1]) ELSE seen.text]
  IN  FoldLeft(step, [prev |-> -1, text |-> <<>>], classes).text

\* run_recognition: one text for each image of the tensor.
RunRecognition(images, recognizer, model) ==
  LET output == recognizer[images]
  IN  CASE output.error # "none" -> Failure("inference")
        [] output.error = "none" /\ output.rank # 3 -> Failure("rank")
        [] output.error = "none" /\ output.rank = 3 /\ model.blank >= output.classes -> Failure("blank class")
        [] OTHER -> Success([i \in DOMAIN output.rows |-> DecodeCtc(output.rows[i], model.blank, model.chars)])

WholeImage == [x0 |-> 0, y0 |-> 0, x1 |-> 1, y1 |-> 1]

RecognizeWholeImage(images, recognizer, model) ==
  LET read == PreprocessBatch(images) IN
  IF read.error # "none" THEN read
  ELSE LET texts == RunRecognition(images, recognizer, model) IN
       IF texts.error # "none" THEN texts
       ELSE Success([i \in DOMAIN texts.value |-> <<[text |-> texts.value[i], box |-> WholeImage]>>])

\* The crop of a box holds what the image says there.
CropOf(image, b) == [image EXCEPT !.says = <<b.x0, b.y0, b.x1, b.y1>>]

\* The texts of one page's boxes in reading order; empty ones are dropped.
ReadBoxes(image, boxes, recognizer, model) ==
  LET real == SelectSeq(boxes, LAMBDA b : Wide(b) > 0 /\ High(b) > 0)
      read == [i \in DOMAIN real |-> RunRecognition(<<CropOf(image, real[i])>>, recognizer, model)]
      text(i) == IF read[i].value = <<>> THEN <<>> ELSE Last(read[i].value)
      items == [i \in DOMAIN real |-> [text |-> text(i), box |-> real[i]]]
  IN  IF \E i \in DOMAIN read : read[i].error # "none" THEN Failure("recognition")
      ELSE Success(SelectSeq(items, LAMBDA item : item.text # <<>>))

RecognizeImage(image, detector, recognizer, model) ==
  LET det == DetSize(image, model.limit, model.multiple)
      map == detector[image]
      found == PostProcess(map.value, model.params)
      boxes == [i \in DOMAIN found |-> ScaleTo(found[i], det, image)]
      \* half the mean height of the boxes, twice
      twice == FoldLeft(LAMBDA sum, b : sum + High(b), 0, boxes) \div Max({1, Len(boxes)})
  IN  IF ~Readable(image) THEN Failure(IF image.source = "url" THEN "url" ELSE "decode")
      ELSE IF map.error # "none" THEN map
      ELSE IF boxes = <<>> THEN Success(<<>>)
      ELSE ReadBoxes(image, SortReadingOrder(boxes, twice), recognizer, model)

\* recognize: with a detector, page by page; the first error ends the call.
Recognize(images, detector, recognizer, model) ==
  IF images = <<>> THEN Success(<<>>)
  ELSE IF ~model.detects THEN RecognizeWholeImage(images, recognizer, model)
  ELSE LET pages == [i \in DOMAIN images |-> RecognizeImage(images[i], detector, recognizer, model)]
           bad == SelectSeq(pages, LAMBDA p : p.error # "none")
       IN  IF bad # <<>> THEN bad[1] ELSE Success([i \in DOMAIN pages |-> pages[i].value])

=============================================================================
