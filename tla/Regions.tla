------------------------------ MODULE Regions ------------------------------
(***************************************************************************)
(* From an image to the region of a detection: letterbox_resize            *)
(* (stages/_utils/image_ops.py) scales the image into a square canvas, the *)
(* network finds a box on the canvas, SCRFDDetectionStage (scrfd_          *)
(* detection.py) brings it back to the image and RegionCropStage           *)
(* (region_crop.py) cuts it out, with a margin of a tenth on each side.    *)
(*                                                                         *)
(* All lengths are fractions with a common denominator: an image           *)
(* coordinate counts in 1/Target pixels, one with a margin in              *)
(* 1/(10 Target).  External: Pillow refuses to resize to a side of 0, and  *)
(* to crop a box whose right is less than its left.                        *)
(***************************************************************************)
EXTENDS Integers

CONSTANTS
  Target,   \* the side of the canvas: target_size
  Sides,    \* the lengths the sides of an image may have
  Places    \* the coordinates the network may give, some outside the canvas

\* What the constants have to be.
TargetAssumption ==
  Target \in Nat \ {0} /\ Sides \subseteq Nat \ {0} /\ Places \subseteq Int

Axes == {"x", "y"}

VARIABLES
  size,     \* the sides of the image
  detscale, \* det_scale: Target / detscale
  box,      \* the box on the canvas, by axis: its two ends
  region,   \* the part that was cut out, by axis, in pixels
  stage     \* "preprocess", "detect", "crop", "cropped" or "failed"
vars == <<size, detscale, box, region, stage>>

None == [a \in Axes |-> <<0, 0>>]

Init ==
  /\ size \in [Axes -> Sides]
  /\ detscale = Target
  /\ box = None
  /\ region = None
  /\ stage = "preprocess"

Most(a, b) == IF a >= b THEN a ELSE b
Least(a, b) == IF a <= b THEN a ELSE b

-----------------------------------------------------------------------------
(* letterbox_resize.                                                       *)

\* scale = min(target_w / orig_w, target_h / orig_h): Target / Longer.
Longer == Most(size["x"], size["y"])

\* int(orig * scale), the side of the image on the canvas.
OnCanvas(a) == (size[a] * Target) \div Longer

Preprocess ==
  /\ stage = "preprocess"
  /\ \A a \in Axes : OnCanvas(a) > 0
  /\ detscale' = Longer
  /\ stage' = "detect"
  /\ UNCHANGED <<size, box, region>>

PreprocessFails ==
  /\ stage = "preprocess"
  /\ \E a \in Axes : OnCanvas(a) = 0
  /\ stage' = "failed"
  /\ UNCHANGED <<size, detscale, box, region>>

\* The network finds anything anywhere, in the padding too.
Detect ==
  /\ stage = "detect"
  /\ box' \in [Axes -> Places \X Places]
  /\ stage' = "crop"
  /\ UNCHANGED <<size, detscale, region>>

-----------------------------------------------------------------------------
(* The detection on the image, and its region.                             *)

\* Mutant: the scale is not found under its key and taken for 1.
AsOnCanvas(c) == c * Target

\* box[i] / det_scale.
OnImage(c) == c * detscale

\* int: towards zero.
Trunc(n) == IF n >= 0 THEN n \div (10 * Target) ELSE -((-n) \div (10 * Target))

\* Mutant: the margin is not cut off at the far end.
FarUncut(a) == 11 * OnImage(box[a][2]) - OnImage(box[a][1])

Near(a) == Most(0, 11 * OnImage(box[a][1]) - OnImage(box[a][2]))
Far(a) == Least(size[a] * 10 * Target,
                11 * OnImage(box[a][2]) - OnImage(box[a][1]))

Upright == \A a \in Axes : Trunc(Near(a)) <= Trunc(Far(a))

Crop ==
  /\ stage = "crop"
  /\ Upright
  /\ region' = [a \in Axes |-> <<Trunc(Near(a)), Trunc(Far(a))>>]
  /\ stage' = "cropped"
  /\ UNCHANGED <<size, detscale, box>>

CropFails ==
  /\ stage = "crop"
  /\ ~Upright
  /\ stage' = "failed"
  /\ UNCHANGED <<size, detscale, box, region>>

Ended == stage \in {"cropped", "failed"} /\ UNCHANGED vars

Next ==
  Preprocess \/ PreprocessFails \/ Detect \/ Crop \/ CropFails \/ Ended

Spec == Init /\ [][Next]_vars

-----------------------------------------------------------------------------
\* What is seen at canvas coordinate c is at c / scale on the image.
SeenAt(c) == c * Longer

\* What is cut out lies within the image, whatever the network found, and all
\* of what was found that is on the image is in it, but for a part of the last
\* pixel.
RegionCovers ==
  stage = "cropped" => \A a \in Axes :
    /\ 0 <= region[a][1]
    /\ region[a][1] <= region[a][2]
    /\ region[a][2] <= size[a]
    /\ box[a][1] <= box[a][2] =>
         /\ region[a][1] * Target <= Most(0, SeenAt(box[a][1]))
         /\ (region[a][2] + 1) * Target
              > Least(size[a] * Target, SeenAt(box[a][2]))

\* Only a region that lies in the padding beside the image, a box turned inside
\* out and an image so thin that one of its sides vanishes make a stage fail.
FailsForReason ==
  stage = "failed" => \E a \in Axes :
    \/ OnCanvas(a) = 0
    \/ box[a][2] < box[a][1]
    \/ box[a][2] < 0
    \/ SeenAt(box[a][1]) > size[a] * Target
=============================================================================
