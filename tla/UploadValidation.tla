------------------------- MODULE UploadValidation -------------------------
(***************************************************************************)
(* security/upload_validation.py: what is made of an uploaded file, from   *)
(* its bytes and from the type its sender declared.  A file is what the    *)
(* checks can tell of it:                                                  *)
(*                                                                         *)
(*   size       bytes                                                      *)
(*   starts     the signature its first twelve bytes carry                 *)
(*   declared   the content type of the form's part                        *)
(*   markup     its first 2048 bytes contain one of the markers of a       *)
(*              document that a browser would run                          *)
(*   readable   Pillow can open it                                         *)
(*   width, height   as its header has them                                *)
(***************************************************************************)
EXTENDS Integers

CONSTANTS
  MaxImageBytes, MaxVideoBytes,     \* max_image_bytes, max_video_bytes
  MaxImageDimension, MaxImagePixels \* max_image_dimension, max_image_pixels

ASSUME UploadAssumption ==
  {MaxImageBytes, MaxVideoBytes, MaxImageDimension, MaxImagePixels} \subseteq Nat \ {0}

ALLOWED_IMAGE_TYPES == {"image/jpeg", "image/png", "image/gif", "image/webp"}
ALLOWED_VIDEO_TYPES == {"video/mp4", "video/quicktime", "video/webm", "video/x-matroska"}

\* RIFF introduces WebP and others; EBML both WebM and Matroska.  "short" stands
\* for a file of fewer than twelve bytes, "other" for any other beginning.
Signature ==
  {"FFD8FF", "PNG", "GIF", "RIFF.WEBP", "RIFF.other", "ftyp.mp4", "ftyp.qt", "EBML", "short", "other"}

Upload ==
  [size : Nat, starts : Signature,
   declared : ALLOWED_IMAGE_TYPES \cup ALLOWED_VIDEO_TYPES \cup
              {"none", "application/octet-stream", "another"},
   markup : BOOLEAN, readable : BOOLEAN, width : Nat, height : Nat]

detect_content_type(data) ==
  CASE data.starts = "FFD8FF"    -> "image/jpeg"
    [] data.starts = "PNG"       -> "image/png"
    [] data.starts = "GIF"       -> "image/gif"
    [] data.starts = "RIFF.WEBP" -> "image/webp"
    [] data.starts = "ftyp.mp4"  -> "video/mp4"
    [] data.starts = "ftyp.qt"   -> "video/quicktime"
    [] data.starts = "EBML"      -> "video/webm"
    [] OTHER                     -> "none"

\* The outcome of a validator: the type it settles on, or the exception.
Error == {"UnsupportedMediaType", "PayloadTooLarge", "MediaProcessing"}

Passes(outcome) == outcome \notin Error

\* Fault: each side is bounded, but their product is not.
_probe_image_dimensions_sides(data) ==
  CASE ~data.readable -> "MediaProcessing"
    [] data.width > MaxImageDimension \/ data.height > MaxImageDimension -> "PayloadTooLarge"
    [] OTHER -> "fits"

\* Pillow refuses a bomb itself, from twice the pixels on; the code's own test
\* is the stricter one, and both end in the same exception.
_probe_image_dimensions(data) ==
  CASE ~data.readable -> "MediaProcessing"
    [] data.width > MaxImageDimension \/ data.height > MaxImageDimension -> "PayloadTooLarge"
    [] data.width * data.height > MaxImagePixels -> "PayloadTooLarge"
    [] OTHER -> "fits"

Contradicts(data) ==
  data.declared \notin {"none", "application/octet-stream", detect_content_type(data)}

validate_image_upload(data) ==
  CASE data.size = 0 -> "UnsupportedMediaType"
    [] data.size > MaxImageBytes -> "PayloadTooLarge"
    [] detect_content_type(data) \notin ALLOWED_IMAGE_TYPES -> "UnsupportedMediaType"
    [] Contradicts(data) \/ data.markup -> "UnsupportedMediaType"
    [] ~Passes(_probe_image_dimensions(data)) -> _probe_image_dimensions(data)
    [] OTHER -> detect_content_type(data)

\* What a video declares is not looked at, nor its duration and resolution:
\* probe_video_metadata() has no caller.
validate_video_upload(data) ==
  CASE data.size = 0 -> "UnsupportedMediaType"
    [] data.size > MaxVideoBytes -> "PayloadTooLarge"
    [] detect_content_type(data) \notin ALLOWED_VIDEO_TYPES -> "UnsupportedMediaType"
    [] data.markup -> "UnsupportedMediaType"
    [] OTHER -> detect_content_type(data)
=============================================================================
