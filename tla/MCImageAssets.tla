-------------------------------- MODULE MCImageAssets --------------------------------
(* Small instances of ImageAssets for TLC: the inputs requests may carry. *)
EXTENDS ImageAssets

CONSTANTS s1, u1, r1, r2

Create(thumb) == [op |-> "create", image |-> s1, upload |-> u1, thumb |-> thumb]
On(op, i) == [op |-> op, image |-> i, upload |-> u1, thumb |-> FALSE]

\* Registrations of one upload, and operations on an old image and on a new one.
AssetInputs ==
  {Create(TRUE), Create(FALSE), On("delete", s1), On("force", s1), On("restore", s1),
   On("crop", s1), On("delete", r1)}

CropInputs == {Create(TRUE), On("crop", s1), On("delete", s1)}
=============================================================================
