------------------------------- MODULE DpiCall -------------------------------
(***************************************************************************)
(* Functions of the DPI layer that keep nothing from one call to the next: *)
(* the state is the frame of the one call that is made, a record whose     *)
(* field "of" says which function it is a call of.                         *)
(***************************************************************************)
VARIABLE frame

Calling(f) == frame.of = f
=============================================================================
