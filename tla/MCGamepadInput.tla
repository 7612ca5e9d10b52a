----------------------------- MODULE MCGamepadInput -----------------------------
(* GamepadInput for TLC: its state is finite as it is. *)
EXTENDS GamepadInput
================================================================================
