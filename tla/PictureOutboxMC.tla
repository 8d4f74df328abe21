---------------------------- MODULE PictureOutboxMC ----------------------------
(* The instance TLC checks: PictureOutbox.cfg.                              *)
EXTENDS PictureOutbox
================================================================================
