-------------------------- MODULE MCNoticeDelivery --------------------------
(* Model-checking instance of NoticeDelivery. *)
EXTENDS NoticeDelivery
=============================================================================
