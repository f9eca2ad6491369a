--------------------------- MODULE MCWechatDelivery ---------------------------
(* Small instances of WechatDelivery for TLC.                              *)
EXTENDS WechatDelivery, TLC

M(text, ctx) == [text |-> text, ctx |-> ctx]

(* A text, a message that is not one and brings no context, and a text of  *)
(* another conversation.                                                   *)
ThreeMessages == <<M(TRUE, "A"), M(FALSE, NoContext), M(TRUE, "B")>>
=============================================================================
