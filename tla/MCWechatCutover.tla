--------------------------- MODULE MCWechatCutover ---------------------------
(* Small instances of WechatCutover for TLC: the cfg files give Logins.    *)
EXTENDS WechatCutover
=============================================================================
