----------------------------- MODULE MCCacheKey -----------------------------
(* All pairs of filters over short fields, with separators in some of them. *)
EXTENDS CacheKey

MCSep == "|"
MCStamp == {<<"t">>}
AnyText == {<<>>, <<"|">>, <<"a", "|">>}
MCChar == {"a", "t", "|"}
=============================================================================
