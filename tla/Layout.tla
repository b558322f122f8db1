---- MODULE Layout ----
(***************************************************************************)
(* The layout of the messages of 9P2000.L on the wire, as the Encodable    *)
(* and, on its own, as the Decodable implementations of                    *)
(* src/crates/rs9p/src/serialize.rs have it.  A layout is a sequence of    *)
(* kinds: the integers u8 to u64; "mask8" to "mask64", of which decoding   *)
(* drops the unknown bits; "pad", eight bytes nobody reads; "str"; the     *)
(* vectors "strs" and "qids"; "data"; "dirents".                           *)
(***************************************************************************)
EXTENDS Sequences

-----------------------------------------------------------------------------
(* Encodable.                                                              *)

EncQId == <<"mask8", "u32", "u64">>
EncTime == <<"u64", "u64">>
EncStatFs == <<"u32", "u32", "u64", "u64", "u64", "u64", "u64", "u64", "u32">>
EncStat == <<"u32", "u32", "u32", "u64", "u64", "u64", "u64", "u64">>
             \o EncTime \o EncTime \o EncTime
EncSetAttr == <<"u32", "u32", "u32", "u64">> \o EncTime \o EncTime
EncDirEntry == EncQId \o <<"u64", "u8", "str">>
EncFlock == <<"mask8", "mask32", "u64", "u64", "u32", "str">>
EncGetlock == <<"mask8", "u64", "u64", "u32", "str">>

EncodeL(typ) ==
  CASE typ \in {"RlError", "TStatFs", "TReadLink", "TFSync"} -> <<"u32">>
    [] typ = "RStatFs" -> EncStatFs
    [] typ = "TlOpen" -> <<"u32", "u32">>
    [] typ \in {"RlOpen", "RlCreate"} -> EncQId \o <<"u32">>
    [] typ = "TlCreate" -> <<"u32", "str", "u32", "u32", "u32">>
    [] typ = "TSymlink" -> <<"u32", "str", "str", "u32">>
    [] typ \in {"RSymlink", "RMkNod", "RMkDir"} -> EncQId
    [] typ = "TMkNod" -> <<"u32", "str", "u32", "u32", "u32", "u32">>
    [] typ \in {"TRename", "TxAttrWalk", "TLink"} -> <<"u32", "u32", "str">>
    [] typ \in {"RRename", "RSetAttr", "RxAttrCreate", "RFSync", "RLink", "RRenameAt",
                "RUnlinkAt"} -> <<>>
    [] typ = "RReadLink" -> <<"str">>
    [] typ = "TGetAttr" -> <<"u32", "mask64">>
    [] typ = "RGetAttr" -> <<"mask64">> \o EncQId \o EncStat \o <<"pad", "pad", "pad", "pad">>
    [] typ = "TSetAttr" -> <<"u32", "mask32">> \o EncSetAttr
    [] typ = "RxAttrWalk" -> <<"u64">>
    [] typ = "TxAttrCreate" -> <<"u32", "str", "u64", "u32">>
    [] typ = "TReadDir" -> <<"u32", "u64", "u32">>
    [] typ = "RReadDir" -> <<"dirents">>
    [] typ = "TLock" -> <<"u32">> \o EncFlock
    [] typ = "RLock" -> <<"mask8">>
    [] typ = "TGetLock" -> <<"u32">> \o EncGetlock
    [] typ = "RGetLock" -> EncGetlock
    [] typ = "TMkDir" -> <<"u32", "str", "u32", "u32">>
    [] typ = "TRenameAt" -> <<"u32", "str", "u32", "str">>
    [] typ = "TUnlinkAt" -> <<"u32", "str", "u32">>

EncodeU(typ) ==
  CASE typ = "TAuth" -> <<"u32", "str", "str", "u32">>
    [] typ \in {"RAuth", "RAttach"} -> EncQId
    [] typ = "TAttach" -> <<"u32", "u32", "str", "str", "u32">>

Encode9P(typ) ==
  CASE typ \in {"TVersion", "RVersion"} -> <<"u32", "str">>
    [] typ = "TFlush" -> <<"u16">>
    [] typ \in {"RFlush", "RClunk", "RRemove"} -> <<>>
    [] typ = "TWalk" -> <<"u32", "u32", "strs">>
    [] typ = "RWalk" -> <<"qids">>
    [] typ = "TRead" -> <<"u32", "u64", "u32">>
    [] typ = "RRead" -> <<"data">>
    [] typ = "TWrite" -> <<"u32", "u64", "data">>
    [] typ \in {"RWrite", "TClunk", "TRemove"} -> <<"u32">>

-----------------------------------------------------------------------------
(* Decodable.                                                              *)

\* Mutant: the path before the version.
DecQIdSwapped == <<"mask8", "u64", "u32">>
DecQId == <<"mask8", "u32", "u64">>
DecTime == <<"u64", "u64">>
DecStatFs == <<"u32", "u32", "u64", "u64", "u64", "u64", "u64", "u64", "u32">>
DecStat == <<"u32", "u32", "u32", "u64", "u64", "u64", "u64", "u64">>
             \o DecTime \o DecTime \o DecTime
DecSetAttr == <<"u32", "u32", "u32", "u64">> \o DecTime \o DecTime
DecDirEntry == DecQId \o <<"u64", "u8", "str">>
DecFlock == <<"mask8", "mask32", "u64", "u64", "u32", "str">>
DecGetlock == <<"mask8", "u64", "u64", "u32", "str">>

DecodeL(typ) ==
  CASE typ = "RlError" -> <<"u32">>
    [] typ = "RStatFs" -> DecStatFs
    [] typ \in {"TStatFs", "TReadLink", "TFSync"} -> <<"u32">>
    [] typ = "TlOpen" -> <<"u32", "u32">>
    [] typ \in {"RlOpen", "RlCreate"} -> DecQId \o <<"u32">>
    [] typ = "TlCreate" -> <<"u32", "str", "u32", "u32", "u32">>
    [] typ = "TSymlink" -> <<"u32", "str", "str", "u32">>
    [] typ \in {"RSymlink", "RMkNod", "RMkDir"} -> DecQId
    [] typ = "TMkNod" -> <<"u32", "str", "u32", "u32", "u32", "u32">>
    [] typ \in {"TRename", "TxAttrWalk", "TLink"} -> <<"u32", "u32", "str">>
    [] typ = "RReadLink" -> <<"str">>
    [] typ = "TGetAttr" -> <<"u32", "mask64">>
    [] typ = "RGetAttr" -> <<"mask64">> \o DecQId \o DecStat \o <<"pad", "pad">> \o <<"pad", "pad">>
    [] typ = "TSetAttr" -> <<"u32", "mask32">> \o DecSetAttr
    [] typ = "RxAttrWalk" -> <<"u64">>
    [] typ = "TxAttrCreate" -> <<"u32", "str", "u64", "u32">>
    [] typ = "TReadDir" -> <<"u32", "u64", "u32">>
    [] typ = "RReadDir" -> <<"dirents">>
    [] typ = "TLock" -> <<"u32">> \o DecFlock
    [] typ = "RLock" -> <<"mask8">>
    [] typ = "TGetLock" -> <<"u32">> \o DecGetlock
    [] typ = "RGetLock" -> DecGetlock
    [] typ = "TMkDir" -> <<"u32", "str", "u32", "u32">>
    [] typ = "TRenameAt" -> <<"u32", "str", "u32", "str">>
    [] typ = "TUnlinkAt" -> <<"u32", "str", "u32">>
    [] typ \in {"RRename", "RSetAttr", "RxAttrCreate", "RFSync", "RLink", "RRenameAt",
                "RUnlinkAt"} -> <<>>

DecodeU(typ) ==
  CASE typ = "TAuth" -> <<"u32", "str", "str", "u32">>
    [] typ = "TAttach" -> <<"u32", "u32", "str", "str", "u32">>
    [] typ \in {"RAuth", "RAttach"} -> DecQId

Decode9P(typ) ==
  CASE typ = "TVersion" -> <<"u32", "str">>
    [] typ = "RVersion" -> <<"u32", "str">>
    [] typ = "TFlush" -> <<"u16">>
    [] typ = "TWalk" -> <<"u32", "u32", "strs">>
    [] typ = "RWalk" -> <<"qids">>
    [] typ = "TRead" -> <<"u32", "u64", "u32">>
    [] typ = "RRead" -> <<"data">>
    [] typ = "TWrite" -> <<"u32", "u64", "data">>
    [] typ \in {"RWrite", "TClunk", "TRemove"} -> <<"u32">>
    [] typ \in {"RFlush", "RClunk", "RRemove"} -> <<>>

-----------------------------------------------------------------------------
(* The message types.                                                      *)

TypesL ==
  {"RlError", "TStatFs", "RStatFs", "TlOpen", "RlOpen", "TlCreate", "RlCreate",
   "TSymlink", "RSymlink", "TMkNod", "RMkNod", "TRename", "RRename", "TReadLink",
   "RReadLink", "TGetAttr", "RGetAttr", "TSetAttr", "RSetAttr", "TxAttrWalk",
   "RxAttrWalk", "TxAttrCreate", "RxAttrCreate", "TReadDir", "RReadDir", "TFSync",
   "RFSync", "TLock", "RLock", "TGetLock", "RGetLock", "TLink", "RLink", "TMkDir",
   "RMkDir", "TRenameAt", "RRenameAt", "TUnlinkAt", "RUnlinkAt"}
TypesU == {"TAuth", "RAuth", "TAttach", "RAttach"}
Types9P ==
  {"TVersion", "RVersion", "TFlush", "RFlush", "TWalk", "RWalk", "TRead", "RRead",
   "TWrite", "RWrite", "TClunk", "RClunk", "TRemove", "RRemove"}
MsgTypes == TypesL \cup TypesU \cup Types9P

EncodeLayout(typ) ==
  CASE typ \in TypesL -> EncodeL(typ) [] typ \in TypesU -> EncodeU(typ)
    [] typ \in Types9P -> Encode9P(typ)
DecodeLayout(typ) ==
  CASE typ \in TypesL -> DecodeL(typ) [] typ \in TypesU -> DecodeU(typ)
    [] typ \in Types9P -> Decode9P(typ)
====
