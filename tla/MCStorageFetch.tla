---------------------------- MODULE MCStorageFetch ----------------------------
(* Whole reads of requests of up to four commands.                         *)
EXTENDS StorageFetch, MCStorage

MCPrograms ==
  {GetA, GetCA, GetDA, GetEB, GetEDA, GetFull, GetAString, GetCString, GetAtA, SelfReference,
   ForwardReference, BeyondReference, UnknownOpcode, MissingConstant,
   ShortBase, LongBase, NoCommand}
=============================================================================
