----------------------- MODULE MCAIProviderOperations ------------------------
(* TLC instance of AIProviderOperations.                                     *)
EXTENDS AIProviderOperations, TLC
==============================================================================
