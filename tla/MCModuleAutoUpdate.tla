-------------------------- MODULE MCModuleAutoUpdate --------------------------
(* Three modules that need one another in a chain.                           *)
EXTENDS ModuleAutoUpdate

CONSTANTS base, mail, sale

Chain == {<<mail, base>>, <<sale, mail>>, <<sale, base>>}
==============================================================================
