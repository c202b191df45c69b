----------------------- MODULE MCProviderSettings -----------------------
(* ProviderSettings on a small instance: two built-in providers with       *)
(* closed catalogs, the key of one of them in the environment, and one     *)
(* custom id.                                                              *)
EXTENDS ProviderSettings, TLC

CONSTANTS openai, xai, gpt, grok, OpenAI, XAI

BuiltInDef == {openai, xai}
OptionsDef == openai :> {gpt} @@ xai :> {grok}
FallbackDef == openai :> gpt @@ xai :> grok
BuiltInNameDef == openai :> OpenAI @@ xai :> XAI

Symmetry == Permutations(Clients)
=============================================================================
