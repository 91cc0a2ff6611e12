---------------------------- MODULE MCLlmWaterfall ----------------------------
(* The shipped order of kinds of provider, one of them twice, one without its key. *)
EXTENDS LlmWaterfall

MCTextLadder == <<"groq", "groq", "gemini", "mistral", "ollama">>
MCVisionLadder == <<"gemini", "anthropic", "openrouter", "openai_compat", "ollama">>
MCMinInterval ==
  [p \in Providers |-> CASE p = "groq" -> 1 [] p = "gemini" -> 2 [] p = "mistral" -> 6
                         [] OTHER -> 0]
==============================================================================
