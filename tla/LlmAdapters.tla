----------------------------- MODULE LlmAdapters -----------------------------
(***************************************************************************)
(* The adapters of sdk-python/orchestrator/llm.py: how many tokens each    *)
(* reports for an answer of its service.                                   *)
(*                                                                         *)
(* complete keeps no state between calls.  Left out: the texts, the tools  *)
(* and models it passes on or does not, max_tokens, stop reasons, and      *)
(* answers it fails to read.  Tokens in and out are treated alike, and one *)
(* number stands for both.                                                 *)
(***************************************************************************)
EXTENDS Naturals

\* What an answer took: tokens by the count of the service, and the words of the
\* prompt and the text.
Answers(sizes) == [tokens : sizes, words : sizes]

\* The mock asks nobody.
MockTokens(answer) == answer.words

AnthropicTokens(answer) == answer.tokens
OpenAITokens(answer) == answer.tokens
GeminiTokens(answer) == answer.tokens
XAITokens(answer) == answer.tokens
AzureTokens(answer) == answer.tokens

\* The generated text repeats the prompt, and all its words count.
HuggingFaceTokens(answer) == answer.words

-----------------------------------------------------------------------------
Adapters == {"mock", "anthropic", "openai", "gemini", "xai", "huggingface", "azure"}

\* The adapters that report the service's own count.
Metered == Adapters \ {"mock", "huggingface"}

Reported(adapter, answer) ==
    CASE adapter = "mock" -> MockTokens(answer)
      [] adapter = "anthropic" -> AnthropicTokens(answer)
      [] adapter = "openai" -> OpenAITokens(answer)
      [] adapter = "gemini" -> GeminiTokens(answer)
      [] adapter = "xai" -> XAITokens(answer)
      [] adapter = "huggingface" -> HuggingFaceTokens(answer)
      [] adapter = "azure" -> AzureTokens(answer)
==============================================================================
