---------------------------- MODULE MCProviders ----------------------------
(* Answers with text, with two calls whose fragments alternate, with both,  *)
(* and without any output.                                                  *)
EXTENDS Providers

ThisClients == [style : {"openai", "ollama", "cohere"}, attempts : 0..2]
                 \cup [style : {"anthropic", "gemini"}, attempts : {1}]

ThisAnswers == {<<>>, <<Text(1), Text(2), Text(3)>>, <<Text(1), Frag(1, 1), Frag(2, 1), Frag(1, 2)>>}
=============================================================================
