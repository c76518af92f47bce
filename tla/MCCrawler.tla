------------------------------- MODULE MCCrawler -------------------------------
(* Crawler as TLC runs it: all constants are given in the configurations.      *)
EXTENDS Crawler

===============================================================================
