------------------------------- MODULE Sessions --------------------------------
(* The browser sessions of one Streamlit process.  A session runs one script   *)
(* at a time; the scripts of different sessions are threads.                   *)
CONSTANT Sessions
================================================================================
