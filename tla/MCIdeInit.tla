------------------------------- MODULE MCIdeInit -------------------------------
EXTENDS IdeInit
====
