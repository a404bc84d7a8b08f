------------------------ MODULE MCLineageMigration ------------------------
EXTENDS LineageMigration
=============================================================================
