----------------------------- MODULE MCKeepList -----------------------------
EXTENDS KeepList

\* One res directory with a raw file, a raw file in a configuration
\* variant, a raw file one level deeper, and a layout.
MCResDirs == { << "app", "res" >> }
MCFiles ==
    { << "app", "res", "raw", "keep.xml" >>,
      << "app", "res", "raw-v21", "keep.xml" >>,
      << "app", "res", "raw", "sub", "keep.xml" >>,
      << "app", "res", "layout", "main.xml" >> }
MCXmlNames == { "keep.xml", "main.xml" }
MCRawDashNames == { "raw-v21" }

\* Malformed XML, no tools:keep, and the values "a", "t/a",
\* "t/a, b" and "t/ a".
MCKeepDocs ==
    { Malformed, NoKeep,
      KeepAttr(<< "a" >>),
      KeepAttr(<< "t", "/", "a" >>),
      KeepAttr(<< "t", "/", "a", ",", " ", "b" >>),
      KeepAttr(<< "t", "/", " ", "a" >>) }

=============================================================================
